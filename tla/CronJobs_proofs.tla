--------------------------- MODULE CronJobs_proofs ---------------------------
(***************************************************************************)
(* Proofs about CronJobs for every set of jobs, strangers and workers and  *)
(* every number of commands, edits, failures and starts: the type          *)
(* invariant, who may leave jobs.json unreadable, and what commands one    *)
(* after another keep, acknowledge and find.                               *)
(***************************************************************************)
EXTENDS CronJobs, TLAPS

(***************************************************************************)
(* The inductive invariant.                                                *)
(***************************************************************************)
Setting(w) == call[w].op = "set" /\ call[w].name \in Jobs

\* Worker w is between the lock of SetEnabled and the end of its reschedule.
InSet(w) == pc[w] \in {"open", "write"} \/ (pc[w] = "resched" /\ call[w].op = "set")

\* What each worker does is a step of its command; the mutex is held by the worker
\* that is in SetEnabled, and by nobody else; a gateway that serves no commands has
\* no workers.
ControlOK ==
  /\ \A w \in Workers :
       /\ pc[w] # "idle" => call[w] \in Commands
       /\ pc[w] = "lock" => call[w].op = "set"
       /\ pc[w] = "find" => call[w].op = "run"
       /\ pc[w] = "resched" => call[w].op \in {"set", "reload"}
       /\ InSet(w) => Setting(w) /\ jobsMu = w
       /\ jobsMu = w => InSet(w)
  /\ ~ Serving => Busy = {}

\* Whole unless it is being written: TornOnlyWhileWriting.
FileOK == TypeOK /\ ControlOK /\ TornOnlyWhileWriting

\* Undisturbed, commands come one by one and nothing has failed.
OneByOne ==
  calm => /\ faults = 0 /\ ~ killed
          /\ \A v, w \in Workers : pc[v] # "idle" /\ pc[w] # "idle" => v = w

SameText(j) == jobs[j].text = file[j].text
SameFlag(j) == jobs[j].enabled = file[j].enabled

\* Undisturbed, a worker has read what is in the file, and differs from it only in the
\* flag it is about to write.
ReadOf(w) ==
  /\ pc[w] = "adopt" => got[w] = file
  /\ pc[w] \in {"lock", "find", "resched"} => jobs = file
  /\ pc[w] \in {"open", "write"} => \A j \in Jobs :
       /\ SameText(j)
       /\ j # call[w].name => SameFlag(j)
  /\ InSet(w) => jobs[call[w].name].enabled = call[w].to

ReadOK == calm => \A w \in Workers : ReadOf(w)

\* Undisturbed, what was acknowledged is in the file, but for the job whose new flag is
\* written and not yet acknowledged; and in the scheduler of a gateway that is up.
AckOf(j) ==
  /\ \/ acked[j] \subseteq {file[j].enabled}
     \/ \E w \in Workers : pc[w] = "resched" /\ call[w].op = "set" /\ call[w].name = j
  /\ gateway = "up" => acked[j] \subseteq {scheduled[j].enabled}

AckOK == calm => \A j \in Jobs : AckOf(j)

TurnOK == OneByOne /\ ReadOK /\ AckOK /\ EditsKept

IInv == FileOK /\ TurnOK
-----------------------------------------------------------------------------
(***************************************************************************)
(* Types.                                                                  *)
(***************************************************************************)
LEMMA Bounds ==
  /\ MaxEdits \in Nat /\ MaxCommands \in Nat /\ MaxFaults \in Nat /\ MaxStarts \in Nat
  /\ 0 \in Texts /\ Texts \subseteq Nat
BY BoundsAreNaturals DEF Texts

LEMMA CommandOf ==
  ASSUME NEW c \in Commands
  PROVE  /\ c.op \in {"set", "run", "reload"}
         /\ c.op = "set" => c.name \in Names /\ c.to \in BOOLEAN
         /\ c.op = "run" => c.name \in Names
         /\ AfterRead(c.op) \in {"lock", "find", "resched"}
         /\ AfterRead(c.op) = "lock" => c.op = "set"
         /\ AfterRead(c.op) = "find" => c.op = "run"
         /\ AfterRead(c.op) = "resched" => c.op = "reload"
BY DEF Commands, AfterRead

LEMMA NoJobsRange == NoJobs \in JobLists
BY Bounds DEF NoJobs, JobLists, Definitions

LEMMA DefinitionOf ==
  ASSUME NEW list \in JobLists, NEW j \in Jobs
  PROVE  list[j] \in Definitions /\ list[j].enabled \in BOOLEAN /\ list[j].text \in Texts
BY DEF JobLists, Definitions

Types == {"idle", "read", "adopt", "lock", "open", "write", "resched", "find"}

\* The step of a worker: what it does to its own and to the others' control.
LEMMA Moves ==
  ASSUME TypeOK, NEW w \in Workers, NEW label \in Types, Go(w, label)
  PROVE  /\ pc' \in [Workers -> Types] /\ pc'[w] = label
         /\ \A v \in Workers : v # w => pc'[v] = pc[v]
BY DEF TypeOK, Go, Types

LEMMA Ends ==
  ASSUME TypeOK, NEW w \in Workers, End(w)
  PROVE  /\ pc' \in [Workers -> Types] /\ pc'[w] = "idle"
         /\ call' \in [Workers -> Commands \union {NoCommand}]
         /\ got' \in [Workers -> JobLists]
         /\ \A v \in Workers : v # w => pc'[v] = pc[v] /\ call'[v] = call[v] /\ got'[v] = got[v]
BY NoJobsRange DEF TypeOK, End, Go, Types

LEMMA TypeInit == Init => TypeOK
<1> SUFFICES ASSUME Init PROVE TypeOK
  OBVIOUS
<1>1. file \in JobLists
  BY Bounds DEF Init, JobLists, Definitions
<1>2. jobs \in JobLists /\ scheduled \in JobLists /\ got \in [Workers -> JobLists]
  BY NoJobsRange DEF Init
<1>3. whole \in BOOLEAN /\ ticking \in BOOLEAN /\ calm \in BOOLEAN /\ killed \in BOOLEAN
  BY Zenon DEF Init
<1>4. /\ gateway \in {"down", "up", "stopping", "off"} /\ jobsMu \in Workers \union {Free}
      /\ pc \in [Workers -> Types] /\ call \in [Workers -> Commands \union {NoCommand}]
      /\ acked \in [Jobs -> SUBSET BOOLEAN] /\ newest \in [Jobs -> Texts]
      /\ edits \in Nat /\ commands \in Nat /\ faults \in Nat /\ starts \in Nat
  BY Bounds DEF Init, Types
<1> QED
  BY <1>1, <1>2, <1>3, <1>4 DEF TypeOK, Types

\* The history variables of a fault, or of none.
LEMMA FaultRange ==
  ASSUME TypeOK, Works \/ Fails
  PROVE  /\ calm' \in BOOLEAN /\ faults' \in Nat /\ faults <= faults'
         /\ calm' => calm /\ faults' = faults
<1>1. calm \in BOOLEAN /\ faults \in Nat
  BY DEF TypeOK
<1>2. CASE Works
  BY <1>1, <1>2 DEF Works
<1>3. CASE Fails
  <2>1. faults' = faults + 1 /\ calm' = FALSE
    BY <1>3 DEF Fails
  <2>2. faults' \in Nat /\ faults <= faults'
    BY <1>1, <2>1
  <2> QED
    BY <2>1, <2>2
<1> QED
  BY <1>2, <1>3
-----------------------------------------------------------------------------
(***************************************************************************)
(* The file and the mutex.                                                 *)
(***************************************************************************)
\* What worker w is doing is a step of its command, and it has the mutex if and only if
\* it is in SetEnabled.
WorkerOK(w) ==
  /\ pc[w] # "idle" => call[w] \in Commands
  /\ pc[w] = "lock" => call[w].op = "set"
  /\ pc[w] = "find" => call[w].op = "run"
  /\ pc[w] = "resched" => call[w].op \in {"set", "reload"}
  /\ InSet(w) => Setting(w) /\ jobsMu = w
  /\ jobsMu = w => InSet(w)

OthersKeep(w) ==
  \A v \in Workers : v # w => pc'[v] = pc[v] /\ call'[v] = call[v] /\ got'[v] = got[v]

LEMMA ServingBusy ==
  ASSUME FileOK, NEW w \in Workers, pc[w] # "idle"
  PROVE  Serving
BY DEF FileOK, ControlOK, Busy

\* The step of a worker that leaves the others alone and takes the mutex only when
\* it is free.
LEMMA WorkerKeeps ==
  ASSUME FileOK, NEW w \in Workers, Serving, OthersKeep(w), gateway' = gateway,
         jobsMu' = jobsMu \/ (jobsMu = Free /\ jobsMu' = w) \/ (jobsMu = w /\ jobsMu' = Free),
         WorkerOK(w)',
         TypeOK', faults <= faults', killed' = killed,
         \/ whole' = whole /\ pc[w] # "write"
         \/ whole'
         \/ jobsMu' = w /\ pc'[w] = "write"
         \/ faults' # 0
  PROVE  FileOK'
<1>1. Free \notin Workers
  BY FreeIsNoWorker
<1>2. ASSUME NEW v \in Workers
      PROVE  WorkerOK(v)'
  <2>1. CASE v = w
    BY <2>1
  <2>2. CASE v # w
    <3>1. pc'[v] = pc[v] /\ call'[v] = call[v] /\ (InSet(v)' <=> InSet(v))
          /\ (Setting(v)' <=> Setting(v))
      BY <2>2 DEF OthersKeep, InSet, Setting
    <3>2. jobsMu' = v <=> jobsMu = v
      BY <1>1, <2>2
    <3>3. WorkerOK(v)
      BY DEF FileOK, ControlOK, WorkerOK
    <3> QED
      BY <3>1, <3>2, <3>3 DEF WorkerOK
  <2> QED
    BY <2>1, <2>2
<1>3. Serving'
  BY DEF Serving
<1>4. ControlOK'
  BY <1>2, <1>3 DEF ControlOK, WorkerOK
<1>5. TornOnlyWhileWriting'
  <2> SUFFICES ASSUME faults' = 0, ~ killed', ~ whole'
               PROVE  \E v \in Workers : jobsMu' = v /\ pc'[v] = "write"
    BY DEF TornOnlyWhileWriting
  <2>1. CASE jobsMu' = w /\ pc'[w] = "write"
    BY <2>1
  <2>2. CASE whole' = whole /\ pc[w] # "write"
    <3>1. faults = 0
      BY DEF FileOK, TypeOK
    <3>2. ~ whole /\ ~ killed
      BY <2>2
    <3>3. PICK v \in Workers : jobsMu = v /\ pc[v] = "write"
      BY <3>1, <3>2 DEF FileOK, TornOnlyWhileWriting
    <3>4. v # w /\ jobsMu' = v
      BY <1>1, <2>2, <3>3
    <3> QED
      BY <3>3, <3>4 DEF OthersKeep
  <2> QED
    BY <2>1, <2>2
<1> QED
  BY <1>4, <1>5 DEF FileOK

LEMMA ReceiveKeeps ==
  ASSUME FileOK, NEW w \in Workers, Receive(w)
  PROVE  FileOK' /\ OthersKeep(w)
<1>1. TypeOK /\ ControlOK
  BY DEF FileOK
<1>2. /\ Serving /\ pc[w] = "idle" /\ commands' = commands + 1 /\ Go(w, "read")
      /\ \E r \in Commands : call' = [call EXCEPT ![w] = r]
      /\ UNCHANGED <<file, whole, gateway, jobs, scheduled, ticking, jobsMu, got, killed, acked,
                     newest, edits, faults, starts>>
  BY DEF Receive, process
<1>3. calm' \in BOOLEAN
  <2>1. calm' = (calm /\ Busy = {})
    BY DEF Receive
  <2> QED
    BY <2>1
<1>4. pc' \in [Workers -> Types] /\ pc'[w] = "read" /\ \A v \in Workers : v # w => pc'[v] = pc[v]
  BY <1>1, <1>2, Moves DEF Types
<1>5. call' \in [Workers -> Commands \union {NoCommand}] /\ call'[w] \in Commands
      /\ \A v \in Workers : v # w => call'[v] = call[v]
  BY <1>1, <1>2 DEF TypeOK
<1>6. commands' \in Nat
  BY <1>1, <1>2 DEF TypeOK
<1>7. TypeOK'
  BY <1>1, <1>2, <1>3, <1>4, <1>5, <1>6 DEF TypeOK, Types
<1>8. OthersKeep(w)
  BY <1>2, <1>4, <1>5 DEF OthersKeep
<1>9. WorkerOK(w)'
  <2>1. jobsMu # w
    BY <1>1, <1>2 DEF ControlOK, InSet
  <2> QED
    BY <1>2, <1>4, <1>5, <2>1 DEF WorkerOK, InSet
<1>10. faults <= faults'
  BY <1>1, <1>2 DEF TypeOK
<1>11. FileOK'
  BY <1>2, <1>7, <1>8, <1>9, <1>10, WorkerKeeps
<1> QED
  BY <1>8, <1>11

LEMMA ReadFileKeeps ==
  ASSUME FileOK, NEW w \in Workers, ReadFile(w)
  PROVE  FileOK' /\ OthersKeep(w)
<1>1. TypeOK /\ ControlOK /\ pc[w] = "read" /\ call[w] \in Commands /\ Serving
  BY ServingBusy DEF FileOK, ControlOK, ReadFile
<1>2. UNCHANGED <<file, whole, gateway, jobs, scheduled, ticking, jobsMu, killed, acked, newest,
                  edits, commands, starts>>
  BY DEF ReadFile, process
<1>3. calm' \in BOOLEAN /\ faults' \in Nat /\ faults <= faults'
  BY <1>1, FaultRange DEF ReadFile
<1>4. jobsMu # w
  BY <1>1 DEF ControlOK, InSet
<1>5. /\ pc' \in [Workers -> Types] /\ call' \in [Workers -> Commands \union {NoCommand}]
      /\ got' \in [Workers -> JobLists] /\ OthersKeep(w)
      /\ pc'[w] \in {"adopt", "idle"} \/ (pc'[w] = AfterRead(call[w].op))
      /\ pc'[w] # "idle" => call'[w] = call[w]
  <2>1. CASE /\ got' = [got EXCEPT ![w] = file] /\ Go(w, "adopt") /\ UNCHANGED call
    BY <1>1, <2>1, Moves DEF TypeOK, OthersKeep, Types
  <2>2. CASE End(w)
    BY <1>1, <2>2, Ends DEF OthersKeep
  <2>3. CASE Go(w, AfterRead(call[w].op)) /\ UNCHANGED <<call, got>>
    <3>1. AfterRead(call[w].op) \in Types
      BY <1>1, CommandOf DEF Types
    <3> QED
      BY <1>1, <2>3, <3>1, Moves DEF TypeOK, OthersKeep
  <2> QED
    BY <2>1, <2>2, <2>3 DEF ReadFile
<1>6. TypeOK'
  BY <1>1, <1>2, <1>3, <1>5 DEF TypeOK, Types
<1>7. WorkerOK(w)'
  BY <1>1, <1>2, <1>4, <1>5, CommandOf DEF WorkerOK, InSet
<1>8. FileOK'
  BY <1>1, <1>2, <1>3, <1>5, <1>6, <1>7, WorkerKeeps
<1> QED
  BY <1>5, <1>8

LEMMA AdoptKeeps ==
  ASSUME FileOK, NEW w \in Workers, Adopt(w)
  PROVE  FileOK' /\ OthersKeep(w)
<1>1. TypeOK /\ ControlOK /\ pc[w] = "adopt" /\ call[w] \in Commands /\ Serving
      /\ jobsMu = Free /\ Free # w
  BY ServingBusy, FreeIsNoWorker DEF FileOK, ControlOK, Adopt
<1>2. /\ jobs' = got[w] /\ Go(w, AfterRead(call[w].op))
      /\ UNCHANGED <<file, whole, gateway, scheduled, ticking, jobsMu, call, got, calm, killed,
                     acked, newest, edits, commands, faults, starts>>
  BY DEF Adopt, ghosts, counters
<1>3. AfterRead(call[w].op) \in Types \ {"idle", "open", "write"}
  BY <1>1, CommandOf DEF Types
<1>4. pc' \in [Workers -> Types] /\ pc'[w] = AfterRead(call[w].op) /\ OthersKeep(w)
  BY <1>1, <1>2, <1>3, Moves DEF OthersKeep
<1>5. TypeOK' /\ faults <= faults'
  BY <1>1, <1>2, <1>4 DEF TypeOK, Types
<1>6. WorkerOK(w)'
  BY <1>1, <1>2, <1>3, <1>4, CommandOf DEF WorkerOK, InSet
<1>7. FileOK'
  BY <1>1, <1>2, <1>4, <1>5, <1>6, WorkerKeeps
<1> QED
  BY <1>4, <1>7

\* Toggle changes the flag of its job, and nothing else.
LEMMA ToggleOf ==
  ASSUME TypeOK, NEW w \in Workers, call[w] \in Commands, call[w].op = "set",
         call[w].name \in Jobs, jobs' = [jobs EXCEPT ![call[w].name].enabled = call[w].to]
  PROVE  /\ jobs' \in JobLists
         /\ jobs'[call[w].name].enabled = call[w].to
         /\ \A j \in Jobs : jobs'[j].text = jobs[j].text
         /\ \A j \in Jobs : j # call[w].name => jobs'[j].enabled = jobs[j].enabled
<1>1. call[w].to \in BOOLEAN
  BY CommandOf
<1>2. jobs \in [Jobs -> Definitions]
  BY DEF TypeOK, JobLists
<1>3. ASSUME NEW j \in Jobs
      PROVE  /\ jobs'[j] \in Definitions /\ jobs'[j].text = jobs[j].text
             /\ jobs'[j].enabled = IF j = call[w].name THEN call[w].to ELSE jobs[j].enabled
  <2>1. jobs[j] \in [enabled : BOOLEAN, text : Texts]
    BY <1>2 DEF Definitions
  <2>2. CASE j = call[w].name
    <3>1. jobs'[j] = [jobs[j] EXCEPT !.enabled = call[w].to]
      BY <1>2, <2>2
    <3> QED
      BY <1>1, <2>1, <2>2, <3>1 DEF Definitions
  <2>3. CASE j # call[w].name
    <3>1. jobs'[j] = jobs[j]
      BY <1>2, <2>3
    <3> QED
      BY <2>1, <2>3, <3>1 DEF Definitions
  <2> QED
    BY <2>2, <2>3
<1>4. jobs' \in JobLists
  <2>1. jobs' = [j \in Jobs |-> jobs'[j]]
    BY <1>2
  <2> QED
    BY <1>3, <2>1 DEF JobLists
<1> QED
  BY <1>3, <1>4

LEMMA ToggleKeeps ==
  ASSUME FileOK, NEW w \in Workers, Toggle(w)
  PROVE  FileOK' /\ OthersKeep(w)
<1>1. TypeOK /\ ControlOK /\ pc[w] = "lock" /\ call[w] \in Commands /\ Serving
      /\ call[w].op = "set" /\ jobsMu = Free /\ Free # w
  BY ServingBusy, FreeIsNoWorker DEF FileOK, ControlOK, Toggle
<1>2. UNCHANGED <<file, whole, gateway, scheduled, ticking, calm, killed,
                  acked, newest, edits, commands, faults, starts>>
  BY DEF Toggle, ghosts, counters
<1>3. CASE call[w].name \in Jobs
  <2>1. /\ jobsMu' = w /\ jobs' = [jobs EXCEPT ![call[w].name].enabled = call[w].to]
        /\ Go(w, "open") /\ UNCHANGED <<call, got>>
    BY <1>3 DEF Toggle
  <2>2. jobs' \in JobLists
    BY <1>1, <1>3, <2>1, ToggleOf
  <2>3. pc' \in [Workers -> Types] /\ pc'[w] = "open" /\ OthersKeep(w)
    BY <1>1, <2>1, Moves DEF OthersKeep, Types
  <2>4. TypeOK' /\ faults <= faults'
    BY <1>1, <1>2, <2>1, <2>2, <2>3 DEF TypeOK, Types
  <2>5. WorkerOK(w)'
    BY <1>1, <1>3, <2>1, <2>3 DEF WorkerOK, InSet, Setting
  <2>6. FileOK'
    BY <1>1, <1>2, <2>1, <2>3, <2>4, <2>5, WorkerKeeps
  <2> QED
    BY <2>3, <2>6
<1>4. CASE call[w].name \notin Jobs
  <2>1. End(w) /\ UNCHANGED <<jobs, jobsMu>>
    BY <1>4 DEF Toggle
  <2>2. /\ pc' \in [Workers -> Types] /\ call' \in [Workers -> Commands \union {NoCommand}]
        /\ got' \in [Workers -> JobLists] /\ pc'[w] = "idle" /\ OthersKeep(w)
    BY <1>1, <2>1, Ends DEF OthersKeep
  <2>3. TypeOK' /\ faults <= faults'
    BY <1>1, <1>2, <2>1, <2>2 DEF TypeOK, Types
  <2>4. WorkerOK(w)'
    BY <1>1, <2>1, <2>2 DEF WorkerOK, InSet
  <2>5. FileOK'
    BY <1>1, <1>2, <2>1, <2>2, <2>3, <2>4, WorkerKeeps
  <2> QED
    BY <2>2, <2>5
<1> QED
  BY <1>3, <1>4

LEMMA SaveFailsKeeps ==
  ASSUME FileOK, NEW w \in Workers, pc[w] \in {"open", "write"}, SaveFails(w),
         UNCHANGED <<file, whole, gateway, jobs, scheduled, ticking, killed, acked, newest,
                     edits, commands, starts>>
  PROVE  FileOK' /\ OthersKeep(w) /\ ~ calm'
<1>1. TypeOK /\ ControlOK /\ Serving /\ jobsMu = w /\ Free # w
  BY ServingBusy, FreeIsNoWorker DEF FileOK, ControlOK, InSet
<1>2. Fails /\ jobsMu' = Free /\ End(w)
  BY DEF SaveFails
<1>3. faults' = faults + 1 /\ calm' = FALSE
  BY <1>2 DEF Fails
<1>4. faults' \in Nat /\ faults' # 0 /\ faults <= faults'
  BY <1>1, <1>3 DEF TypeOK
<1>5. calm' \in BOOLEAN
  BY <1>3, Zenon
<1>6. /\ pc' \in [Workers -> Types] /\ call' \in [Workers -> Commands \union {NoCommand}]
      /\ got' \in [Workers -> JobLists] /\ pc'[w] = "idle" /\ OthersKeep(w)
  BY <1>1, <1>2, Ends DEF OthersKeep
<1>7. TypeOK'
  BY <1>1, <1>2, <1>4, <1>5, <1>6 DEF TypeOK, Types
<1>8. WorkerOK(w)'
  BY <1>1, <1>2, <1>6 DEF WorkerOK, InSet
<1>9. FileOK'
  BY <1>1, <1>2, <1>4, <1>6, <1>7, <1>8, WorkerKeeps
<1> QED
  BY <1>3, <1>6, <1>9

LEMMA TruncateKeeps ==
  ASSUME FileOK, NEW w \in Workers, Truncate(w)
  PROVE  FileOK' /\ OthersKeep(w)
<1>1. TypeOK /\ ControlOK /\ pc[w] = "open" /\ call[w] \in Commands /\ Serving
      /\ jobsMu = w /\ Setting(w)
  BY ServingBusy DEF FileOK, ControlOK, Truncate, InSet
<1>2. UNCHANGED <<file, gateway, jobs, scheduled, ticking, killed, acked, newest, edits,
                  commands, starts>>
  BY DEF Truncate
<1>3. CASE whole' = FALSE /\ Works /\ Go(w, "write") /\ UNCHANGED <<jobsMu, call, got>>
  <2>1. pc' \in [Workers -> Types] /\ pc'[w] = "write" /\ OthersKeep(w)
    BY <1>1, <1>3, Moves DEF OthersKeep, Types
  <2>2. whole' \in BOOLEAN
    BY <1>3, Zenon
  <2>3. faults' = faults /\ calm' = calm
    BY <1>3 DEF Works
  <2>4. TypeOK' /\ faults <= faults'
    BY <1>1, <1>2, <1>3, <2>1, <2>2, <2>3 DEF TypeOK, Types
  <2>5. WorkerOK(w)'
    BY <1>1, <1>3, <2>1 DEF WorkerOK, InSet, Setting
  <2>6. FileOK'
    BY <1>1, <1>2, <1>3, <2>1, <2>4, <2>5, WorkerKeeps
  <2> QED
    BY <2>1, <2>6
<1>4. CASE SaveFails(w) /\ UNCHANGED whole
  BY <1>1, <1>2, <1>4, SaveFailsKeeps
<1> QED
  BY <1>3, <1>4 DEF Truncate

LEMMA WriteKeeps ==
  ASSUME FileOK, NEW w \in Workers, Write(w)
  PROVE  FileOK' /\ OthersKeep(w)
<1>1. TypeOK /\ ControlOK /\ pc[w] = "write" /\ call[w] \in Commands /\ Serving
      /\ jobsMu = w /\ Setting(w)
  BY ServingBusy DEF FileOK, ControlOK, Write, InSet
<1>2. UNCHANGED <<gateway, jobs, scheduled, ticking, killed, acked, newest, edits,
                  commands, starts>>
  BY DEF Write
<1>3. CASE /\ whole' = TRUE /\ file' = jobs /\ Works
           /\ Go(w, "resched") /\ UNCHANGED <<jobsMu, call, got>>
  <2>1. pc' \in [Workers -> Types] /\ pc'[w] = "resched" /\ OthersKeep(w)
    BY <1>1, <1>3, Moves DEF OthersKeep, Types
  <2>2. whole' \in BOOLEAN /\ whole'
    BY <1>3, Zenon
  <2>3. faults' = faults /\ calm' = calm
    BY <1>3 DEF Works
  <2>4. TypeOK' /\ faults <= faults'
    BY <1>1, <1>2, <1>3, <2>1, <2>2, <2>3 DEF TypeOK, Types
  <2>5. WorkerOK(w)'
    BY <1>1, <1>3, <2>1 DEF WorkerOK, InSet, Setting
  <2>6. FileOK'
    BY <1>1, <1>2, <1>3, <2>1, <2>2, <2>4, <2>5, WorkerKeeps
  <2> QED
    BY <2>1, <2>6
<1>4. CASE SaveFails(w) /\ UNCHANGED <<whole, file>>
  BY <1>1, <1>2, <1>4, SaveFailsKeeps
<1> QED
  BY <1>3, <1>4 DEF Write

LEMMA RescheduleKeeps ==
  ASSUME FileOK, NEW w \in Workers, Reschedule(w)
  PROVE  FileOK' /\ OthersKeep(w)
<1>1. TypeOK /\ ControlOK /\ pc[w] = "resched" /\ call[w] \in Commands /\ Serving
      /\ (jobsMu = w \/ jobsMu = Free) /\ jobsMu' = Free /\ Free # w
  BY ServingBusy, FreeIsNoWorker DEF FileOK, ControlOK, Reschedule
<1>2. /\ scheduled' = jobs /\ ticking' = TRUE /\ End(w)
      /\ acked' = IF call[w].op = "set" THEN [acked EXCEPT ![call[w].name] = {call[w].to}]
                  ELSE acked
      /\ UNCHANGED <<file, whole, gateway, jobs, calm, killed, newest, edits, commands, faults,
                     starts>>
  BY DEF Reschedule, counters
<1>3. /\ pc' \in [Workers -> Types] /\ call' \in [Workers -> Commands \union {NoCommand}]
      /\ got' \in [Workers -> JobLists] /\ pc'[w] = "idle" /\ OthersKeep(w)
  BY <1>1, <1>2, Ends DEF OthersKeep
<1>4. ticking' \in BOOLEAN
  BY <1>2, Zenon
<1>5. acked' \in [Jobs -> SUBSET BOOLEAN]
  <2>1. CASE call[w].op = "set"
    <3>1. {call[w].to} \in SUBSET BOOLEAN
      BY <1>1, <2>1, CommandOf
    <3> QED
      BY <1>1, <1>2, <2>1, <3>1 DEF TypeOK
  <2>2. CASE call[w].op # "set"
    BY <1>1, <1>2, <2>2 DEF TypeOK
  <2> QED
    BY <2>1, <2>2
<1>6. TypeOK' /\ faults <= faults'
  BY <1>1, <1>2, <1>3, <1>4, <1>5 DEF TypeOK, Types
<1>7. WorkerOK(w)'
  BY <1>1, <1>3 DEF WorkerOK, InSet
<1>8. FileOK'
  BY <1>1, <1>2, <1>3, <1>6, <1>7, WorkerKeeps
<1> QED
  BY <1>3, <1>8

LEMMA FindKeeps ==
  ASSUME FileOK, NEW w \in Workers, Find(w)
  PROVE  FileOK' /\ OthersKeep(w)
<1>1. TypeOK /\ ControlOK /\ pc[w] = "find" /\ Serving
  BY ServingBusy DEF FileOK, ControlOK, Find
<1>2. /\ End(w)
      /\ UNCHANGED <<file, whole, gateway, jobs, scheduled, ticking, jobsMu, calm, killed, acked,
                     newest, edits, commands, faults, starts>>
  BY DEF Find, process, ghosts, counters
<1>3. /\ pc' \in [Workers -> Types] /\ call' \in [Workers -> Commands \union {NoCommand}]
      /\ got' \in [Workers -> JobLists] /\ pc'[w] = "idle" /\ OthersKeep(w)
  BY <1>1, <1>2, Ends DEF OthersKeep
<1>4. TypeOK' /\ faults <= faults'
  BY <1>1, <1>2, <1>3 DEF TypeOK, Types
<1>5. WorkerOK(w)'
  <2>1. jobsMu # w
    BY <1>1 DEF ControlOK, InSet
  <2> QED
    BY <1>2, <1>3, <2>1 DEF WorkerOK, InSet
<1>6. FileOK'
  BY <1>1, <1>2, <1>3, <1>4, <1>5, WorkerKeeps
<1> QED
  BY <1>3, <1>6

LEMMA StartKeeps ==
  ASSUME FileOK, Start
  PROVE  FileOK'
<1>1. TypeOK /\ ControlOK /\ gateway = "down"
  BY DEF FileOK, Start
<1>2. /\ starts' = starts + 1 /\ (Works \/ Fails)
      /\ UNCHANGED <<file, whole, jobsMu, pc, call, got, killed, acked, newest, edits, commands>>
  BY DEF Start, control
<1>3. calm' \in BOOLEAN /\ faults' \in Nat /\ faults <= faults'
  BY <1>1, <1>2, FaultRange
<1>4. /\ gateway' \in {"up", "off"} /\ jobs' \in JobLists /\ scheduled' \in JobLists
  BY <1>1 DEF Start, TypeOK
<1>5. ticking' \in BOOLEAN
  <2>1. ticking' = TRUE \/ ticking' = ticking
    BY DEF Start
  <2> QED
    BY <1>1, <2>1 DEF TypeOK
<1>6. TypeOK'
  <2>1. starts' \in Nat
    BY <1>1, <1>2 DEF TypeOK
  <2>2. whole' \in BOOLEAN /\ killed' \in BOOLEAN
    BY <1>1, <1>2 DEF TypeOK
  <2>3. /\ file' \in JobLists /\ jobsMu' \in Workers \union {Free} /\ pc' \in [Workers -> Types]
        /\ call' \in [Workers -> Commands \union {NoCommand}] /\ got' \in [Workers -> JobLists]
        /\ acked' \in [Jobs -> SUBSET BOOLEAN] /\ newest' \in [Jobs -> Texts]
        /\ edits' \in Nat /\ commands' \in Nat
    BY <1>1, <1>2 DEF TypeOK, Types
  <2> QED
    BY <1>3, <1>4, <1>5, <2>1, <2>2, <2>3 DEF TypeOK, Types
<1>7. ControlOK'
  <2>1. \A w \in Workers : WorkerOK(w)'
    BY <1>1, <1>2 DEF ControlOK, WorkerOK, InSet, Setting
  <2>2. Busy' = {}
    BY <1>1, <1>2 DEF ControlOK, Serving, Busy
  <2> QED
    BY <2>1, <2>2 DEF ControlOK, WorkerOK
<1>8. TornOnlyWhileWriting'
  BY <1>1, <1>2, <1>3 DEF FileOK, TornOnlyWhileWriting, TypeOK
<1> QED
  BY <1>6, <1>7, <1>8 DEF FileOK

LEMMA StopKeeps ==
  ASSUME FileOK, Stop
  PROVE  FileOK'
<1>1. TypeOK /\ ControlOK
  BY DEF FileOK
<1>2. /\ gateway = "up" /\ gateway' = "stopping" /\ ticking' = FALSE
      /\ UNCHANGED <<file, whole, jobs, scheduled, jobsMu, pc, call, got, calm, killed, acked,
                     newest, edits, commands, faults, starts>>
  BY DEF Stop, control, ghosts, counters
<1>3. ticking' \in BOOLEAN
  BY <1>2, Zenon
<1>4. TypeOK'
  BY <1>1, <1>2, <1>3 DEF TypeOK
<1>5. ControlOK'
  <2>1. \A w \in Workers : WorkerOK(w)'
    BY <1>1, <1>2 DEF ControlOK, WorkerOK, InSet, Setting
  <2>2. Serving'
    BY <1>2 DEF Serving
  <2> QED
    BY <2>1, <2>2 DEF ControlOK, WorkerOK
<1>6. TornOnlyWhileWriting'
  BY <1>2 DEF FileOK, TornOnlyWhileWriting
<1> QED
  BY <1>4, <1>5, <1>6 DEF FileOK

LEMMA ExitKeeps ==
  ASSUME FileOK, Exit
  PROVE  FileOK'
<1>1. TypeOK /\ ControlOK
  BY DEF FileOK
<1>2. /\ gateway' = "down" /\ jobs' = NoJobs /\ scheduled' = NoJobs /\ jobsMu' = Free
      /\ pc' = [w \in Workers |-> "idle"] /\ call' = [w \in Workers |-> NoCommand]
      /\ got' = [w \in Workers |-> NoJobs]
      /\ UNCHANGED <<file, whole, acked, newest, edits, commands, faults, starts>>
  BY DEF Exit, counters
<1>3. ticking' = FALSE /\ calm' = (calm /\ Busy = {}) /\ killed' = (killed \/ Busy # {})
  BY DEF Exit
<1>4. ticking' \in BOOLEAN /\ calm' \in BOOLEAN /\ killed' \in BOOLEAN
  BY <1>3, Zenon
<1>5. /\ pc' \in [Workers -> Types] /\ call' \in [Workers -> Commands \union {NoCommand}]
      /\ got' \in [Workers -> JobLists] /\ jobs' \in JobLists /\ scheduled' \in JobLists
      /\ jobsMu' \in Workers \union {Free} /\ gateway' \in {"down", "up", "stopping", "off"}
  BY <1>2, NoJobsRange DEF Types
<1>6. TypeOK'
  BY <1>1, <1>2, <1>4, <1>5 DEF TypeOK, Types
<1>7. ControlOK'
  BY <1>2, FreeIsNoWorker DEF ControlOK, InSet, Busy
<1>8. TornOnlyWhileWriting'
  <2> SUFFICES ASSUME faults' = 0, ~ killed', ~ whole'
               PROVE  FALSE
    BY DEF TornOnlyWhileWriting
  <2>1. faults = 0 /\ ~ whole
    BY <1>2
  <2>2. ~ killed /\ Busy = {}
    BY <1>3
  <2>3. PICK v \in Workers : pc[v] = "write"
    BY <2>1, <2>2 DEF FileOK, TornOnlyWhileWriting
  <2> QED
    BY <2>2, <2>3 DEF Busy
<1> QED
  BY <1>6, <1>7, <1>8 DEF FileOK

\* What an edit makes of the file.
LEMMA EditOf ==
  ASSUME TypeOK, NEW j \in Jobs, Edit(j)
  PROVE  /\ whole /\ whole' = whole
         /\ file' \in JobLists /\ edits' \in Texts /\ file'[j].text = edits'
         /\ \A i \in Jobs : i # j => file'[i] = file[i]
         /\ newest' = [newest EXCEPT ![j] = edits'] /\ acked' = [acked EXCEPT ![j] = {}]
         /\ UNCHANGED <<gateway, jobs, scheduled, ticking, jobsMu, pc, call, got, killed, commands,
                        faults, starts>>
<1>1. /\ whole /\ whole' = whole /\ edits' = edits + 1 /\ edits < MaxEdits
      /\ newest' = [newest EXCEPT ![j] = edits'] /\ acked' = [acked EXCEPT ![j] = {}]
      /\ UNCHANGED <<gateway, jobs, scheduled, ticking, jobsMu, pc, call, got, killed, commands,
                        faults, starts>>
  BY DEF Edit, process, control
<1>2. PICK on \in BOOLEAN : file' = [file EXCEPT ![j] = [enabled |-> on, text |-> edits']]
  BY DEF Edit
<1>3. edits' \in Texts
  BY <1>1, Bounds DEF TypeOK, Texts
<1>4. file \in [Jobs -> Definitions] /\ [enabled |-> on, text |-> edits'] \in Definitions
  BY <1>3 DEF TypeOK, JobLists, Definitions
<1>5. file' \in JobLists /\ file'[j] = [enabled |-> on, text |-> edits']
      /\ \A i \in Jobs : i # j => file'[i] = file[i]
  BY <1>2, <1>4 DEF JobLists
<1> QED
  BY <1>1, <1>3, <1>5

LEMMA EditKeeps ==
  ASSUME FileOK, NEW j \in Jobs, Edit(j)
  PROVE  FileOK'
<1>1. TypeOK /\ ControlOK
  BY DEF FileOK
<1>2. calm' \in BOOLEAN
  <2>1. calm' = (calm /\ Busy = {})
    BY DEF Edit
  <2> QED
    BY <2>1
<1>3. newest' \in [Jobs -> Texts] /\ acked' \in [Jobs -> SUBSET BOOLEAN] /\ edits' \in Nat
  BY <1>1, EditOf, Bounds DEF TypeOK
<1>4. TypeOK'
  BY <1>1, <1>2, <1>3, EditOf DEF TypeOK
<1>5. ControlOK'
  BY <1>1, EditOf DEF ControlOK, InSet, Setting, Serving, Busy
<1>6. TornOnlyWhileWriting'
  BY <1>1, EditOf DEF TornOnlyWhileWriting
<1> QED
  BY <1>4, <1>5, <1>6 DEF FileOK

LEMMA FileInit == Init => FileOK
<1> SUFFICES ASSUME Init PROVE FileOK
  OBVIOUS
<1>1. ControlOK
  BY FreeIsNoWorker DEF Init, ControlOK, InSet, Busy
<1>2. TornOnlyWhileWriting
  BY DEF Init, TornOnlyWhileWriting
<1> QED
  BY <1>1, <1>2, TypeInit DEF FileOK

LEMMA FileStep ==
  ASSUME FileOK, [Next]_vars
  PROVE  FileOK'
<1>1. CASE UNCHANGED vars
  BY <1>1 DEF vars, process, control, ghosts, counters, FileOK, TypeOK, ControlOK, InSet,
              Setting, Serving, Busy, TornOnlyWhileWriting
<1> QED
  BY <1>1, ReceiveKeeps, ReadFileKeeps, AdoptKeeps, ToggleKeeps, TruncateKeeps, WriteKeeps,
     RescheduleKeeps, FindKeeps, EditKeeps, StartKeeps, StopKeeps, ExitKeeps DEF Next, Step

\* Whatever commands, edits, failures, starts and deaths interleave, the state keeps its
\* shape: the list in memory, the scheduler's and the file's are lists of the same jobs.
THEOREM TypeCorrect == Spec => []TypeOK
<1>1. FileOK => TypeOK
  BY DEF FileOK
<1> QED
  BY <1>1, FileInit, FileStep, PTL DEF Spec

\* For every number of jobs and workers: unless a write fails or the process dies,
\* jobs.json is unreadable only while the worker that writes it holds jobsMu.
THEOREM TornCorrect == Spec => []TornOnlyWhileWriting
<1>1. FileOK => TornOnlyWhileWriting
  BY DEF FileOK
<1> QED
  BY <1>1, FileInit, FileStep, PTL DEF Spec
-----------------------------------------------------------------------------
(***************************************************************************)
(* Commands one after another.                                             *)
(***************************************************************************)
LEMMA CalmFacts ==
  ASSUME IInv, calm, NEW w \in Workers, pc[w] # "idle"
  PROVE  /\ \A v \in Workers : v # w => pc[v] = "idle"
         /\ pc[w] # "write" => whole
         /\ ReadOf(w)
         /\ \A j \in Jobs : AckOf(j) /\ file[j].text = newest[j]
<1>1. /\ faults = 0 /\ ~ killed
      /\ \A v, u \in Workers : pc[v] # "idle" /\ pc[u] # "idle" => v = u
  BY DEF IInv, TurnOK, OneByOne
<1>2. ~ whole => \E v \in Workers : pc[v] = "write"
  BY <1>1 DEF IInv, FileOK, TornOnlyWhileWriting
<1>3. pc[w] # "write" => whole
  BY <1>1, <1>2
<1> QED
  BY <1>1, <1>3 DEF IInv, TurnOK, ReadOK, AckOK, EditsKept

\* With no worker at its acknowledgement, the file has what was acknowledged.
LEMMA AckedInFile ==
  ASSUME IInv, calm, NEW w \in Workers, pc[w] # "idle",
         ~ (pc[w] = "resched" /\ call[w].op = "set"), NEW j \in Jobs
  PROVE  acked[j] \subseteq {file[j].enabled}
BY CalmFacts DEF AckOf

LEMMA WorkerTurn ==
  ASSUME IInv, NEW w \in Workers, pc[w] # "idle", OthersKeep(w), killed' = killed,
         calm' => calm /\ faults' = faults,
         calm' => ReadOf(w)' /\ \A j \in Jobs : AckOf(j)' /\ file'[j].text = newest'[j]
  PROVE  TurnOK'
<1>1. CASE ~ calm'
  BY <1>1 DEF TurnOK, OneByOne, ReadOK, AckOK, EditsKept
<1>2. CASE calm'
  <2>1. calm /\ faults' = faults
    BY <1>2
  <2>2. \A v \in Workers : v # w => pc'[v] = "idle"
    BY <2>1, CalmFacts DEF OthersKeep
  <2>3. faults' = 0
    BY <2>1 DEF IInv, TurnOK, OneByOne
  <2>4. ~ killed'
    BY <2>1 DEF IInv, TurnOK, OneByOne
  <2>5. \A v, u \in Workers : pc'[v] # "idle" /\ pc'[u] # "idle" => v = u
    BY <2>2
  <2>6. \A v \in Workers : ReadOf(v)'
    <3>1. ReadOf(w)'
      BY <1>2
    <3>2. \A v \in Workers : v # w => ReadOf(v)'
      BY <2>2 DEF ReadOf, InSet
    <3> QED
      BY <3>1, <3>2
  <2> QED
    BY <1>2, <2>3, <2>4, <2>5, <2>6 DEF TurnOK, OneByOne, ReadOK, AckOK, EditsKept
<1> QED
  BY <1>1, <1>2

LEMMA ReadFileTurn ==
  ASSUME IInv, NEW w \in Workers, ReadFile(w)
  PROVE  TurnOK'
<1>1. FileOK /\ TypeOK /\ OthersKeep(w)
  BY ReadFileKeeps DEF IInv, FileOK
<1>2. /\ pc[w] = "read"
      /\ UNCHANGED <<file, whole, gateway, jobs, scheduled, killed, acked, newest>>
  BY DEF ReadFile, process
<1>3. calm' => calm /\ faults' = faults
  BY <1>1, FaultRange DEF ReadFile
<1>4. ASSUME calm'
      PROVE  ReadOf(w)' /\ \A j \in Jobs : AckOf(j)' /\ file'[j].text = newest'[j]
  <2>1. calm /\ whole
    BY <1>2, <1>3, <1>4, CalmFacts
  <2>2. ~ Fails
    BY <1>4 DEF Fails
  <2>3. got' = [got EXCEPT ![w] = file] /\ Go(w, "adopt")
    BY <2>1, <2>2 DEF ReadFile
  <2>4. got'[w] = file /\ pc'[w] = "adopt"
    BY <1>1, <2>3 DEF TypeOK, Go
  <2>5. ReadOf(w)'
    BY <1>2, <2>4 DEF ReadOf, InSet
  <2>6. \A j \in Jobs : AckOf(j)' /\ file'[j].text = newest'[j]
    BY <1>2, <2>1, AckedInFile, CalmFacts DEF AckOf
  <2> QED
    BY <2>5, <2>6
<1> QED
  BY <1>1, <1>2, <1>3, <1>4, WorkerTurn

LEMMA AdoptTurn ==
  ASSUME IInv, NEW w \in Workers, Adopt(w)
  PROVE  TurnOK'
<1>1. FileOK /\ TypeOK /\ ControlOK /\ OthersKeep(w)
  BY AdoptKeeps DEF IInv, FileOK
<1>2. /\ pc[w] = "adopt" /\ jobs' = got[w] /\ Go(w, AfterRead(call[w].op)) /\ call[w] \in Commands
      /\ UNCHANGED <<file, whole, gateway, scheduled, call, calm, killed, acked, newest, faults>>
  BY <1>1 DEF Adopt, ghosts, counters, ControlOK
<1>3. pc'[w] = AfterRead(call[w].op)
  BY <1>1, <1>2 DEF TypeOK, Go
<1>4. ASSUME calm'
      PROVE  ReadOf(w)' /\ \A j \in Jobs : AckOf(j)' /\ file'[j].text = newest'[j]
  <2>1. calm /\ got[w] = file
    BY <1>2, <1>4, CalmFacts DEF ReadOf
  <2>2. ReadOf(w)'
    BY <1>2, <1>3, <2>1, CommandOf DEF ReadOf, InSet
  <2>3. \A j \in Jobs : AckOf(j)' /\ file'[j].text = newest'[j]
    BY <1>2, <2>1, AckedInFile, CalmFacts DEF AckOf
  <2> QED
    BY <2>2, <2>3
<1> QED
  BY <1>1, <1>2, <1>4, WorkerTurn

LEMMA ToggleTurn ==
  ASSUME IInv, NEW w \in Workers, Toggle(w)
  PROVE  TurnOK'
<1>1. FileOK /\ TypeOK /\ ControlOK /\ OthersKeep(w)
  BY ToggleKeeps DEF IInv, FileOK
<1>2. /\ pc[w] = "lock" /\ call[w] \in Commands /\ call[w].op = "set"
      /\ UNCHANGED <<file, whole, gateway, scheduled, calm, killed, acked, newest, faults>>
  BY <1>1 DEF Toggle, ghosts, counters, ControlOK
<1>3. ASSUME calm'
      PROVE  ReadOf(w)' /\ \A j \in Jobs : AckOf(j)' /\ file'[j].text = newest'[j]
  <2>1. calm /\ jobs = file
    BY <1>2, <1>3, CalmFacts DEF ReadOf
  <2>2. \A j \in Jobs : AckOf(j)' /\ file'[j].text = newest'[j]
    BY <1>2, <2>1, AckedInFile, CalmFacts DEF AckOf
  <2>3. CASE call[w].name \in Jobs
    <3>1. /\ jobs' = [jobs EXCEPT ![call[w].name].enabled = call[w].to]
          /\ Go(w, "open") /\ call' = call
      BY <2>3 DEF Toggle
    <3>2. pc'[w] = "open"
      BY <1>1, <3>1 DEF TypeOK, Go
    <3> QED
      BY <1>1, <1>2, <2>1, <2>2, <2>3, <3>1, <3>2, ToggleOf DEF ReadOf, InSet, SameText, SameFlag
  <2>4. CASE call[w].name \notin Jobs
    <3>1. pc'[w] = "idle"
      BY <1>1, <2>4, Ends DEF Toggle
    <3> QED
      BY <2>2, <3>1 DEF ReadOf, InSet
  <2> QED
    BY <2>3, <2>4
<1> QED
  BY <1>1, <1>2, <1>3, WorkerTurn

LEMMA TruncateTurn ==
  ASSUME IInv, NEW w \in Workers, Truncate(w)
  PROVE  TurnOK'
<1>1. FileOK /\ TypeOK /\ OthersKeep(w)
  BY TruncateKeeps DEF IInv, FileOK
<1>2. /\ pc[w] = "open"
      /\ UNCHANGED <<file, gateway, jobs, scheduled, killed, acked, newest>>
  BY DEF Truncate
<1>3. calm' => /\ calm /\ faults' = faults
               /\ Go(w, "write") /\ call' = call
  BY DEF Truncate, SaveFails, Works, Fails
<1>4. ASSUME calm'
      PROVE  ReadOf(w)' /\ \A j \in Jobs : AckOf(j)' /\ file'[j].text = newest'[j]
  <2>1. calm /\ ReadOf(w)
    BY <1>2, <1>3, <1>4, CalmFacts
  <2>2. pc'[w] = "write"
    BY <1>1, <1>3, <1>4 DEF TypeOK, Go
  <2>3. ReadOf(w)'
    BY <1>2, <1>3, <1>4, <2>1, <2>2 DEF ReadOf, InSet, SameText, SameFlag
  <2>4. \A j \in Jobs : AckOf(j)' /\ file'[j].text = newest'[j]
    BY <1>2, <2>1, AckedInFile, CalmFacts DEF AckOf
  <2> QED
    BY <2>3, <2>4
<1> QED
  BY <1>1, <1>2, <1>3, <1>4, WorkerTurn

LEMMA WriteTurn ==
  ASSUME IInv, NEW w \in Workers, Write(w)
  PROVE  TurnOK'
<1>1. FileOK /\ TypeOK /\ ControlOK /\ OthersKeep(w)
  BY WriteKeeps DEF IInv, FileOK
<1>2. /\ pc[w] = "write" /\ call[w].op = "set"
      /\ UNCHANGED <<gateway, jobs, scheduled, killed, acked, newest>>
  BY <1>1 DEF Write, ControlOK, InSet, Setting
<1>3. calm' => /\ calm /\ faults' = faults /\ file' = jobs
               /\ Go(w, "resched") /\ call' = call
  BY DEF Write, SaveFails, Works, Fails
<1>4. ASSUME calm'
      PROVE  ReadOf(w)' /\ \A j \in Jobs : AckOf(j)' /\ file'[j].text = newest'[j]
  <2>1. calm /\ ReadOf(w) /\ file' = jobs /\ call' = call
    BY <1>2, <1>3, <1>4, CalmFacts
  <2>2. pc'[w] = "resched"
    BY <1>1, <1>3, <1>4 DEF TypeOK, Go
  <2>3. ReadOf(w)'
    BY <1>2, <2>1, <2>2 DEF ReadOf, InSet
  <2>4. ASSUME NEW j \in Jobs
        PROVE  AckOf(j)' /\ file'[j].text = newest'[j]
    <3>1. acked[j] \subseteq {file[j].enabled} /\ AckOf(j) /\ file[j].text = newest[j]
      BY <1>2, <2>1, AckedInFile, CalmFacts
    <3>2. jobs[j].text = file[j].text
      BY <1>2, <2>1 DEF ReadOf, SameText
    <3>3. CASE j = call[w].name
      BY <1>2, <2>1, <2>2, <3>1, <3>2, <3>3 DEF AckOf
    <3>4. CASE j # call[w].name
      <4>1. file'[j].enabled = file[j].enabled
        BY <1>2, <2>1, <3>4 DEF ReadOf, SameFlag
      <4> QED
        BY <1>2, <2>1, <3>1, <3>2, <4>1 DEF AckOf
    <3> QED
      BY <3>3, <3>4
  <2> QED
    BY <2>3, <2>4
<1> QED
  BY <1>1, <1>2, <1>3, <1>4, WorkerTurn

LEMMA RescheduleTurn ==
  ASSUME IInv, NEW w \in Workers, Reschedule(w)
  PROVE  TurnOK'
<1>1. FileOK /\ TypeOK /\ ControlOK /\ OthersKeep(w)
  BY RescheduleKeeps DEF IInv, FileOK
<1>2. /\ pc[w] = "resched" /\ scheduled' = jobs /\ End(w)
      /\ acked' = IF call[w].op = "set" THEN [acked EXCEPT ![call[w].name] = {call[w].to}]
                  ELSE acked
      /\ UNCHANGED <<file, gateway, calm, killed, newest, faults>>
  BY DEF Reschedule, counters
<1>3. pc'[w] = "idle"
  BY <1>1, <1>2, Ends
<1>4. ASSUME calm'
      PROVE  ReadOf(w)' /\ \A j \in Jobs : AckOf(j)' /\ file'[j].text = newest'[j]
  <2>1. calm /\ ReadOf(w) /\ jobs = file
    BY <1>2, <1>4, CalmFacts DEF ReadOf
  <2>2. ReadOf(w)'
    BY <1>3 DEF ReadOf, InSet
  <2>3. ASSUME NEW j \in Jobs
        PROVE  AckOf(j)' /\ file'[j].text = newest'[j]
    <3>1. AckOf(j) /\ file[j].text = newest[j]
      BY <1>2, <2>1, CalmFacts
    <3>2. acked'[j] \subseteq {file[j].enabled}
      <4>1. CASE call[w].op = "set" /\ call[w].name = j
        <5>1. acked'[j] = {call[w].to}
          BY <1>1, <1>2, <4>1 DEF TypeOK
        <5>2. file[j].enabled = call[w].to
          BY <1>2, <2>1, <4>1 DEF ReadOf, InSet
        <5> QED
          BY <5>1, <5>2
      <4>2. CASE ~ (call[w].op = "set" /\ call[w].name = j)
        <5>1. acked'[j] = acked[j]
          BY <1>1, <1>2, <4>2 DEF TypeOK
        <5>2. \A v \in Workers : ~ (pc[v] = "resched" /\ call[v].op = "set" /\ call[v].name = j)
          BY <1>2, <2>1, <4>2, CalmFacts
        <5> QED
          BY <3>1, <5>1, <5>2 DEF AckOf
      <4> QED
        BY <4>1, <4>2
    <3> QED
      BY <1>2, <2>1, <3>1, <3>2 DEF AckOf
  <2> QED
    BY <2>2, <2>3
<1> QED
  BY <1>1, <1>2, <1>4, WorkerTurn

LEMMA FindTurn ==
  ASSUME IInv, NEW w \in Workers, Find(w)
  PROVE  TurnOK'
<1>1. FileOK /\ TypeOK /\ OthersKeep(w)
  BY FindKeeps DEF IInv, FileOK
<1>2. /\ pc[w] = "find" /\ End(w)
      /\ UNCHANGED <<file, gateway, scheduled, calm, killed, acked, newest, faults>>
  BY DEF Find, process, ghosts, counters
<1>3. pc'[w] = "idle"
  BY <1>1, <1>2, Ends
<1>4. ASSUME calm'
      PROVE  ReadOf(w)' /\ \A j \in Jobs : AckOf(j)' /\ file'[j].text = newest'[j]
  <2>1. ReadOf(w)'
    BY <1>3 DEF ReadOf, InSet
  <2>2. \A j \in Jobs : AckOf(j)' /\ file'[j].text = newest'[j]
    BY <1>2, <1>4, AckedInFile, CalmFacts DEF AckOf
  <2> QED
    BY <2>1, <2>2
<1> QED
  BY <1>1, <1>2, <1>4, WorkerTurn

\* Between commands.
LEMMA IdleFacts ==
  ASSUME IInv, calm, Busy = {}
  PROVE  /\ faults = 0 /\ ~ killed
         /\ \A v \in Workers : pc[v] = "idle"
         /\ \A j \in Jobs : /\ acked[j] \subseteq {file[j].enabled}
                            /\ gateway = "up" => acked[j] \subseteq {scheduled[j].enabled}
                            /\ file[j].text = newest[j]
<1>1. \A v \in Workers : pc[v] = "idle"
  BY DEF Busy
<1>2. faults = 0
  BY DEF IInv, TurnOK, OneByOne
<1>3. ~ killed
  BY DEF IInv, TurnOK, OneByOne
<1>4. ASSUME NEW j \in Jobs
      PROVE  AckOf(j) /\ file[j].text = newest[j]
  BY DEF IInv, TurnOK, AckOK, EditsKept
<1> QED
  BY <1>1, <1>2, <1>3, <1>4 DEF AckOf

\* A step that begins between commands, after which nobody is past the beginning of one.
LEMMA IdleTurn ==
  ASSUME IInv, calm' => faults' = 0, calm' => ~ killed',
         calm' => \A v \in Workers : pc'[v] \in {"idle", "read"},
         calm' => \A v, w \in Workers : pc'[v] # "idle" /\ pc'[w] # "idle" => v = w,
         calm' => \A j \in Jobs : /\ acked'[j] \subseteq {file'[j].enabled}
                                  /\ gateway' = "up" => acked'[j] \subseteq {scheduled'[j].enabled}
                                  /\ file'[j].text = newest'[j]
  PROVE  TurnOK'
<1>1. OneByOne'
  BY DEF OneByOne
<1>2. ReadOK'
  BY DEF ReadOK, ReadOf, InSet
<1>3. AckOK' /\ EditsKept'
  BY DEF AckOK, AckOf, EditsKept
<1> QED
  BY <1>1, <1>2, <1>3 DEF TurnOK

LEMMA ReceiveTurn ==
  ASSUME IInv, NEW w \in Workers, Receive(w)
  PROVE  TurnOK'
<1>1. FileOK /\ TypeOK /\ OthersKeep(w)
  BY ReceiveKeeps DEF IInv, FileOK
<1>2. /\ Go(w, "read") /\ calm' = (calm /\ Busy = {})
      /\ UNCHANGED <<file, gateway, scheduled, killed, acked, newest, faults>>
  BY DEF Receive, process
<1>3. pc'[w] = "read"
  BY <1>1, <1>2 DEF TypeOK, Go
<1>4. calm' => calm /\ Busy = {}
  BY <1>2
<1>5. calm' => \A v \in Workers : v # w => pc'[v] = "idle"
  BY <1>1, <1>4, IdleFacts DEF OthersKeep
<1> QED
  BY <1>2, <1>3, <1>4, <1>5, IdleFacts, IdleTurn

LEMMA StartTurn ==
  ASSUME IInv, Start
  PROVE  TurnOK'
<1>1. FileOK /\ TypeOK /\ gateway = "down" /\ Busy = {}
  BY DEF IInv, FileOK, Start, ControlOK, Serving
<1>2. UNCHANGED <<file, pc, killed, acked, newest>>
  BY DEF Start, control
<1>3. calm' => calm /\ faults' = faults
  BY DEF Start, Works, Fails
<1>4. scheduled' = file \/ gateway' = "off"
  BY DEF Start
<1> QED
  BY <1>1, <1>2, <1>3, <1>4, IdleFacts, IdleTurn

LEMMA StopTurn ==
  ASSUME IInv, Stop
  PROVE  TurnOK'
<1>1. /\ gateway' = "stopping"
      /\ UNCHANGED <<file, jobs, scheduled, pc, call, got, calm, killed, acked, newest, faults>>
  BY DEF Stop, control, ghosts, counters
<1> QED
  BY <1>1 DEF IInv, TurnOK, OneByOne, ReadOK, ReadOf, InSet, SameText, SameFlag, AckOK, AckOf,
              EditsKept

LEMMA ExitTurn ==
  ASSUME IInv, Exit
  PROVE  TurnOK'
<1>1. /\ gateway' = "down" /\ pc' = [w \in Workers |-> "idle"]
      /\ calm' = (calm /\ Busy = {}) /\ killed' = (killed \/ Busy # {})
      /\ UNCHANGED <<file, acked, newest, faults>>
  BY DEF Exit, counters
<1>2. calm' => calm /\ Busy = {}
  BY <1>1
<1>3. calm' => ~ killed'
  BY <1>1, <1>2, IdleFacts
<1> QED
  BY <1>1, <1>2, <1>3, IdleFacts, IdleTurn

LEMMA EditTurn ==
  ASSUME IInv, NEW j \in Jobs, Edit(j)
  PROVE  TurnOK'
<1>1. TypeOK
  BY DEF IInv, FileOK
<1>2. calm' => calm /\ Busy = {}
  BY DEF Edit
<1>3. ASSUME calm', NEW i \in Jobs
      PROVE  /\ acked'[i] \subseteq {file'[i].enabled}
             /\ gateway' = "up" => acked'[i] \subseteq {scheduled'[i].enabled}
             /\ file'[i].text = newest'[i]
  <2>1. CASE i = j
    <3>1. acked'[i] = {} /\ newest'[i] = edits'
      BY <1>1, <2>1, EditOf DEF TypeOK
    <3> QED
      BY <1>1, <2>1, <3>1, EditOf
  <2>2. CASE i # j
    <3>1. acked'[i] = acked[i] /\ newest'[i] = newest[i] /\ file'[i] = file[i]
          /\ scheduled' = scheduled /\ gateway' = gateway
      BY <1>1, <2>2, EditOf DEF TypeOK
    <3> QED
      BY <1>2, <1>3, <3>1, IdleFacts
  <2> QED
    BY <2>1, <2>2
<1>4. faults' = faults /\ killed' = killed /\ pc' = pc
  BY <1>1, EditOf
<1> QED
  BY <1>2, <1>3, <1>4, IdleFacts, IdleTurn

LEMMA TurnInit == Init => TurnOK
<1> SUFFICES ASSUME Init PROVE TurnOK
  OBVIOUS
<1>1. OneByOne
  BY DEF Init, OneByOne
<1>2. ReadOK
  BY DEF Init, ReadOK, ReadOf, InSet
<1>3. AckOK /\ EditsKept
  BY DEF Init, AckOK, AckOf, EditsKept
<1> QED
  BY <1>1, <1>2, <1>3 DEF TurnOK

LEMMA TurnStep ==
  ASSUME IInv, [Next]_vars
  PROVE  TurnOK'
<1>1. CASE UNCHANGED vars
  BY <1>1 DEF vars, process, control, ghosts, counters, IInv, TurnOK, OneByOne, ReadOK, ReadOf,
              InSet, SameText, SameFlag, AckOK, AckOf, EditsKept
<1> QED
  BY <1>1, ReceiveTurn, ReadFileTurn, AdoptTurn, ToggleTurn, TruncateTurn, WriteTurn,
     RescheduleTurn, FindTurn, EditTurn, StartTurn, StopTurn, ExitTurn DEF Next, Step

LEMMA Invariance == Spec => []IInv
<1>1. Init => IInv
  BY FileInit, TurnInit DEF IInv
<1>2. IInv /\ [Next]_vars => IInv'
  BY FileStep, TurnStep DEF IInv
<1> QED
  BY <1>1, <1>2, PTL DEF Spec

\* For every number of jobs, workers and commands: commands one after another, edits
\* between them and restarts undo no acknowledged enable or disable, neither in
\* jobs.json nor in the scheduler.
THEOREM AcksCorrect == Spec => []AcksHoldInTurn
<1>1. IInv => AcksHoldInTurn
  BY IdleFacts DEF AcksHoldInTurn, AcksHold
<1> QED
  BY <1>1, Invariance, PTL

\* For every number of jobs, workers and edits: SetEnabled writes back the texts that were
\* edited, as it reads the file before.
THEOREM EditsCorrect == Spec => []EditsKept
<1>1. IInv => EditsKept
  BY DEF IInv, TurnOK
<1> QED
  BY <1>1, Invariance, PTL

\* For every number of jobs and workers: without interference !cron run finds the job as
\* jobs.json defines it then.
THEOREM TriggerCorrect == Spec => []TriggerFindsLatest
<1>1. IInv => TriggerFindsLatest
  BY DEF IInv, TurnOK, ReadOK, ReadOf, TriggerFindsLatest
<1> QED
  BY <1>1, Invariance, PTL
=============================================================================
