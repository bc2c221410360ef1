------------------------------ MODULE CronJobs ------------------------------
(***************************************************************************)
(* The Discord gateway's cron jobs: cron/handler.go with jobs.json, the    *)
(* list of jobs in memory (Handler.jobs) and the scheduler that reschedule *)
(* makes of it, the !cron commands of discord.go and main's start and stop.*)
(*                                                                         *)
(* A worker is the goroutine of a !cron command.  Reading the file is one  *)
(* step and takes no lock, os.WriteFile is two: it truncates, then writes. *)
(* People and agents edit jobs.json beside the gateway.  A job is its      *)
(* enabled flag and its text: schedule, message and delivery.  The set of  *)
(* jobs stays the same.                                                    *)
(***************************************************************************)
EXTENDS Naturals

CONSTANTS Jobs,          \* names of the jobs in jobs.json
          Strangers,     \* names a command may give that are no job's
          Workers,       \* goroutines of onMessageCreate
          Free,          \* the holder of jobsMu when nobody holds it
          MaxCommands,   \* bound: !cron commands of a behaviour
          MaxEdits,      \* bound: edits of jobs.json
          MaxFaults,     \* bound: file operations that return an error
          MaxStarts      \* bound: starts of the gateway

ASSUME FreeIsNoWorker == Free \notin Workers
ASSUME StrangersAreNoJobs == Strangers \intersect Jobs = {}
ASSUME BoundsAreNaturals == {MaxCommands, MaxEdits, MaxFaults, MaxStarts} \subseteq Nat

VARIABLES
  file,        \* the jobs that were last written to jobs.json
  whole,       \* FALSE: jobs.json is truncated, it does not parse
  gateway,     \* "down", "up", "stopping" after StopScheduler, or "off": no jobs were loaded
  jobs,        \* Handler.jobs
  scheduled,   \* Handler.scheduledJobs: what the last reschedule gave the scheduler
  ticking,     \* the scheduler runs
  jobsMu,      \* the worker that holds the mutex, or Free
  pc, call,    \* what each worker does next, and its command
  got,         \* got[w]: what worker w has read from the file
  calm,        \* no commands, edits or deaths have overlapped, nothing failed (history variable)
  killed,      \* the process has died with a command in work (history variable)
  acked,       \* acked[j]: the flag acknowledged last, and since j was edited, if any (history)
  newest,      \* newest[j]: the text j was given last by an edit (history variable)
  edits, commands, faults, starts

process == <<gateway, jobs, scheduled, ticking, jobsMu>>
control == <<pc, call, got>>
ghosts == <<calm, killed, acked, newest>>
counters == <<edits, commands, faults, starts>>
vars == <<file, whole, process, control, ghosts, counters>>

Texts == 0..MaxEdits
Definitions == [enabled : BOOLEAN, text : Texts]
JobLists == [Jobs -> Definitions]
NoJobs == [j \in Jobs |-> [enabled |-> FALSE, text |-> 0]]

Names == Jobs \union Strangers
Commands ==
  [op : {"set"}, name : Names, to : BOOLEAN] \union [op : {"run"}, name : Names]
    \union [op : {"reload"}]
NoCommand == [op |-> "none"]

Serving == gateway \in {"up", "stopping"}
Busy == {w \in Workers : pc[w] # "idle"}

Init ==
  /\ file = [j \in Jobs |-> [enabled |-> TRUE, text |-> 0]] /\ whole = TRUE
  /\ gateway = "down" /\ jobs = NoJobs /\ scheduled = NoJobs /\ ticking = FALSE
  /\ jobsMu = Free
  /\ pc = [w \in Workers |-> "idle"] /\ call = [w \in Workers |-> NoCommand]
  /\ got = [w \in Workers |-> NoJobs]
  /\ calm = TRUE /\ killed = FALSE /\ acked = [j \in Jobs |-> {}]
  /\ newest = [j \in Jobs |-> 0] /\ edits = 0 /\ commands = 0 /\ faults = 0 /\ starts = 0

-----------------------------------------------------------------------------
Go(w, label) == pc' = [pc EXCEPT ![w] = label]

\* The command returns and its reply is sent.
End(w) ==
  /\ Go(w, "idle")
  /\ call' = [call EXCEPT ![w] = NoCommand]
  /\ got' = [got EXCEPT ![w] = NoJobs]

\* An operation on jobs.json succeeds, or returns an error.
Works == UNCHANGED <<faults, calm>>
Fails == faults < MaxFaults /\ faults' = faults + 1 /\ calm' = FALSE

(* A !cron command: enable or disable, run, reload. *)
Receive(w) ==
  /\ Serving /\ pc[w] = "idle" /\ commands < MaxCommands
  /\ commands' = commands + 1
  /\ \E r \in Commands : call' = [call EXCEPT ![w] = r]
  /\ Go(w, "read")
  /\ calm' = (calm /\ Busy = {})
  /\ UNCHANGED <<file, whole, process, got, killed, acked, newest, edits, faults, starts>>

\* After the file was read or not: only Reload makes an error of a file that is not read.
AfterRead(op) == CASE op = "set" -> "lock" [] op = "run" -> "find" [] op = "reload" -> "resched"

\* Mutant: only Reload reads the file.
ReadFileToReload(w) ==
  /\ pc[w] = "read" /\ Works
  /\ IF call[w].op = "reload" /\ whole
       THEN got' = [got EXCEPT ![w] = file] /\ Go(w, "adopt")
       ELSE Go(w, AfterRead(call[w].op)) /\ UNCHANGED got
  /\ UNCHANGED <<file, whole, process, call, killed, acked, newest, edits, commands, starts>>

\* os.ReadFile and json.Unmarshal of refreshJobs and LoadJobs, without the mutex.
ReadFile(w) ==
  /\ pc[w] = "read"
  /\ \/ /\ whole /\ Works
        /\ got' = [got EXCEPT ![w] = file] /\ Go(w, "adopt") /\ UNCHANGED call
     \/ /\ \/ ~ whole /\ Works
           \/ Fails
        /\ IF call[w].op = "reload" THEN End(w)
                                    ELSE Go(w, AfterRead(call[w].op)) /\ UNCHANGED <<call, got>>
  /\ UNCHANGED <<file, whole, process, killed, acked, newest, edits, commands, starts>>

\* jobsMu around h.jobs = jf.Jobs.
Adopt(w) ==
  /\ pc[w] = "adopt" /\ jobsMu = Free
  /\ jobs' = got[w]
  /\ Go(w, AfterRead(call[w].op))
  /\ UNCHANGED <<file, whole, gateway, scheduled, ticking, jobsMu, call, got,
                 ghosts, counters>>

-----------------------------------------------------------------------------
(* SetEnabled *)

\* Mutant: the early return of an unknown name keeps the mutex.
ToggleKeepsLock(w) ==
  /\ pc[w] = "lock" /\ jobsMu = Free
  /\ jobsMu' = w
  /\ IF call[w].name \in Jobs
       THEN jobs' = [jobs EXCEPT ![call[w].name].enabled = call[w].to]
            /\ Go(w, "open") /\ UNCHANGED <<call, got>>
       ELSE End(w) /\ UNCHANGED jobs
  /\ UNCHANGED <<file, whole, gateway, scheduled, ticking, ghosts, counters>>

\* Mutant: an unknown name is added to the list.
ToggleAnyName(w) ==
  /\ pc[w] = "lock" /\ jobsMu = Free
  /\ jobsMu' = w
  /\ jobs' = [n \in Jobs \union {call[w].name} |->
                IF n = call[w].name THEN [enabled |-> call[w].to, text |-> 0] ELSE jobs[n]]
  /\ Go(w, "open")
  /\ UNCHANGED <<file, whole, gateway, scheduled, ticking, call, got, ghosts, counters>>

\* Mutant: the mutex is given back before the file is written.
ToggleUnlocks(w) ==
  /\ pc[w] = "lock" /\ jobsMu = Free
  /\ IF call[w].name \in Jobs
       THEN /\ jobs' = [jobs EXCEPT ![call[w].name].enabled = call[w].to]
            /\ Go(w, "open") /\ UNCHANGED <<call, got>>
       ELSE End(w) /\ UNCHANGED jobs
  /\ UNCHANGED <<file, whole, gateway, scheduled, ticking, jobsMu, ghosts, counters>>

\* The mutex is taken and the flag set, or the name is not found.
Toggle(w) ==
  /\ pc[w] = "lock" /\ jobsMu = Free
  /\ IF call[w].name \in Jobs
       THEN /\ jobsMu' = w
            /\ jobs' = [jobs EXCEPT ![call[w].name].enabled = call[w].to]
            /\ Go(w, "open") /\ UNCHANGED <<call, got>>
       ELSE End(w) /\ UNCHANGED <<jobs, jobsMu>>
  /\ UNCHANGED <<file, whole, gateway, scheduled, ticking, ghosts, counters>>

\* saveJobs fails: the error is returned, the flag stays set in memory.
SaveFails(w) == Fails /\ jobsMu' = Free /\ End(w)

\* os.WriteFile opens the file with O_TRUNC, ...
Truncate(w) ==
  /\ pc[w] = "open"
  /\ \/ whole' = FALSE /\ Works /\ Go(w, "write") /\ UNCHANGED <<jobsMu, call, got>>
     \/ SaveFails(w) /\ UNCHANGED whole
  /\ UNCHANGED <<file, gateway, jobs, scheduled, ticking, killed, acked, newest,
                 edits, commands, starts>>

\* Mutant: what was read is written back.
WriteBack(w) ==
  /\ pc[w] = "write"
  /\ whole' = TRUE /\ file' = got[w] /\ Go(w, "resched")
  /\ UNCHANGED <<process, call, got, ghosts, counters>>

\* ... and writes the jobs in memory.
Write(w) ==
  /\ pc[w] = "write"
  /\ \/ /\ whole' = TRUE /\ file' = jobs /\ Works
        /\ Go(w, "resched") /\ UNCHANGED <<jobsMu, call, got>>
     \/ SaveFails(w) /\ UNCHANGED <<whole, file>>
  /\ UNCHANGED <<gateway, jobs, scheduled, ticking, killed, acked, newest,
                 edits, commands, starts>>

\* reschedule, which SetEnabled calls with the mutex it holds and Reload after taking it:
\* the old scheduler is stopped, a new one started with copies of the enabled jobs.
Reschedule(w) ==
  /\ pc[w] = "resched" /\ (jobsMu = w \/ (call[w].op = "reload" /\ jobsMu = Free))
  /\ jobsMu' = Free
  /\ scheduled' = jobs /\ ticking' = TRUE
  /\ acked' = IF call[w].op = "set" THEN [acked EXCEPT ![call[w].name] = {call[w].to}] ELSE acked
  /\ End(w)
  /\ UNCHANGED <<file, whole, gateway, jobs, calm, killed, newest, counters>>

-----------------------------------------------------------------------------
(* Trigger looks the name up without the mutex and starts a run of jobs[name] if there is
   one.  The run shares nothing with the commands. *)
Find(w) ==
  /\ pc[w] = "find"
  /\ End(w)
  /\ UNCHANGED <<file, whole, process, ghosts, counters>>

-----------------------------------------------------------------------------
(* main *)

\* LoadJobs and StartScheduler before the commands are registered; without a file that
\* can be read and parsed the gateway runs without jobs.
Start ==
  /\ gateway = "down" /\ starts < MaxStarts
  /\ starts' = starts + 1
  /\ \/ /\ whole /\ Works
        /\ gateway' = "up" /\ jobs' = file /\ scheduled' = file /\ ticking' = TRUE
     \/ /\ \/ ~ whole /\ Works
           \/ Fails
        /\ gateway' = "off" /\ UNCHANGED <<jobs, scheduled, ticking>>
  /\ UNCHANGED <<file, whole, jobsMu, control, killed, acked, newest, edits, commands>>

\* SIGTERM: StopScheduler waits for the mutex; the commands still arrive.
Stop ==
  /\ gateway = "up" /\ jobsMu = Free
  /\ gateway' = "stopping" /\ ticking' = FALSE
  /\ UNCHANGED <<file, whole, jobs, scheduled, jobsMu, control, ghosts, counters>>

\* The process is gone with its memory, commands and runs: main returns, or it is killed.
Exit ==
  /\ gateway # "down"
  /\ gateway' = "down" /\ jobs' = NoJobs /\ scheduled' = NoJobs /\ ticking' = FALSE
  /\ jobsMu' = Free
  /\ pc' = [w \in Workers |-> "idle"] /\ call' = [w \in Workers |-> NoCommand]
  /\ got' = [w \in Workers |-> NoJobs]
  /\ calm' = (calm /\ Busy = {}) /\ killed' = (killed \/ Busy # {})
  /\ UNCHANGED <<file, whole, acked, newest, counters>>

\* Someone rewrites the definition of job j in jobs.json.
Edit(j) ==
  /\ whole /\ edits < MaxEdits
  /\ edits' = edits + 1 /\ newest' = [newest EXCEPT ![j] = edits']
  /\ \E on \in BOOLEAN : file' = [file EXCEPT ![j] = [enabled |-> on, text |-> edits']]
  /\ acked' = [acked EXCEPT ![j] = {}]
  /\ calm' = (calm /\ Busy = {})
  /\ UNCHANGED <<whole, process, control, killed, commands, faults, starts>>

Step(w) ==
  \/ ReadFile(w) \/ Adopt(w) \/ Toggle(w) \/ Truncate(w) \/ Write(w) \/ Reschedule(w)
  \/ Find(w)

Next ==
  \/ \E w \in Workers : Receive(w) \/ Step(w)
  \/ \E j \in Jobs : Edit(j)
  \/ Start \/ Stop \/ Exit

Spec == Init /\ [][Next]_vars

\* A goroutine that can run does, and sync.Mutex starves no waiter.
Fairness == \A w \in Workers : SF_vars(Step(w))
FairSpec == Spec /\ Fairness

-----------------------------------------------------------------------------
(* Properties *)

TypeOK ==
  /\ file \in JobLists /\ jobs \in JobLists /\ scheduled \in JobLists
  /\ whole \in BOOLEAN /\ ticking \in BOOLEAN /\ calm \in BOOLEAN /\ killed \in BOOLEAN
  /\ gateway \in {"down", "up", "stopping", "off"}
  /\ jobsMu \in Workers \union {Free}
  /\ pc \in [Workers -> {"idle", "read", "adopt", "lock", "open", "write", "resched", "find"}]
  /\ call \in [Workers -> Commands \union {NoCommand}]
  /\ got \in [Workers -> JobLists]
  /\ acked \in [Jobs -> SUBSET BOOLEAN]
  /\ newest \in [Jobs -> Texts]
  /\ edits \in Nat /\ commands \in Nat /\ faults \in Nat /\ starts \in Nat

\* discord.go:198 answers an enable or disable with "crontab 반영 완료": the file has the
\* flag, and so has the scheduler as long as the gateway is up.
AcksHold ==
  Busy = {} =>
    \A j \in Jobs :
      /\ acked[j] \subseteq {file[j].enabled}
      /\ gateway = "up" => acked[j] \subseteq {scheduled[j].enabled}

\* Commands one after another, and edits between them, undo no acknowledged enable or
\* disable, also over a restart.
AcksHoldInTurn == calm => AcksHold

\* Edits between commands are kept: SetEnabled reads the file before it writes it.
EditsKept == calm => \A j \in Jobs : file[j].text = newest[j]

\* Unless the process dies or a write fails, jobs.json is unreadable only while the worker
\* that writes it holds the mutex: two writers never meet, and it is written in the end.
TornOnlyWhileWriting ==
  faults = 0 /\ ~ killed /\ ~ whole => \E w \in Workers : jobsMu = w /\ pc[w] = "write"

\* cron.go:114, "최신 파일 상태를 반영한다": without interference !cron run finds the job
\* as the file defines it at that moment.
TriggerFindsLatest ==
  calm => \A w \in Workers : pc[w] = "find" /\ call[w].name \in Jobs =>
             jobs[call[w].name] = file[call[w].name]

\* Every command is answered, or dies with the gateway.
CommandsAnswered == \A w \in Workers : pc[w] = "read" ~> pc[w] = "idle"
=============================================================================
