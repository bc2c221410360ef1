--------------------------- MODULE GatewaySession ---------------------------
(***************************************************************************)
(* The Discord gateway's conversations: session/handler.go with the        *)
(* resumeRunner it drives and the sessions table it keeps.                 *)
(*                                                                         *)
(* discordgo runs every onMessageCreate in a goroutine of its own; a       *)
(* worker is such a goroutine, in SendMessage or in ResetSession.  One     *)
(* mutex per channel orders the workers of a channel.  The id of the       *)
(* Claude session a channel continues is kept twice: in memory (runners)   *)
(* and in a row of sessions, from which it is restored after a restart.    *)
(*                                                                         *)
(* Claude itself is external: a conversation is the set of turns it holds, *)
(* and a run of the command may answer, print something that is not JSON,  *)
(* fail, or be killed by the 20 minute context.                            *)
(***************************************************************************)
EXTENDS Naturals, Sequences

CONSTANTS Channels,      \* Discord channel ids
          Workers,       \* goroutines of onMessageCreate
          Free,          \* the holder of a mutex nobody holds
          MaxMessages,   \* bound: messages that arrive in a behaviour
          MaxFaults,     \* bound: statements on gateway.db that return an error
          MaxCrashes     \* bound: deaths of the gateway (systemd restarts it)

ASSUME FreeIsNoWorker == Free \notin Workers
ASSUME BoundsAreNaturals == {MaxMessages, MaxFaults, MaxCrashes} \subseteq Nat

VARIABLES
  loaded,    \* channels with a runner in Handler.runners
  runner,    \* runner[c]: claudeSessionID of that runner, 0 for ""
  store,     \* store[c]: claude_session_id of c's row in sessions, 0 for no row
  lock,      \* lock[c]: the worker that holds channelMu(c), or Free
  pc,        \* pc[w]: what worker w does next
  call,      \* call[w]: the message or command worker w handles
  convs,     \* Claude's conversations, a session id is an index of it
  epoch,     \* epoch[c]: resets of c that were acknowledged (history variable)
  shown,     \* shown[c]: turns of c's conversation that were answered (history variable)
  sent,      \* messages that have arrived
  faults,    \* statements that have failed
  crashes    \* times the gateway has died

memory == <<loaded, runner>>
control == <<lock, pc, call>>
ghosts == <<epoch, shown>>
counters == <<sent, faults, crashes>>
vars == <<memory, store, control, convs, ghosts, counters>>

Ops == {"send", "reset"}
Calls == [op : Ops, chan : Channels, msg : Nat, epoch : Nat, retried : BOOLEAN]
Conversation == [chan : Channels, epoch : Nat, turns : SUBSET Nat]
NoId == 0

\* The conversation the next message of c continues: the runner's, or the row's
\* when there is no runner yet.
Resumes(c) == IF c \in loaded THEN runner[c] ELSE store[c]
TurnsOf(id) == IF id = NoId THEN {} ELSE convs[id].turns

Init ==
  /\ loaded = {} /\ runner = [c \in Channels |-> NoId]
  /\ store = [c \in Channels |-> NoId]
  /\ lock = [c \in Channels |-> Free]
  /\ pc = [w \in Workers |-> "idle"]
  /\ call \in [Workers -> {[op |-> "send", chan |-> c, msg |-> 0, epoch |-> 0,
                            retried |-> FALSE] : c \in Channels}]
  /\ \A v, w \in Workers : call[v] = call[w]
  /\ convs = << >>
  /\ epoch = [c \in Channels |-> 0] /\ shown = [c \in Channels |-> {}]
  /\ sent = 0 /\ faults = 0 /\ crashes = 0

-----------------------------------------------------------------------------
(* Steps every call has. *)

Go(w, label) == pc' = [pc EXCEPT ![w] = label]

\* A Discord message: !reset or a text for Claude.
Arrive(w) ==
  /\ pc[w] = "idle" /\ sent < MaxMessages
  /\ sent' = sent + 1
  /\ \E op \in Ops, c \in Channels :
        call' = [call EXCEPT ![w] = [op |-> op, chan |-> c, msg |-> sent',
                                     epoch |-> 0, retried |-> FALSE]]
  /\ Go(w, "lock")
  /\ UNCHANGED <<memory, store, lock, convs, ghosts, faults, crashes>>

\* Mutant: a reset does not wait for the message that is being answered.
LockUnlessReset(w) ==
  LET c == call[w].chan IN
  /\ pc[w] = "lock" /\ (call[w].op = "send" => lock[c] = Free)
  /\ lock' = [lock EXCEPT ![c] = w]
  /\ call' = [call EXCEPT ![w].epoch = epoch[c]]
  /\ Go(w, IF call[w].op = "reset" THEN "reset" ELSE "load")
  /\ UNCHANGED <<memory, store, convs, ghosts, counters>>

\* mu.Lock(): the worker starts in the channel's present epoch.
Lock(w) ==
  LET c == call[w].chan IN
  /\ pc[w] = "lock" /\ lock[c] = Free
  /\ lock' = [lock EXCEPT ![c] = w]
  /\ call' = [call EXCEPT ![w].epoch = epoch[c]]
  /\ Go(w, IF call[w].op = "reset" THEN "reset" ELSE "load")
  /\ UNCHANGED <<memory, store, convs, ghosts, counters>>

\* The deferred mu.Unlock(), as the handler returns.
Return(w) ==
  /\ lock' = [lock EXCEPT ![call[w].chan] = Free]
  /\ Go(w, "idle")

\* A statement on gateway.db returns an error and changes nothing.
DbFails == faults < MaxFaults /\ faults' = faults + 1

-----------------------------------------------------------------------------
(* SendMessage *)

\* Mutant: a channel takes over the id of another channel's row.
GetOrCreateAny(w) ==
  LET c == call[w].chan IN
  /\ pc[w] = "load"
  /\ Go(w, "send")
  /\ IF c \in loaded
       THEN UNCHANGED memory
       ELSE /\ loaded' = loaded \union {c}
            /\ \E d \in Channels : runner' = [runner EXCEPT ![c] = store[d]]
  /\ UNCHANGED <<store, lock, call, convs, ghosts, counters>>

\* getOrCreate: the runner in memory, or a new one with the id of the row; when
\* the row cannot be read the new runner has no id.
GetOrCreate(w) ==
  LET c == call[w].chan IN
  /\ pc[w] = "load"
  /\ Go(w, "send")
  /\ IF c \in loaded
       THEN UNCHANGED <<memory, faults>>
       ELSE /\ loaded' = loaded \union {c}
            /\ \/ runner' = [runner EXCEPT ![c] = store[c]] /\ UNCHANGED faults
               \/ runner' = [runner EXCEPT ![c] = NoId] /\ DbFails
  /\ UNCHANGED <<store, lock, call, convs, ghosts, sent, crashes>>

\* Mutant: the id is taken from a report of a conversation that was never made.
ClaudeAnswersUnheard(w) ==
  /\ pc[w] = "send"
  /\ runner' = [runner EXCEPT ![call[w].chan] = Len(convs) + 1]
  /\ Go(w, "save")
  /\ UNCHANGED <<loaded, store, lock, call, convs, ghosts, counters>>

\* Claude answers in JSON.  It continues the resumed conversation under its id or
\* under a new one, and without --resume it opens a conversation; send adopts the id.
ClaudeAnswers(w) ==
  LET c == call[w].chan
      m == call[w].msg IN
  /\ pc[w] = "send"
  /\ \/ /\ runner[c] # NoId
        /\ convs' = [convs EXCEPT ![runner[c]].turns = @ \union {m}]
        /\ UNCHANGED runner
     \/ /\ convs' = Append(convs, [chan |-> c, epoch |-> call[w].epoch,
                                   turns |-> TurnsOf(runner[c]) \union {m}])
        /\ runner' = [runner EXCEPT ![c] = Len(convs) + 1]
  /\ Go(w, "save")
  /\ UNCHANGED <<loaded, store, lock, call, ghosts, counters>>

\* Claude succeeds without JSON, or without a session id: the text is the reply
\* and the runner keeps the id it has.
ClaudePrints(w) ==
  /\ pc[w] = "send"
  /\ Go(w, IF runner[call[w].chan] # NoId THEN "save" ELSE "answer")
  /\ UNCHANGED <<memory, store, lock, call, convs, ghosts, counters>>

\* Claude fails before the context has ended.  A runner with an id drops it and
\* tries once more; a fresh one, or the second failure, is the caller's error.
ClaudeFails(w) ==
  /\ pc[w] = "send"
  /\ IF runner[call[w].chan] # NoId /\ ~call[w].retried
       THEN Go(w, "drop") /\ UNCHANGED lock
       ELSE Return(w)
  /\ UNCHANGED <<memory, store, call, convs, ghosts, counters>>

\* Mutant: the early return leaves the mutex locked.
ClaudeTimesOutLocked(w) ==
  /\ pc[w] = "send"
  /\ Go(w, "idle")
  /\ UNCHANGED <<memory, store, lock, call, convs, ghosts, counters>>

\* The context ends after 20 minutes: no retry, the id is kept.
ClaudeTimesOut(w) ==
  /\ pc[w] = "send"
  /\ Return(w)
  /\ UNCHANGED <<memory, store, call, convs, ghosts, counters>>

\* Mutant: the row of the session that failed is left alone.
DropInMemory(w) ==
  LET c == call[w].chan IN
  /\ pc[w] = "drop"
  /\ runner' = [runner EXCEPT ![c] = NoId]
  /\ call' = [call EXCEPT ![w].retried = TRUE]
  /\ shown' = [shown EXCEPT ![c] = {}]
  /\ Go(w, "send")
  /\ UNCHANGED <<loaded, store, lock, convs, epoch, counters>>

\* The retry: the id is cleared, the row deleted (an error is ignored), and the
\* same message goes to a new conversation.
Drop(w) ==
  LET c == call[w].chan IN
  /\ pc[w] = "drop"
  /\ runner' = [runner EXCEPT ![c] = NoId]
  /\ \/ store' = [store EXCEPT ![c] = NoId] /\ UNCHANGED faults
     \/ UNCHANGED store /\ DbFails
  /\ call' = [call EXCEPT ![w].retried = TRUE]
  /\ shown' = [shown EXCEPT ![c] = {}]
  /\ Go(w, "send")
  /\ UNCHANGED <<loaded, lock, convs, epoch, sent, crashes>>

\* Mutant: the id is saved once, when the channel has no row yet.
UpsertOnce(w) ==
  LET c == call[w].chan IN
  /\ pc[w] = "save"
  /\ store' = [store EXCEPT ![c] = IF @ = NoId THEN runner[c] ELSE @]
  /\ Go(w, "answer")
  /\ UNCHANGED <<memory, lock, call, convs, ghosts, counters>>

\* Upsert: an error is only logged.
Upsert(w) ==
  LET c == call[w].chan IN
  /\ pc[w] = "save"
  /\ \/ store' = [store EXCEPT ![c] = runner[c]] /\ UNCHANGED faults
     \/ UNCHANGED store /\ DbFails
  /\ Go(w, "answer")
  /\ UNCHANGED <<memory, lock, call, convs, ghosts, sent, crashes>>

\* SendMessage returns the reply; shown counts it when it is a turn of the conversation.
Answer(w) ==
  LET c == call[w].chan IN
  /\ pc[w] = "answer"
  /\ shown' = [shown EXCEPT ![c] = @ \union ({call[w].msg} \intersect TurnsOf(runner[c]))]
  /\ Return(w)
  /\ UNCHANGED <<memory, store, call, convs, epoch, counters>>

-----------------------------------------------------------------------------
(* ResetSession: the runner goes; the row goes too, or the user is told of an error. *)
ResetSession(w) ==
  LET c == call[w].chan IN
  /\ pc[w] = "reset"
  /\ loaded' = loaded \ {c}
  /\ \/ /\ store' = [store EXCEPT ![c] = NoId]
        /\ epoch' = [epoch EXCEPT ![c] = @ + 1]
        /\ shown' = [shown EXCEPT ![c] = {}]
        /\ UNCHANGED faults
     \/ /\ DbFails
        /\ UNCHANGED <<store, ghosts>>
  /\ Return(w)
  /\ UNCHANGED <<runner, call, convs, sent, crashes>>

-----------------------------------------------------------------------------
(* The gateway dies and is started again: runners, mutexes and the messages in
   work are gone (systemd kills Claude with the service), the rows are not. *)
Crash ==
  /\ crashes < MaxCrashes
  /\ crashes' = crashes + 1
  /\ loaded' = {}
  /\ lock' = [c \in Channels |-> Free]
  /\ pc' = [w \in Workers |-> "idle"]
  /\ UNCHANGED <<runner, store, call, convs, ghosts, sent, faults>>

ClaudeEnds(w) == ClaudeAnswers(w) \/ ClaudePrints(w) \/ ClaudeFails(w) \/ ClaudeTimesOut(w)

Step(w) ==
  \/ GetOrCreate(w) \/ ClaudeEnds(w) \/ Drop(w) \/ Upsert(w)
  \/ Answer(w) \/ ResetSession(w)

Next == Crash \/ \E w \in Workers : Arrive(w) \/ Lock(w) \/ Step(w)

Spec == Init /\ [][Next]_vars

\* A goroutine that can run does, sync.Mutex starves no waiter, and Claude ends
\* at the latest when its context does.
Fairness == \A w \in Workers : WF_vars(Step(w)) /\ SF_vars(Lock(w))
FairSpec == Spec /\ Fairness

-----------------------------------------------------------------------------
(* Properties *)

\* Every variable keeps its shape and every session id in memory or in the table
\* names a conversation Claude has (session/handler.go and model.go).
TypeOK ==
  /\ loaded \subseteq Channels
  /\ convs \in Seq(Conversation)
  /\ runner \in [Channels -> 0..Len(convs)]
  /\ store \in [Channels -> 0..Len(convs)]
  /\ lock \in [Channels -> Workers \union {Free}]
  /\ pc \in [Workers -> {"idle", "lock", "load", "send", "drop", "save", "answer",
                         "reset"}]
  /\ call \in [Workers -> Calls]
  /\ epoch \in [Channels -> Nat] /\ shown \in [Channels -> SUBSET Nat]
  /\ sent \in Nat /\ faults \in Nat /\ crashes \in Nat

\* Whatever fails or dies, the conversation a channel would continue is one of its
\* own, begun after the last reset that was acknowledged (ResetSession holds the
\* channel's mutex, so no message in work can save an old id over it).
ConversationBelongs ==
  \A c \in Channels : Resumes(c) # NoId =>
     convs[Resumes(c)].chan = c /\ convs[Resumes(c)].epoch = epoch[c]

\* Two Claude processes never resume one conversation at the same time: per channel
\* because of channelMu, across channels because ids are never shared.
ConversationsNotShared ==
  \A v, w \in Workers :
     v # w /\ pc[v] = "send" /\ pc[w] = "send" =>
       runner[call[v].chan] = NoId \/ runner[call[v].chan] # runner[call[w].chan]

\* handler.go:30, "the conversation is kept after a restart": between two messages of
\* a channel, the conversation that would be continued holds every turn that was
\* answered since the last reset or the last session Claude refused, as long as
\* gateway.db has answered (Upsert and GetByChannelID only log or drop their errors).
ContextKept ==
  faults = 0 =>
    \A c \in Channels : lock[c] = Free => shown[c] \subseteq TurnsOf(Resumes(c))

\* Between two messages of a channel, the row is the runner's id (handler.go:63-68),
\* also when both sends failed and there is neither, as long as gateway.db has answered.
SavedMatchesRunner ==
  faults = 0 => \A c \in loaded : lock[c] = Free => store[c] = runner[c]

\* A message that waits for its channel's mutex is answered, or dies with the
\* gateway: every path of SendMessage and ResetSession gives the mutex back.
MessagesAnswered == \A w \in Workers : pc[w] = "lock" ~> pc[w] = "idle"
=============================================================================
