------------------------------- MODULE Relay -------------------------------
(***************************************************************************)
(* The Discord gateway from Claude's answer on: onMessageCreate of         *)
(* discord.go after SendMessage has returned, the memory files that        *)
(* memory/writer.go keeps, and the runs of cron jobs (runJob of            *)
(* cron/handler.go) from their start to their delivery.                    *)
(*                                                                         *)
(* SendMessage has released the channel's mutex when Append begins, and a  *)
(* job has no mutex, so workers of every kind run side by side.  A text is *)
(* a sequence of bytes: newline, "-" for "- " at the beginning of a line,  *)
(* "=" for a line "---", "!" for a job's notifyOnlyIf, "lead" and "trail"  *)
(* for the bytes of a character of two, "lost" for the character U+FFFD    *)
(* that stands for a byte of no character, or any other.                   *)
(* Answers are short: none is cut by archiveLine, and none holds the       *)
(* markers of an entry.                                                    *)
(***************************************************************************)
EXTENDS Integers, Sequences, FiniteSetsExt, SequencesExt

CONSTANTS Workers,       \* goroutines: of onMessageCreate, of a job's run
          Definition,    \* Definition[j]: what jobs.json says of job j
          Answers,       \* what Claude answers
          MaxRecent,     \* maxRecent: entries current-memory.md keeps in full
          MaxLen,        \* maxMsgLen, maxLen: bytes of a Discord message
          HoursADay,     \* hours of a day
          FirstHour,     \* the hour in which a behaviour begins
          LastHour,      \* bound: the hour in which it ends
          MaxTurns,      \* bound: answers and job runs
          MaxRuns,       \* bound: job runs among them
          MaxFaults      \* bound: file operations and posts that return an error, and
                         \* deaths of the gateway (systemd restarts it)

Hours == 0..HoursADay - 1
NL == "newline"
Alphabet == {NL, "-", "=", "!", "x", "lead", "trail", "lost"}
Jobs == DOMAIN Definition
Chat == "chat"
JobDefinitions ==
  [announce : BOOLEAN, onlyIf : BOOLEAN, quiet : [from : Hours, to : Hours]]

\* discordgo encodes a message as JSON: a byte that is of no whole character is replaced.
Stray(text, i) ==
  \/ text[i] = "lead" /\ (i = Len(text) \/ text[i + 1] # "trail")
  \/ text[i] = "trail" /\ (i = 1 \/ text[i - 1] # "lead")
Encoded(text) == [i \in DOMAIN text |-> IF Stray(text, i) THEN "lost" ELSE text[i]]

ASSUME BoundsAreNaturals ==
  {FirstHour, LastHour, MaxTurns, MaxRuns, MaxFaults} \subseteq Nat /\ FirstHour <= LastHour
ASSUME SizesArePositive == {MaxRecent, MaxLen, HoursADay} \subseteq Nat \ {0}
ASSUME DefinitionsAreDefined == Definition \in [Jobs -> JobDefinitions] /\ Chat \notin Jobs
ASSUME AnswersAreTexts ==
  Answers \subseteq Seq(Alphabet) /\ \A a \in Answers : Encoded(a) = a

VARIABLES
  now,        \* the clock, in hours
  exists,     \* days that have a daily file
  daily,      \* daily[d]: headers and turns in the file of day d
  current,    \* current-memory.md: the lines of its archive, and its entries
  pc,         \* what each worker does next
  turn,       \* turn[w]: the number of the turn worker w handles
  fresh,      \* fresh[w]: appendDaily found no file
  seen,       \* seen[w]: what updateCurrent has read
  rest,       \* rest[w]: what sendChunked has left to send
  turns,      \* turns[t]: whose turn t is, its answer and when it was given (history variable)
  pieces,     \* pieces[t]: the messages of turn t that Discord took
  recorded,   \* turns whose Append has ended, in that order (history variable)
  unwritten,  \* turns whose daily record failed (history variable)
  complete,   \* turns whose last message Discord took (history variable)
  calm,       \* no Appends have overlapped, none was disturbed (history variable)
  faults

files == <<exists, daily, current>>
control == <<pc, turn, fresh, seen, rest>>
ghosts == <<turns, pieces, recorded, unwritten, complete, calm>>
vars == <<now, files, control, ghosts, faults>>

Days == 0..LastHour \div HoursADay
Turns == 1..MaxTurns
Header == 0

Lines == [turn : Turns, kind : {"head", "item", "text", "rule"}]
Heads == {l \in Lines : l.kind = "head"}
Bullets == {l \in Lines : l.kind \in {"head", "item"}}
Memories == [archive : Seq(Lines), entries : Seq(Turns)]
NoMemory == [archive |-> << >>, entries |-> << >>]

Init ==
  /\ now = FirstHour
  /\ exists = {} /\ daily = [d \in Days |-> << >>] /\ current = NoMemory
  /\ pc = [w \in Workers |-> "idle"] /\ turn = [w \in Workers |-> 0]
  /\ fresh = [w \in Workers |-> FALSE] /\ seen = [w \in Workers |-> NoMemory]
  /\ rest = [w \in Workers |-> << >>]
  /\ turns = << >> /\ pieces = << >> /\ recorded = << >>
  /\ unwritten = {} /\ complete = {} /\ calm = TRUE
  /\ faults = 0

-----------------------------------------------------------------------------
(* The files of the conversation memory. *)

\* The elements of s that are in S, in the order of s.
Selected(s, S) ==
  LET kept[n \in 0..Len(s)] ==
        IF n = 0 THEN << >>
        ELSE IF s[n] \in S THEN Append(kept[n - 1], s[n]) ELSE kept[n - 1]
  IN kept[Len(s)]

\* archiveLine of an entry: its first line begins with "- ", those of the answer follow.
ArchiveLine(t) ==
  LET a == turns[t].answer
      newlines == Selected([i \in 1..Len(a) |-> i], {i \in 1..Len(a) : a[i] = NL})
      kind(i) == CASE i < Len(a) /\ a[i + 1] = "-" -> "item"
                   [] i < Len(a) /\ a[i + 1] = "=" -> "rule"
                   [] OTHER -> "text"
  IN <<[turn |-> t, kind |-> "head"]>>
       \o [k \in DOMAIN newlines |-> [turn |-> t, kind |-> kind(newlines[k])]]

\* Mutant: the archive begins after the first rule.
ParsedAfterRule(memory) ==
  LET rules == {i \in DOMAIN memory.archive : memory.archive[i].kind = "rule"}
      lines == IF rules = {} THEN memory.archive
                             ELSE SubSeq(memory.archive, Min(rules) + 1, Len(memory.archive))
  IN [memory EXCEPT !.archive = Selected(lines, Bullets)]

\* parseCurrent: of the lines up to the first rule those that begin with "- ".
Parsed(memory) ==
  LET rules == {i \in DOMAIN memory.archive : memory.archive[i].kind = "rule"}
      lines == IF rules = {} THEN memory.archive
                             ELSE SubSeq(memory.archive, 1, Min(rules) - 1)
  IN [memory EXCEPT !.archive = Selected(lines, Bullets)]

\* Mutant: an entry too many stays.
UpdatedLate(memory, t) ==
  IF Len(memory.entries) > MaxRecent
    THEN [archive |-> memory.archive \o ArchiveLine(memory.entries[1]),
          entries |-> Append(Tail(memory.entries), t)]
    ELSE [memory EXCEPT !.entries = Append(@, t)]

\* The file updateCurrent makes of what it has read.
Updated(memory, t) ==
  IF Len(memory.entries) >= MaxRecent
    THEN [archive |-> memory.archive \o ArchiveLine(memory.entries[1]),
          entries |-> Append(Tail(memory.entries), t)]
    ELSE [memory EXCEPT !.entries = Append(@, t)]

-----------------------------------------------------------------------------
Go(w, label) == pc' = [pc EXCEPT ![w] = label]
Works == UNCHANGED <<faults, calm>>
Fails == faults < MaxFaults /\ faults' = faults + 1 /\ calm' = FALSE

DayOf(t) == turns[t].at \div HoursADay
Remembering == {w \in Workers : pc[w] \in {"stat", "open", "append", "read", "truncate", "write"}}

\* The goroutine ends.
Reset(w) ==
  /\ Go(w, "idle") /\ turn' = [turn EXCEPT ![w] = 0]
  /\ fresh' = [fresh EXCEPT ![w] = FALSE] /\ seen' = [seen EXCEPT ![w] = NoMemory]
  /\ rest' = [rest EXCEPT ![w] = << >>]

\* A turn of who begins, with an answer that for a job is not known yet.
Begin(w, who, answer, label) ==
  /\ pc[w] = "idle" /\ Len(turns) < MaxTurns
  /\ turns' = Append(turns, [who |-> who, answer |-> answer, at |-> now])
  /\ pieces' = Append(pieces, << >>)
  /\ turn' = [turn EXCEPT ![w] = Len(turns) + 1]
  /\ Go(w, label)

\* SendMessage has returned Claude's answer; Append is called with the time.
Answered(w) ==
  /\ \E a \in Answers : Begin(w, Chat, a, "stat")
  /\ calm' = (calm /\ Remembering = {})
  /\ UNCHANGED <<now, files, fresh, seen, rest, recorded, unwritten, complete, faults>>

\* appendDaily: os.Stat of the file of the turn's day.
Stat(w) ==
  /\ pc[w] = "stat"
  /\ fresh' = [fresh EXCEPT ![w] = DayOf(turn[w]) \notin exists]
  /\ Go(w, "open")
  /\ UNCHANGED <<now, files, turn, seen, rest, ghosts, faults>>

\* appendDaily returns an error, which Append logs.
DailyFails(w) ==
  /\ pc[w] \in {"open", "append"} /\ Fails
  /\ unwritten' = unwritten \union {turn[w]}
  /\ Go(w, "read")
  /\ UNCHANGED <<now, files, turn, fresh, seen, rest, turns, pieces, recorded, complete>>

\* os.OpenFile creates the file if there is none.
Open(w) ==
  /\ pc[w] = "open"
  /\ exists' = exists \union {DayOf(turn[w])}
  /\ Go(w, "append")
  /\ UNCHANGED <<now, daily, current, turn, fresh, seen, rest, ghosts, faults>>

HeaderOf(w) == IF fresh[w] THEN <<Header>> ELSE << >>

\* Mutant: the file is opened without O_APPEND, the record replaces what the file holds.
WriteDailyOver(w) ==
  /\ pc[w] = "append"
  /\ daily' = [daily EXCEPT ![DayOf(turn[w])] = HeaderOf(w) \o <<turn[w]>>]
  /\ Go(w, "read")
  /\ UNCHANGED <<now, exists, current, turn, fresh, seen, rest, ghosts, faults>>

\* One write at the end of the file.
WriteDaily(w) ==
  /\ pc[w] = "append"
  /\ daily' = [daily EXCEPT ![DayOf(turn[w])] = @ \o HeaderOf(w) \o <<turn[w]>>]
  /\ Go(w, "read")
  /\ UNCHANGED <<now, exists, current, turn, fresh, seen, rest, ghosts, faults>>

\* updateCurrent takes a file it cannot read for an empty one.
ReadCurrent(w) ==
  /\ pc[w] = "read"
  /\ \/ Works /\ seen' = [seen EXCEPT ![w] = Parsed(current)]
     \/ Fails /\ seen' = [seen EXCEPT ![w] = NoMemory]
  /\ Go(w, "truncate")
  /\ UNCHANGED <<now, files, turn, fresh, rest, turns, pieces, recorded, unwritten, complete>>

\* Append ends and the answer is sent.
Send(w) ==
  /\ recorded' = Append(recorded, turn[w])
  /\ rest' = [rest EXCEPT ![w] = turns[turn[w]].answer]
  /\ Go(w, "post")

\* os.WriteFile truncates the file ...
Truncate(w) ==
  /\ pc[w] = "truncate"
  /\ \/ /\ Works /\ current' = NoMemory
        /\ Go(w, "write") /\ UNCHANGED <<recorded, rest>>
     \/ Fails /\ Send(w) /\ UNCHANGED current
  /\ UNCHANGED <<now, exists, daily, turn, fresh, seen, turns, pieces, unwritten, complete>>

\* ... and writes it.
Write(w) ==
  /\ pc[w] = "write"
  /\ \/ Works /\ current' = Updated(seen[w], turn[w])
     \/ Fails /\ UNCHANGED current
  /\ Send(w)
  /\ UNCHANGED <<now, exists, daily, turn, fresh, seen, turns, pieces, unwritten, complete>>

-----------------------------------------------------------------------------
(* sendChunked, the same for answers and for jobs. *)

\* Mutant: a byte is skipped at every cut, newline or not.
CutSkipping(text) ==
  LET newlines == {i \in 1..MaxLen : text[i] = NL}
      cut == IF newlines = {} \/ Max(newlines) = 1 THEN MaxLen ELSE Max(newlines) - 1
  IN [piece |-> SubSeq(text, 1, cut), rest |-> SubSeq(text, cut + 2, Len(text))]

\* The next message of a text longer than MaxLen, and what is left after it.
Cut(text) ==
  LET newlines == {i \in 1..MaxLen : text[i] = NL}
      cut == IF newlines = {} \/ Max(newlines) = 1 THEN MaxLen ELSE Max(newlines) - 1
      left == SubSeq(text, cut + 1, Len(text))
  IN [piece |-> SubSeq(text, 1, cut),
      rest |-> IF left # << >> /\ Head(left) = NL THEN Tail(left) ELSE left]

\* ChannelMessageSend: Discord takes the message as it is encoded.
Post(w, piece) == pieces' = [pieces EXCEPT ![turn[w]] = Append(@, Encoded(piece))]

\* A message before the last one: an error ends the loop.
PostPiece(w) ==
  /\ pc[w] = "post" /\ Len(rest[w]) > MaxLen
  /\ Post(w, Cut(rest[w]).piece)
  /\ rest' = [rest EXCEPT ![w] = Cut(rest[w]).rest]
  /\ UNCHANGED <<now, files, pc, turn, fresh, seen, turns, recorded, unwritten, complete, calm,
                 faults>>

\* The last message; of an empty text nothing is sent.
PostLast(w) ==
  /\ pc[w] = "post" /\ Len(rest[w]) <= MaxLen
  /\ IF rest[w] = << >> THEN UNCHANGED pieces ELSE Post(w, rest[w])
  /\ complete' = complete \union {turn[w]}
  /\ Reset(w)
  /\ UNCHANGED <<now, files, turns, recorded, unwritten, calm, faults>>

\* Discord refuses a message; of the last one the error is not looked at.
PostFails(w) ==
  /\ pc[w] = "post" /\ rest[w] # << >>
  /\ faults < MaxFaults /\ faults' = faults + 1
  /\ Reset(w)
  /\ UNCHANGED <<now, files, ghosts>>

-----------------------------------------------------------------------------
(* runJob: stagger and script only take time, the answer comes after them. *)

StartJob(w) ==
  /\ Cardinality({t \in DOMAIN turns : turns[t].who # Chat}) < MaxRuns
  /\ \E j \in Jobs : Begin(w, j, << >>, "claude")
  /\ UNCHANGED <<now, files, fresh, seen, rest, recorded, unwritten, complete, calm, faults>>

\* RunIsolated returns an answer.
JobAnswered(w) ==
  /\ pc[w] = "claude"
  /\ \E a \in Answers : turns' = [turns EXCEPT ![turn[w]].answer = a]
  /\ Go(w, "check")
  /\ UNCHANGED <<now, files, turn, fresh, seen, rest, pieces, recorded, unwritten, complete, calm,
                 faults>>

\* RunIsolated returns an error, or the job's context ends.
JobFails(w) ==
  /\ pc[w] = "claude" /\ Reset(w)
  /\ UNCHANGED <<now, files, ghosts, faults>>

\* Mutant: ranges over midnight are not told apart.
IsQuietUnwrapped(quiet, hour) == quiet.from <= hour /\ hour < quiet.to

IsQuietHour(quiet, hour) ==
  IF quiet.from <= quiet.to THEN quiet.from <= hour /\ hour < quiet.to
                            ELSE quiet.from <= hour \/ hour < quiet.to

Delivers(job, answer) ==
  /\ job.announce /\ answer # << >>
  /\ job.onlyIf => Contains(answer, "!")
  /\ ~ IsQuietHour(job.quiet, now % HoursADay)

\* Mode, notifyOnlyIf and quiet hours decide at the time of the answer.
Check(w) ==
  /\ pc[w] = "check"
  /\ IF Delivers(Definition[turns[turn[w]].who], turns[turn[w]].answer)
       THEN /\ turns' = [turns EXCEPT ![turn[w]].at = now]
            /\ Go(w, "deliver") /\ UNCHANGED <<turn, fresh, seen, rest>>
       ELSE Reset(w) /\ UNCHANGED turns
  /\ UNCHANGED <<now, files, pieces, recorded, unwritten, complete, calm, faults>>

\* deliver: a channel is known, a user's is asked for.
Deliver(w) ==
  /\ pc[w] = "deliver"
  /\ \/ /\ rest' = [rest EXCEPT ![w] = turns[turn[w]].answer]
        /\ Go(w, "post") /\ UNCHANGED <<turn, fresh, seen, faults>>
     \/ faults < MaxFaults /\ faults' = faults + 1 /\ Reset(w)
  /\ UNCHANGED <<now, files, ghosts>>

-----------------------------------------------------------------------------
\* The gateway dies, and is started again.
Die ==
  /\ faults < MaxFaults /\ faults' = faults + 1
  /\ pc' = [w \in Workers |-> "idle"] /\ turn' = [w \in Workers |-> 0]
  /\ fresh' = [w \in Workers |-> FALSE] /\ seen' = [w \in Workers |-> NoMemory]
  /\ rest' = [w \in Workers |-> << >>]
  /\ calm' = (calm /\ Remembering = {})
  /\ UNCHANGED <<now, files, turns, pieces, recorded, unwritten, complete>>

Tick ==
  /\ now < LastHour /\ now' = now + 1
  /\ UNCHANGED <<files, control, ghosts, faults>>

Handle(w) ==
  \/ Answered(w) \/ Stat(w) \/ Open(w) \/ WriteDaily(w) \/ DailyFails(w)
  \/ ReadCurrent(w) \/ Truncate(w) \/ Write(w)
  \/ PostPiece(w) \/ PostLast(w) \/ PostFails(w)
Run(w) == StartJob(w) \/ JobAnswered(w) \/ JobFails(w) \/ Check(w) \/ Deliver(w)

Next == (\E w \in Workers : Handle(w) \/ Run(w)) \/ Die \/ Tick

Spec == Init /\ [][Next]_vars

-----------------------------------------------------------------------------
(* The types, and maxRecent: however Appends overlap, current-memory.md    *)
(* never holds more than MaxRecent entries (writer.go:90).                 *)
TypeOK ==
  /\ now \in FirstHour..LastHour /\ exists \subseteq Days
  /\ \A d \in Days : daily[d] \in Seq(Turns \union {Header})
  /\ \A m \in {current} \union {seen[w] : w \in Workers} :
        m \in Memories /\ Len(m.entries) <= MaxRecent
  /\ \A w \in Workers : turn[w] \in 0..Len(turns) /\ (pc[w] = "idle" <=> turn[w] = 0)
  /\ recorded \in Seq(Turns) /\ unwritten \union complete \subseteq Turns

(* Appends that do not overlap, and that nothing disturbs, forget nothing: *)
(* current-memory.md holds the last MaxRecent turns in full and a line for *)
(* each earlier one, in the order of the turns, whatever lines the answers *)
(* consist of (updateCurrent, parseCurrent and renderCurrent together).    *)
(* And each daily file begins with its only header (appendDaily).          *)
HeadsOf(archive) ==
  LET heads == Selected(archive, Heads)
  IN [i \in DOMAIN heads |-> heads[i].turn]

MemoryInTurn ==
  calm /\ Remembering = {} =>
    LET old == Max({0, Len(recorded) - MaxRecent})
    IN /\ HeadsOf(current.archive) = SubSeq(recorded, 1, old)
       /\ current.entries = SubSeq(recorded, old + 1, Len(recorded))
       /\ \A d \in exists : daily[d][1] = Header /\ Header \notin Range(Tail(daily[d]))

(* However Appends overlap, and over restarts: a turn stands in the file   *)
(* of the day it was answered, once, before its answer appears in Discord, *)
(* unless the write failed (onMessageCreate, appendDaily).                 *)
Copies(t, d) == Cardinality({i \in DOMAIN daily[d] : daily[d][i] = t})

DailyHasAll ==
  \A t \in DOMAIN turns : turns[t].who = Chat =>
    LET past == t \in Range(recorded) \/ pieces[t] # << >>
    IN /\ \A d \in Days : Copies(t, d) <= (IF d = DayOf(t) THEN 1 ELSE 0)
       /\ past /\ t \notin unwritten => Copies(t, DayOf(t)) = 1

(* The messages of an answer are none too long, and show all of its text,  *)
(* in order, but for newlines where it was cut; the replacement character  *)
(* only stands for bytes of a character that a cut went through.  If all   *)
(* its lines are shorter than a message, the messages joined by newlines   *)
(* are the answer: no line was cut, nor any character ("splits content at  *)
(* newline boundaries", discord.go:120).                                   *)
Text(bytes) == Selected(bytes, Alphabet \ {NL})
Joined(messages) ==
  IF messages = << >> THEN << >>
  ELSE Tail(FlattenSeq([i \in DOMAIN messages |-> <<NL>> \o messages[i]]))
LinesFit(text) ==
  \A i \in 1..Len(text) - MaxLen + 1 : \E k \in i..i + MaxLen - 1 : text[k] = NL
WithoutLast(text) ==
  IF text # << >> /\ Last(text) = NL THEN Front(text) ELSE text
Shows(shown, text) ==
  /\ Len(shown) <= Len(text)
  /\ \A i \in 1..Len(shown) :
        shown[i] = text[i] \/ (shown[i] = "lost" /\ text[i] \in {"lead", "trail"})

AnswersWhole ==
  \A t \in DOMAIN turns :
    LET answer == turns[t].answer
        posted == FlattenSeq(pieces[t])
    IN /\ \A i \in DOMAIN pieces[t] : Len(pieces[t][i]) \in 1..MaxLen
       /\ Shows(Text(posted), Text(answer))
       /\ t \in complete =>
            /\ Len(Text(posted)) = Len(Text(answer))
            /\ LinesFit(answer) => Joined(pieces[t]) \in {answer, WithoutLast(answer)}

(* A job that began to deliver was to announce its answer, found what      *)
(* notifyOnlyIf asks for and did so outside its quiet hours, which are the *)
(* hours reached from "from" before "to", over midnight where needed       *)
(* (runJob, isQuietHour: a range over midnight is supported, model.go:42). *)
QuietHours(quiet) ==
  {(quiet.from + k) % HoursADay : k \in 0..((quiet.to - quiet.from) % HoursADay) - 1}

JobsSpeakInTime ==
  \A t \in DOMAIN turns : turns[t].who # Chat /\ pieces[t] # << >> =>
    LET job == Definition[turns[t].who]
    IN /\ job.announce
       /\ job.onlyIf => "!" \in Range(turns[t].answer)
       /\ turns[t].at % HoursADay \notin QuietHours(job.quiet)
=============================================================================
