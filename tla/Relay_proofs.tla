---------------------------- MODULE Relay_proofs ----------------------------
(***************************************************************************)
(* Proofs about Relay: the types of its state, what jobs say and when, the *)
(* daily files and the current file of the conversation memory, and the    *)
(* messages an answer is posted in.  They hold for every number of         *)
(* goroutines, jobs, turns and failures, and answers of any length.        *)
(***************************************************************************)
EXTENDS Relay, SequenceTheorems, FiniteSetTheorems, WellFoundedInduction, TLAPS

-----------------------------------------------------------------------------
(* Sequences.  The provers do not find the set a sequence is over, so the lemmas speak *)
(* of sequences over everything that the module has sequences of.                      *)
Elements == Lines \cup Alphabet \cup Nat \cup Seq(Alphabet)

\* A set of naturals with 0 and with the successors of its elements has all of them:
\* the least number it lacks would be the successor of one it has.
LEMMA SetInduction ==
  ASSUME NEW S \in SUBSET Nat, 0 \in S, \A n \in S : n + 1 \in S
  PROVE  S = Nat
<1> DEFINE R == {p \in Nat \X Nat : p[1] < p[2]}
           T == Nat \ S
<1>1. IsWellFoundedOn(R, Nat)
  <2>1. R = OpToRel(<, Nat)
    BY DEF OpToRel
  <2> QED
    BY <2>1, NatLessThanWellFounded
<1>2. CASE T # {}
  <2>1. PICK x \in T : \A y \in T : ~ (<<y, x>> \in R)
    <3> HIDE DEF R
    <3> QED
      BY <1>1, <1>2, WFMin
  <2>2. x \in Nat /\ x # 0 /\ x - 1 \in Nat
    OBVIOUS
  <2>3. x - 1 \in T
    BY <2>2
  <2>4. <<x - 1, x>> \in R
    BY <2>2
  <2> QED
    BY <2>1, <2>3, <2>4
<1> QED
  BY <1>2

\* f takes the steps of Selected(s, S) up to the m-th element.
Keeps(s, S, f, m) ==
  /\ DOMAIN f = 0..m /\ f[0] = << >>
  /\ \A n \in 1..m : f[n] = IF s[n] \in S THEN Append(f[n - 1], s[n]) ELSE f[n - 1]

LEMMA KeptExists ==
  ASSUME NEW s \in Seq(Elements), NEW S
  PROVE  \E f : f \in [0..Len(s) -> Seq(Elements)] /\ Keeps(s, S, f, Len(s))
<1> DEFINE U == {m \in Nat : m <= Len(s) =>
                   \E f : f \in [0..m -> Seq(Elements)] /\ Keeps(s, S, f, m)}
<1>1. 0 \in U
  <2> DEFINE f == [n \in 0..0 |-> << >>]
  <2>1. f \in [0..0 -> Seq(Elements)] /\ Keeps(s, S, f, 0)
    BY DEF Keeps
  <2> QED
    BY <2>1
<1>2. ASSUME NEW m \in U, m + 1 <= Len(s)
      PROVE  \E f : f \in [0..m + 1 -> Seq(Elements)] /\ Keeps(s, S, f, m + 1)
  <2>1. PICK g : g \in [0..m -> Seq(Elements)] /\ Keeps(s, S, g, m)
    BY <1>2
  <2> DEFINE last == IF s[m + 1] \in S THEN Append(g[m], s[m + 1]) ELSE g[m]
             f == [n \in 0..m + 1 |-> IF n = m + 1 THEN last ELSE g[n]]
  <2>2. last \in Seq(Elements)
    BY <1>2, <2>1
  <2>3. f \in [0..m + 1 -> Seq(Elements)]
    BY <2>1, <2>2
  <2>4. ASSUME NEW n \in 1..m + 1
        PROVE  f[n] = IF s[n] \in S THEN Append(f[n - 1], s[n]) ELSE f[n - 1]
    <3>1. CASE n = m + 1
      <4>1. f[n] = last /\ f[n - 1] = g[m]
        BY <3>1
      <4> QED
        BY <3>1, <4>1
    <3>2. CASE n \in 1..m
      <4>1. f[n] = g[n] /\ f[n - 1] = g[n - 1]
        BY <3>2
      <4> QED
        BY <2>1, <3>2, <4>1 DEF Keeps
    <3> QED
      BY <3>1, <3>2
  <2>5. DOMAIN f = 0..m + 1 /\ f[0] = << >>
    BY <2>1 DEF Keeps
  <2>6. Keeps(s, S, f, m + 1)
    <3> HIDE DEF f
    <3> QED
      BY <2>4, <2>5 DEF Keeps
  <2> QED
    BY <2>3, <2>6
<1>3. U = Nat
  <2> HIDE DEF U
  <2>1. \A m \in U : m + 1 \in U
    BY <1>2 DEF U
  <2>2. U \in SUBSET Nat
    BY DEF U
  <2> QED
    BY <1>1, <2>1, <2>2, SetInduction
<1> QED
  BY <1>3

\* Two functions that take the same steps are equal as far as both go.
LEMMA KeptUnique ==
  ASSUME NEW s, NEW t, NEW S, NEW f, NEW g, NEW j \in Nat, NEW k \in Nat, j <= k,
         Keeps(s, S, f, j), Keeps(t, S, g, k), \A n \in 1..j : s[n] = t[n]
  PROVE  f[j] = g[j]
<1> DEFINE U == {m \in Nat : m <= j => f[m] = g[m]}
<1>1. 0 \in U
  BY DEF Keeps
<1>2. ASSUME NEW m \in U PROVE m + 1 \in U
  <2> SUFFICES ASSUME m + 1 <= j PROVE f[m + 1] = g[m + 1]
    OBVIOUS
  <2>1. f[m] = g[m] /\ m + 1 \in 1..j /\ m + 1 \in 1..k /\ s[m + 1] = t[m + 1]
    OBVIOUS
  <2>2. (m + 1) - 1 = m
    OBVIOUS
  <2> QED
    BY <2>1, <2>2 DEF Keeps
<1>3. U = Nat
  <2> HIDE DEF U
  <2>1. U \in SUBSET Nat
    BY DEF U
  <2> QED
    BY <1>1, <1>2, <2>1, SetInduction
<1> QED
  BY <1>3

LEMMA SelectedSteps ==
  ASSUME NEW s \in Seq(Elements), NEW S
  PROVE  \E f : /\ f \in [0..Len(s) -> Seq(Elements)] /\ Keeps(s, S, f, Len(s))
                /\ Selected(s, S) = f[Len(s)]
<1> DEFINE g == CHOOSE h : h = [n \in 0..Len(s) |-> IF n = 0 THEN << >>
                  ELSE IF s[n] \in S THEN Append(h[n - 1], s[n]) ELSE h[n - 1]]
<1>1. Selected(s, S) = g[Len(s)]
  BY Zenon DEF Selected
<1>2. PICK f : f \in [0..Len(s) -> Seq(Elements)] /\ Keeps(s, S, f, Len(s))
  BY KeptExists
<1>3. f = [n \in 0..Len(s) |-> IF n = 0 THEN << >>
            ELSE IF s[n] \in S THEN Append(f[n - 1], s[n]) ELSE f[n - 1]]
  <2>1. ASSUME NEW n \in 0..Len(s)
        PROVE  f[n] = IF n = 0 THEN << >>
                      ELSE IF s[n] \in S THEN Append(f[n - 1], s[n]) ELSE f[n - 1]
    <3>1. CASE n = 0
      BY Zenon, <1>2, <3>1 DEF Keeps
    <3>2. CASE n # 0
      <4>1. n \in 1..Len(s)
        BY <3>2
      <4> QED
        BY Zenon, <1>2, <3>2, <4>1 DEF Keeps
    <3> QED
      BY <3>1, <3>2
  <2> QED
    BY <1>2, <2>1
<1>4. g = [n \in 0..Len(s) |-> IF n = 0 THEN << >>
            ELSE IF s[n] \in S THEN Append(g[n - 1], s[n]) ELSE g[n - 1]]
  BY Zenon, <1>3
<1> HIDE DEF g
<1>5. Keeps(s, S, g, Len(s))
  <2>1. DOMAIN g = 0..Len(s)
    BY <1>4
  <2>2. ASSUME NEW n \in 0..Len(s)
        PROVE  g[n] = IF n = 0 THEN << >>
                      ELSE IF s[n] \in S THEN Append(g[n - 1], s[n]) ELSE g[n - 1]
    BY Zenon, <1>4
  <2>3. g[0] = << >>
    BY <2>2
  <2>4. ASSUME NEW n \in 1..Len(s)
        PROVE  g[n] = IF s[n] \in S THEN Append(g[n - 1], s[n]) ELSE g[n - 1]
    <3>1. n \in 0..Len(s) /\ n # 0
      OBVIOUS
    <3> QED
      BY Zenon, <2>2, <3>1
  <2> QED
    BY Zenon, <2>1, <2>3, <2>4 DEF Keeps
<1>6. f[Len(s)] = g[Len(s)]
  BY <1>2, <1>5, KeptUnique
<1> QED
  BY <1>1, <1>2, <1>6

\* Likewise a set of sequences with the empty one that is closed under Append.
LEMMA SequenceInduction ==
  ASSUME NEW P \in SUBSET Seq(Elements), << >> \in P,
         \A u \in P : \A e \in Elements : Append(u, e) \in P
  PROVE  P = Seq(Elements)
<1> DEFINE U == {n \in Nat : \A s \in Seq(Elements) : Len(s) = n => s \in P}
<1>1. 0 \in U
  BY EmptySeq
<1>2. ASSUME NEW n \in U PROVE n + 1 \in U
  <2> SUFFICES ASSUME NEW s \in Seq(Elements), Len(s) = n + 1 PROVE s \in P
    OBVIOUS
  <2>0. s # << >>
    BY EmptySeq
  <2>1. PICK u \in Seq(Elements), e \in Elements : s = Append(u, e)
    BY Zenon, <2>0, SequenceEmptyOrAppend
  <2>2. Len(u) = n
    BY <2>1, AppendProperties, LenProperties
  <2> QED
    BY <2>1, <2>2
<1>3. U = Nat
  <2> HIDE DEF U
  <2>1. U \in SUBSET Nat
    BY DEF U
  <2> QED
    BY <1>1, <1>2, <2>1, SetInduction
<1>4. \A s \in Seq(Elements) : Len(s) \in U
  BY <1>3, LenProperties
<1> QED
  BY <1>4

LEMMA SelectedNone ==
  ASSUME NEW S
  PROVE  Selected(<< >>, S) = << >>
<1>1. PICK z \in Seq(Elements) : z = << >> /\ Len(z) = 0
  BY EmptySeq
<1>2. PICK f : Keeps(z, S, f, Len(z)) /\ Selected(z, S) = f[Len(z)]
  BY SelectedSteps
<1> QED
  BY <1>1, <1>2 DEF Keeps

LEMMA SelectedOneMore ==
  ASSUME NEW s \in Seq(Elements), NEW e \in Elements, NEW S
  PROVE  Selected(Append(s, e), S) =
           IF e \in S THEN Append(Selected(s, S), e) ELSE Selected(s, S)
<1> DEFINE t == Append(s, e)
<1>1. t \in Seq(Elements) /\ Len(t) = Len(s) + 1 /\ t[Len(s) + 1] = e
      /\ \A n \in 1..Len(s) : s[n] = t[n]
  OBVIOUS
<1>2. Len(s) \in Nat /\ Len(s) <= Len(t) /\ Len(t) \in Nat
  OBVIOUS
<1>3. PICK f : Keeps(s, S, f, Len(s)) /\ Selected(s, S) = f[Len(s)]
  BY SelectedSteps
<1> HIDE DEF t
<1>4. PICK g : Keeps(t, S, g, Len(t)) /\ Selected(t, S) = g[Len(t)]
  BY <1>1, SelectedSteps
<1>5. f[Len(s)] = g[Len(s)]
  <2> DEFINE j == Len(s)
             k == Len(t)
  <2>1. j \in Nat /\ k \in Nat /\ j <= k /\ (\A n \in 1..j : s[n] = t[n])
    BY <1>1, <1>2
  <2>2. Keeps(s, S, f, j) /\ Keeps(t, S, g, k)
    BY <1>3, <1>4
  <2> HIDE DEF j, k
  <2>3. f[j] = g[j]
    BY <2>1, <2>2, KeptUnique
  <2> QED
    BY <2>3 DEF j
<1>6. Len(t) \in 1..Len(t) /\ Len(t) - 1 = Len(s)
  BY <1>1, <1>2
<1>7. g[Len(t)] = IF t[Len(t)] \in S THEN Append(g[Len(t) - 1], t[Len(t)]) ELSE g[Len(t) - 1]
  BY Zenon, <1>4, <1>6 DEF Keeps
<1>8. Selected(t, S) = IF e \in S THEN Append(g[Len(s)], e) ELSE g[Len(s)]
  BY Zenon, <1>1, <1>4, <1>6, <1>7
<1> QED
  BY Zenon, <1>3, <1>5, <1>8 DEF t

LEMMA SelectedType ==
  ASSUME NEW s \in Seq(Elements), NEW S
  PROVE  Selected(s, S) \in Seq(Elements \cap S)
<1> DEFINE P == {u \in Seq(Elements) : Selected(u, S) \in Seq(Elements \cap S)}
<1>1. << >> \in P
  BY SelectedNone, EmptySeq
<1>2. ASSUME NEW u \in P, NEW e \in Elements PROVE Append(u, e) \in P
  <2>1. u \in Seq(Elements) /\ Selected(u, S) \in Seq(Elements \cap S)
    OBVIOUS
  <2>2. Selected(Append(u, e), S) \in {Selected(u, S), Append(Selected(u, S), e)}
        /\ (e \notin S => Selected(Append(u, e), S) = Selected(u, S))
    BY <2>1, SelectedOneMore
  <2>3. Append(u, e) \in Seq(Elements)
    BY <2>1
  <2>4. Selected(Append(u, e), S) \in Seq(Elements \cap S)
    BY <2>1, <2>2
  <2> QED
    BY <2>3, <2>4
<1>3. P = Seq(Elements)
  <2> HIDE DEF P
  <2>1. P \in SUBSET Seq(Elements)
    BY DEF P
  <2> QED
    BY <1>1, <1>2, <2>1, SequenceInduction
<1> QED
  BY <1>3

LEMMA SelectedIsSeq ==
  ASSUME NEW s \in Seq(Elements), NEW S
  PROVE  Selected(s, S) \in Seq(Elements)
<1>1. Selected(s, S) \in Seq(Elements \cap S) /\ Elements \cap S \subseteq Elements
  BY SelectedType
<1> QED
  BY <1>1, SeqMonotonic

LEMMA AppendToConcat ==
  ASSUME NEW s \in Seq(Elements), NEW u \in Seq(Elements), NEW e \in Elements
  PROVE  s \o u \in Seq(Elements) /\ s \o Append(u, e) = Append(s \o u, e)
<1>1. s \o u \in Seq(Elements) /\ <<e>> \in Seq(Elements)
  BY ConcatProperties
<1> QED
  BY <1>1, AppendIsConcat, ConcatAssociative

LEMMA SelectedConcat ==
  ASSUME NEW s \in Seq(Elements), NEW t \in Seq(Elements), NEW S
  PROVE  Selected(s \o t, S) = Selected(s, S) \o Selected(t, S)
<1>0. Selected(s, S) \in Seq(Elements)
  BY SelectedIsSeq
<1>1. ASSUME NEW u \in Seq(Elements), NEW e \in Elements,
             Selected(s \o u, S) = Selected(s, S) \o Selected(u, S)
      PROVE  Selected(s \o Append(u, e), S) = Selected(s, S) \o Selected(Append(u, e), S)
  <2> DEFINE a == Selected(s, S)
             b == Selected(u, S)
  <2>1. s \o u \in Seq(Elements) /\ s \o Append(u, e) = Append(s \o u, e)
    BY AppendToConcat
  <2>2. a \in Seq(Elements) /\ b \in Seq(Elements)
    BY SelectedIsSeq
  <2>3. Selected(Append(s \o u, e), S) = IF e \in S THEN Append(a \o b, e) ELSE a \o b
    BY Zenon, <1>1, <2>1, SelectedOneMore
  <2>4. Selected(Append(u, e), S) = IF e \in S THEN Append(b, e) ELSE b
    BY SelectedOneMore
  <2> HIDE DEF a, b
  <2>5. Append(a \o b, e) = a \o Append(b, e)
    BY <2>2, AppendToConcat
  <2> QED
    BY <2>1, <2>3, <2>4, <2>5 DEF a
<1> DEFINE P == {u \in Seq(Elements) : Selected(s \o u, S) = Selected(s, S) \o Selected(u, S)}
<1>2. << >> \in P
  BY <1>0, SelectedNone, ConcatEmptySeq, EmptySeq
<1>3. ASSUME NEW u \in P, NEW e \in Elements PROVE Append(u, e) \in P
  BY <1>1, AppendProperties
<1>4. P = Seq(Elements)
  <2> HIDE DEF P
  <2>1. P \in SUBSET Seq(Elements)
    BY DEF P
  <2> QED
    BY <1>2, <1>3, <2>1, SequenceInduction
<1> QED
  BY <1>4

-----------------------------------------------------------------------------
(* Types.  Each part of IInv speaks of variables that a few actions change together. *)

TurnRecords == [who : Jobs \cup {Chat}, answer : Seq(Alphabet), at : FirstHour..LastHour]
AtMemory == {"stat", "open", "append", "read", "truncate", "write"}
AtJob == {"claude", "check", "deliver"}
PcValues == {"idle", "post"} \cup AtMemory \cup AtJob

FilesTyped ==
  /\ now \in FirstHour..LastHour /\ exists \subseteq Days
  /\ daily \in [Days -> Seq(Turns \cup {Header})]
TurnsTyped ==
  /\ turns \in Seq(TurnRecords) /\ Len(turns) <= MaxTurns
  /\ pieces \in Seq(Seq(Seq(Alphabet))) /\ Len(pieces) = Len(turns)
ControlTyped ==
  /\ pc \in [Workers -> PcValues] /\ turn \in [Workers -> Nat]
  /\ fresh \in [Workers -> BOOLEAN] /\ rest \in [Workers -> Seq(Alphabet)]
  /\ \A w \in Workers : turn[w] <= Len(turns) /\ (pc[w] = "idle" <=> turn[w] = 0)
GhostsTyped ==
  recorded \in Seq(Turns) /\ unwritten \subseteq Turns /\ complete \subseteq Turns

\* What a memory file can hold: no more entries than maxRecent, each of a turn there is.
Holds(m) ==
  /\ m \in Memories /\ Len(m.entries) <= MaxRecent
  /\ \A i \in DOMAIN m.entries : m.entries[i] <= Len(turns)
NoRule(archive) == \A i \in DOMAIN archive : archive[i].kind # "rule"
NoHeadAfterRule(archive) ==
  \A i, j \in DOMAIN archive : i < j /\ archive[i].kind = "rule" => archive[j].kind # "head"
MemoryTyped ==
  /\ seen \in [Workers -> Memories] /\ Holds(current) /\ NoHeadAfterRule(current.archive)
  /\ \A w \in Workers : Holds(seen[w]) /\ NoRule(seen[w].archive)

\* A turn has one worker, and one of the kind its step is for.
Apart == \A v, w \in Workers : v # w /\ turn[v] = turn[w] => turn[w] = 0
Roles ==
  \A w \in Workers :
    /\ pc[w] \in AtMemory => turns[turn[w]].who = Chat
    /\ pc[w] \in AtJob => turns[turn[w]].who \in Jobs

IInv ==
  /\ FilesTyped /\ TurnsTyped /\ ControlTyped /\ GhostsTyped /\ MemoryTyped
  /\ Apart /\ Roles

LEMMA Bounds ==
  /\ MaxTurns \in Nat /\ MaxRecent \in Nat \ {0} /\ MaxLen \in Nat \ {0}
  /\ HoursADay \in Nat \ {0} /\ FirstHour \in Nat /\ LastHour \in Nat
  /\ FirstHour <= LastHour
BY BoundsAreNaturals, SizesArePositive

\* The turn of a worker that has one.
LEMMA TurnOf ==
  ASSUME TurnsTyped, ControlTyped, NEW w \in Workers, pc[w] # "idle"
  PROVE  /\ turn[w] \in DOMAIN turns /\ turn[w] \in Turns /\ DOMAIN turns = 1..Len(turns)
         /\ turns[turn[w]] \in TurnRecords /\ turn[w] # 0
<1>1. turn[w] \in Nat /\ turn[w] # 0 /\ turn[w] <= Len(turns) /\ Len(turns) <= MaxTurns
  BY DEF TurnsTyped, ControlTyped
<1>2. Len(turns) \in Nat /\ DOMAIN turns = 1..Len(turns)
  BY LenProperties DEF TurnsTyped
<1>3. turn[w] \in 1..Len(turns)
  BY <1>1, <1>2
<1> QED
  BY <1>1, <1>2, <1>3, Bounds DEF TurnsTyped, Turns

LEMMA TurnAt ==
  ASSUME TurnsTyped, NEW t \in DOMAIN turns
  PROVE  /\ t \in 1..Len(turns) /\ t \in Turns /\ turns[t] \in TurnRecords
         /\ pieces[t] \in Seq(Seq(Alphabet))
<1>1. t \in 1..Len(turns) /\ Len(turns) \in Nat /\ Len(pieces) = Len(turns)
  BY LenProperties DEF TurnsTyped
<1> QED
  BY <1>1, Bounds DEF TurnsTyped, Turns

LEMMA DayIsDay ==
  ASSUME NEW t, turns[t] \in TurnRecords
  PROVE  DayOf(t) \in Days
<1>1. ASSUME NEW n \in Nat, NEW m \in Nat, NEW h \in Nat \ {0}, n <= m
      PROVE  n \div h \in 0..(m \div h)
  BY <1>1
<1>2. turns[t].at \in Nat /\ turns[t].at <= LastHour
  BY Bounds DEF TurnRecords
<1> QED
  BY <1>1, <1>2, Bounds DEF DayOf, Days

\* A set of naturals has a least element, and one that is bounded has a greatest.
LEMMA MinIs ==
  ASSUME NEW S \in SUBSET Nat, S # {}
  PROVE  Min(S) \in S /\ \A x \in S : Min(S) <= x
<1> DEFINE U == {n \in Nat : \A x \in S : x >= n}
<1>1. \E m \in S : \A x \in S : m <= x
  <2> SUFFICES ASSUME \A m \in S : \E x \in S : x < m PROVE FALSE
    OBVIOUS
  <2>1. 0 \in U
    OBVIOUS
  <2>2. ASSUME NEW n \in U PROVE n + 1 \in U
    <3>1. \A x \in S : x >= n /\ x # n
      OBVIOUS
    <3> QED
      BY <3>1
  <2>3. U = Nat
    <3> HIDE DEF U
    <3>1. U \in SUBSET Nat
      BY DEF U
    <3> QED
      BY <2>1, <2>2, <3>1, SetInduction
  <2>4. PICK x \in S : TRUE
    OBVIOUS
  <2>5. x + 1 \in U
    BY <2>3
  <2> QED
    BY <2>5
<1> QED
  BY <1>1, Zenon DEF Min

LEMMA MaxIs ==
  ASSUME NEW n \in Nat, NEW S \in SUBSET (0..n), S # {}
  PROVE  Max(S) \in S /\ \A x \in S : x <= Max(S)
<1> DEFINE R == {n - x : x \in S}
<1>1. R \in SUBSET Nat /\ R # {}
  OBVIOUS
<1>2. PICK m \in R : \A x \in R : m <= x
  <2> HIDE DEF R
  <2> QED
    BY <1>1, MinIs
<1>3. n - m \in S /\ \A x \in S : x <= n - m
  <2>1. PICK y \in S : m = n - y
    BY <1>2
  <2>2. \A x \in S : n - x \in R
    OBVIOUS
  <2> QED
    BY <1>2, <2>1, <2>2
<1>4. \E m1 \in S : \A x \in S : m1 >= x
  BY <1>3
<1>5. Max(S) \in S /\ \A x \in S : Max(S) >= x
  BY Zenon, <1>4 DEF Max
<1> QED
  BY <1>5

\* Selecting twice is selecting once, if the second set is part of the first.
LEMMA SelectedTwice ==
  ASSUME NEW s \in Seq(Elements), NEW S, NEW R, R \subseteq S
  PROVE  Selected(Selected(s, S), R) = Selected(s, R)
<1>1. ASSUME NEW u \in Seq(Elements), NEW e \in Elements,
             Selected(Selected(u, S), R) = Selected(u, R)
      PROVE  Selected(Selected(Append(u, e), S), R) = Selected(Append(u, e), R)
  <2> DEFINE a == Selected(u, S)
  <2>1. a \in Seq(Elements)
    BY SelectedIsSeq
  <2>2. Selected(Append(u, e), R) = IF e \in R THEN Append(Selected(u, R), e) ELSE Selected(u, R)
    BY SelectedOneMore
  <2>3. Selected(Append(u, e), S) = IF e \in S THEN Append(a, e) ELSE a
    BY SelectedOneMore
  <2>4. Selected(a, R) = Selected(u, R)
    BY <1>1
  <2> HIDE DEF a
  <2>5. Selected(Append(a, e), R) = IF e \in R THEN Append(Selected(a, R), e) ELSE Selected(a, R)
    BY <2>1, SelectedOneMore
  <2> QED
    BY Zenon, <2>2, <2>3, <2>4, <2>5
<1> DEFINE P == {u \in Seq(Elements) : Selected(Selected(u, S), R) = Selected(u, R)}
<1>2. << >> \in P
  BY SelectedNone, EmptySeq
<1>3. ASSUME NEW u \in P, NEW e \in Elements PROVE Append(u, e) \in P
  BY <1>1, AppendProperties
<1>4. P = Seq(Elements)
  <2> HIDE DEF P
  <2>1. P \in SUBSET Seq(Elements)
    BY DEF P
  <2> QED
    BY <1>2, <1>3, <2>1, SequenceInduction
<1> QED
  BY <1>4

LEMMA SelectedNothing ==
  ASSUME NEW s \in Seq(Elements), NEW S, \A i \in 1..Len(s) : s[i] \notin S
  PROVE  Selected(s, S) = << >>
<1>1. ASSUME NEW u \in Seq(Elements), NEW e \in Elements,
             (\A i \in 1..Len(u) : u[i] \notin S) => Selected(u, S) = << >>,
             \A i \in 1..Len(Append(u, e)) : Append(u, e)[i] \notin S
      PROVE  Selected(Append(u, e), S) = << >>
  <2>1. Selected(Append(u, e), S) = IF e \in S THEN Append(Selected(u, S), e) ELSE Selected(u, S)
    BY SelectedOneMore
  <2>2. e \notin S /\ \A i \in 1..Len(u) : u[i] \notin S
    BY <1>1, AppendProperties, LenProperties
  <2> QED
    BY <1>1, <2>1, <2>2
<1> DEFINE P == {u \in Seq(Elements) :
                   (\A i \in 1..Len(u) : u[i] \notin S) => Selected(u, S) = << >>}
<1>2. << >> \in P
  BY SelectedNone, EmptySeq
<1>3. ASSUME NEW u \in P, NEW e \in Elements PROVE Append(u, e) \in P
  BY <1>1, AppendProperties
<1>4. P = Seq(Elements)
  <2> HIDE DEF P
  <2>1. P \in SUBSET Seq(Elements)
    BY DEF P
  <2> QED
    BY <1>2, <1>3, <2>1, SequenceInduction
<1> QED
  BY <1>4

LEMMA LinesAreElements ==
  ASSUME NEW s \in Seq(Lines)
  PROVE  s \in Seq(Elements)
<1>1. Lines \subseteq Elements
  BY DEF Elements
<1> QED
  BY <1>1, SeqMonotonic

\* A line of the archive per turn: its first one is the turn's, none of the others is.
LEMMA ArchiveLineIs ==
  ASSUME TurnsTyped, NEW t \in DOMAIN turns
  PROVE  \E l \in Seq(Lines) :
           /\ \A i \in 1..Len(l) : l[i].kind # "head"
           /\ ArchiveLine(t) = <<[turn |-> t, kind |-> "head"]>> \o l
<1> DEFINE a == turns[t].answer
           s == [i \in 1..Len(a) |-> i]
           newlines == Selected(s, {i \in 1..Len(a) : a[i] = NL})
           kind(i) == CASE i < Len(a) /\ a[i + 1] = "-" -> "item"
                        [] i < Len(a) /\ a[i + 1] = "=" -> "rule"
                        [] OTHER -> "text"
           l == [k \in DOMAIN newlines |-> [turn |-> t, kind |-> kind(newlines[k])]]
<1>1. ArchiveLine(t) = <<[turn |-> t, kind |-> "head"]>> \o l
  BY Zenon DEF ArchiveLine
<1>2. Len(a) \in Nat /\ t \in Turns
  BY TurnAt, LenProperties DEF TurnRecords
<1>3. newlines \in Seq(Elements)
  <2>1. s \in Seq(Nat) /\ Nat \subseteq Elements
    BY <1>2 DEF Elements
  <2>2. s \in Seq(Elements)
    <3> HIDE DEF s
    <3> QED
      BY <2>1, SeqMonotonic
  <2> HIDE DEF s
  <2> QED
    BY <2>2, SelectedIsSeq
<1>4. \A i : kind(i) \in {"item", "rule", "text"}
  OBVIOUS
<1> HIDE DEF newlines, kind
<1>5. DOMAIN newlines = 1..Len(newlines) /\ Len(newlines) \in Nat
  BY <1>3, LenProperties
<1>6. \A k \in DOMAIN newlines : l[k] \in Lines /\ l[k].kind # "head"
  BY <1>2, <1>4 DEF Lines
<1>7. l \in Seq(Lines) /\ Len(l) = Len(newlines)
  BY <1>5, <1>6
<1> QED
  BY <1>1, <1>5, <1>6, <1>7

\* parseCurrent keeps the entries, and of the archive what is no rule and no other text.
\* Where no turn's line comes after a rule, no turn is lost.

LEMMA BulletsSelected ==
  ASSUME NEW s \in Seq(Lines)
  PROVE  /\ Selected(s, Bullets) \in Seq(Lines)
         /\ NoRule(Selected(s, Bullets))
         /\ Selected(Selected(s, Bullets), Heads) = Selected(s, Heads)
<1>1. Heads \subseteq Bullets
  BY DEF Heads, Bullets
<1>2. s \in Seq(Elements)
  BY LinesAreElements
<1>3. Selected(s, Bullets) \in Seq(Elements \cap Bullets)
  BY <1>2, SelectedType
<1>4. Elements \cap Bullets \subseteq Bullets /\ Bullets \subseteq Lines
  BY DEF Bullets
<1>5. Selected(s, Bullets) \in Seq(Bullets)
  BY <1>3, <1>4, SeqMonotonic
<1>6. Selected(s, Bullets) \in Seq(Lines)
  BY <1>4, <1>5, SeqMonotonic
<1>7. \A i \in DOMAIN Selected(s, Bullets) : Selected(s, Bullets)[i] \in Bullets
  <2> DEFINE b == Selected(s, Bullets)
  <2>1. b \in Seq(Bullets)
    BY <1>5
  <2> HIDE DEF b
  <2>2. \A i \in DOMAIN b : b[i] \in Bullets
    BY <2>1, LenProperties
  <2> QED
    BY <2>2 DEF b
<1>8. Selected(Selected(s, Bullets), Heads) = Selected(s, Heads)
  BY <1>1, <1>2, SelectedTwice
<1> QED
  BY <1>6, <1>7, <1>8 DEF Bullets, NoRule

LEMMA CutAtRule ==
  ASSUME NEW a \in Seq(Lines), NEW n \in 1..Len(a), a[n].kind = "rule"
  PROVE  /\ SubSeq(a, 1, n - 1) \in Seq(Lines)
         /\ NoHeadAfterRule(a) => Selected(SubSeq(a, 1, n - 1), Heads) = Selected(a, Heads)
<1> DEFINE p == SubSeq(a, 1, n - 1)
           q == SubSeq(a, n, Len(a))
<1>0. n \in Nat /\ Len(a) \in Nat /\ DOMAIN a = 1..Len(a) /\ \A i \in 1..Len(a) : a[i] \in Lines
  BY LenProperties, ElementOfSeq
<1>1. p \in Seq(Lines) /\ q \in Seq(Lines) /\ Len(q) = Len(a) - n + 1
      /\ \A i \in 1..Len(q) : q[i] = a[n + i - 1]
  <2>1. p \in Seq(Lines)
    BY <1>0, SubSeqProperties
  <2>2. q \in Seq(Lines) /\ Len(q) = Len(a) - n + 1 /\ \A i \in 1..Len(q) : q[i] = a[n + i - 1]
    BY <1>0
  <2> QED
    BY <2>1, <2>2
<1>2. a = p \o q
  <2>1. a \in Seq(Lines) /\ 1 \in 1..Len(a) + 1 /\ n - 1 \in 0..Len(a) /\ Len(a) \in n - 1..Len(a)
    BY <1>0
  <2>2. SubSeq(a, 1, n - 1) \o SubSeq(a, (n - 1) + 1, Len(a)) = SubSeq(a, 1, Len(a))
    BY <2>1, ConcatAdjacentSubSeq
  <2>3. (n - 1) + 1 = n
    BY <1>0
  <2> QED
    BY <2>2, <2>3, SubSeqFull
<1>3. ASSUME NoHeadAfterRule(a)
      PROVE  \A i \in 1..Len(q) : q[i] \notin Heads
  <2> SUFFICES ASSUME NEW i \in 1..Len(q) PROVE a[n + i - 1].kind # "head"
    BY <1>1 DEF Heads
  <2>1. i = 1 \/ n < n + i - 1
    BY <1>0, <1>1
  <2>2. n + i - 1 \in DOMAIN a /\ n \in DOMAIN a
    BY <1>0, <1>1
  <2> QED
    BY <1>0, <1>3, <2>1, <2>2 DEF NoHeadAfterRule
<1> HIDE DEF p, q
<1>4. p \in Seq(Elements) /\ q \in Seq(Elements)
  BY <1>1, LinesAreElements
<1>5. Selected(a, Heads) = Selected(p, Heads) \o Selected(q, Heads)
  BY <1>2, <1>4, SelectedConcat
<1>6. ASSUME NoHeadAfterRule(a)
      PROVE  Selected(a, Heads) = Selected(p, Heads)
  <2>1. Selected(q, Heads) = << >>
    BY <1>3, <1>4, <1>6, SelectedNothing
  <2>2. Selected(p, Heads) \in Seq(Elements)
    BY <1>4, SelectedIsSeq
  <2>3. Selected(p, Heads) \o << >> = Selected(p, Heads)
    BY <2>2, ConcatEmptySeq
  <2> QED
    BY <1>5, <2>1, <2>3
<1> QED
  BY <1>1, <1>6 DEF p

LEMMA ParsedIs ==
  ASSUME NEW m \in Memories
  PROVE  /\ Parsed(m) \in Memories /\ Parsed(m).entries = m.entries
         /\ NoRule(Parsed(m).archive)
         /\ NoHeadAfterRule(m.archive) => HeadsOf(Parsed(m).archive) = HeadsOf(m.archive)
<1> DEFINE a == m.archive
           rules == {i \in DOMAIN a : a[i].kind = "rule"}
           lines == IF rules = {} THEN a ELSE SubSeq(a, 1, Min(rules) - 1)
<1>1. Parsed(m) = [m EXCEPT !.archive = Selected(lines, Bullets)]
  BY Zenon DEF Parsed
<1>2. a \in Seq(Lines) /\ m.entries \in Seq(Turns)
  BY DEF Memories
<1>3. lines \in Seq(Lines)
      /\ (NoHeadAfterRule(a) => Selected(lines, Heads) = Selected(a, Heads))
  <2>1. CASE rules = {}
    BY <1>2, <2>1
  <2>2. CASE rules # {}
    <3>1. rules \in SUBSET Nat
      BY <1>2
    <3>2. Min(rules) \in rules
      <4> HIDE DEF rules
      <4> QED
        BY <2>2, <3>1, MinIs
    <3>3. PICK n \in 1..Len(a) : n = Min(rules) /\ a[n].kind = "rule"
      <4>1. DOMAIN a = 1..Len(a)
        BY <1>2, LenProperties
      <4>2. Min(rules) \in DOMAIN a /\ a[Min(rules)].kind = "rule"
        BY Zenon, <3>2
      <4> HIDE DEF rules, a
      <4> QED
        BY <4>1, <4>2
    <3>4. lines = SubSeq(a, 1, n - 1)
      BY <2>2, <3>3
    <3> HIDE DEF lines, rules, a
    <3> QED
      BY <1>2, <3>3, <3>4, CutAtRule
  <2> QED
    BY <2>1, <2>2
<1> DEFINE b == Selected(lines, Bullets)
<1> HIDE DEF lines
<1>4. /\ b \in Seq(Lines) /\ NoRule(b)
      /\ Selected(b, Heads) = Selected(lines, Heads)
  BY <1>3, BulletsSelected
<1>5. Parsed(m) \in Memories /\ Parsed(m).entries = m.entries /\ Parsed(m).archive = b
  BY <1>1, <1>2, <1>4 DEF Memories
<1> HIDE DEF b
<1> QED
  BY <1>3, <1>4, <1>5 DEF HeadsOf

\* updateCurrent on what holds no rule: the turns on record move on by one, the first of
\* them into the archive once there are maxRecent of them.
LEMMA HeadsAdded ==
  ASSUME TurnsTyped, NEW a \in Seq(Lines), NEW t \in DOMAIN turns,
         NoRule(a)
  PROVE  /\ a \o ArchiveLine(t) \in Seq(Lines) /\ NoHeadAfterRule(a \o ArchiveLine(t))
         /\ HeadsOf(a \o ArchiveLine(t)) = Append(HeadsOf(a), t)
<1> DEFINE h == [turn |-> t, kind |-> "head"]
<1>1. PICK l \in Seq(Lines) :
        (\A i \in 1..Len(l) : l[i].kind # "head") /\ ArchiveLine(t) = <<h>> \o l
  BY ArchiveLineIs
<1>2. h \in Lines /\ h \in Heads /\ h.turn = t /\ h.kind = "head"
  BY TurnAt DEF Lines, Heads
<1> HIDE DEF h
<1>3. <<h>> \in Seq(Lines)
  BY <1>2
<1>4. /\ a \in Seq(Elements) /\ l \in Seq(Elements) /\ <<h>> \in Seq(Elements)
      /\ << >> \in Seq(Elements) /\ h \in Elements
  BY <1>2, <1>3, LinesAreElements, EmptySeq DEF Elements
<1>5. a \o ArchiveLine(t) = (a \o <<h>>) \o l
  BY <1>1, <1>3, ConcatAssociative
<1>6. a \o <<h>> = Append(a, h) /\ Append(a, h) \in Seq(Lines)
      /\ Append(a, h) \in Seq(Elements)
  BY <1>2, AppendIsConcat, AppendProperties, LinesAreElements
<1>7. Append(a, h) \o l \in Seq(Lines)
  BY <1>6, ConcatProperties
<1>8. Selected(Append(a, h) \o l, Heads) = Append(Selected(a, Heads), h)
  <2>1. Selected(Append(a, h), Heads) = Append(Selected(a, Heads), h)
    BY <1>2, <1>4, SelectedOneMore
  <2>2. Selected(l, Heads) = << >>
    BY <1>1, <1>4, SelectedNothing DEF Heads
  <2>3. Selected(Append(a, h) \o l, Heads) = Append(Selected(a, Heads), h) \o << >>
    <3>1. PICK x \in Seq(Elements) : x = Append(a, h)
      BY <1>6
    <3>2. Selected(x \o l, Heads) = Selected(x, Heads) \o Selected(l, Heads)
      BY <1>4, SelectedConcat
    <3> QED
      BY <2>1, <2>2, <3>1, <3>2
  <2>4. Append(Selected(a, Heads), h) \in Seq(Elements)
    BY <1>4, SelectedIsSeq, AppendProperties
  <2> QED
    BY <2>3, <2>4, ConcatEmptySeq
<1>9. HeadsOf(Append(a, h) \o l) = Append(HeadsOf(a), t)
  <2> DEFINE s == Selected(a, Heads)
  <2>1. s \in Seq(Elements)
    BY <1>4, SelectedIsSeq
  <2>2. HeadsOf(Append(a, h) \o l) = [i \in DOMAIN Append(s, h) |-> Append(s, h)[i].turn]
    BY <1>8 DEF HeadsOf
  <2>3. HeadsOf(a) = [i \in DOMAIN s |-> s[i].turn]
    BY DEF HeadsOf
  <2> HIDE DEF s
  <2>4. [i \in DOMAIN Append(s, h) |-> Append(s, h)[i].turn]
          = Append([i \in DOMAIN s |-> s[i].turn], t)
    BY <1>2, <2>1
  <2> QED
    BY <2>2, <2>3, <2>4
<1>10. NoHeadAfterRule(Append(a, h) \o l)
  <2> DEFINE b == Append(a, h) \o l
  <2>1. /\ Len(a) \in Nat /\ DOMAIN a = 1..Len(a)
        /\ DOMAIN b = 1..Len(a) + 1 + Len(l) /\ Len(l) \in Nat
        /\ \A i \in 1..Len(a) : b[i] = a[i]
        /\ \A i \in Len(a) + 2..Len(a) + 1 + Len(l) : b[i] = l[i - (Len(a) + 1)]
        /\ b[Len(a) + 1] = h
    <3>1. /\ Len(Append(a, h)) = Len(a) + 1
          /\ \A i \in 1..Len(a) : Append(a, h)[i] = a[i]
          /\ Append(a, h)[Len(a) + 1] = h
      BY <1>2, AppendProperties
    <3>2. Len(a) \in Nat /\ Len(l) \in Nat /\ DOMAIN a = 1..Len(a)
      BY LenProperties
    <3>3. /\ b \in Seq(Lines) /\ Len(b) = Len(a) + 1 + Len(l)
          /\ \A i \in 1..Len(a) + 1 + Len(l) :
               b[i] = IF i <= Len(a) + 1 THEN Append(a, h)[i] ELSE l[i - (Len(a) + 1)]
      BY <1>6, <1>7, <3>1, ConcatProperties
    <3> HIDE DEF b
    <3>4. DOMAIN b = 1..Len(b)
      BY <3>3, LenProperties
    <3> QED
      BY <3>1, <3>2, <3>3, <3>4
  <2> HIDE DEF b
  <2>2. ASSUME NEW i \in DOMAIN b, NEW j \in DOMAIN b, i < j, b[i].kind = "rule"
        PROVE  b[j].kind # "head"
    <3>1. i \notin 1..Len(a)
      BY <2>1, <2>2 DEF NoRule
    <3>2. j \in Len(a) + 2..Len(a) + 1 + Len(l)
      BY <2>1, <2>2, <3>1
    <3>3. j - (Len(a) + 1) \in 1..Len(l)
      BY <2>1, <3>2
    <3> QED
      BY <1>1, <2>1, <3>2, <3>3
  <2> QED
    BY <2>2 DEF NoHeadAfterRule, b
<1> QED
  BY <1>5, <1>6, <1>7, <1>9, <1>10

\* m holds what the turns r, in this order, leave behind.
Remembers(m, r) ==
  LET old == Max({0, Len(r) - MaxRecent})
  IN HeadsOf(m.archive) = SubSeq(r, 1, old) /\ m.entries = SubSeq(r, old + 1, Len(r))

LEMMA OldTurns ==
  ASSUME NEW n \in Nat
  PROVE  Max({0, n - MaxRecent}) = IF n > MaxRecent THEN n - MaxRecent ELSE 0
<1> DEFINE S == {0, n - MaxRecent}
<1>1. n - MaxRecent \in Int
  BY Bounds
<1>2. \E m \in S : \A x \in S : m >= x
  BY <1>1
<1>3. Max(S) \in S /\ \A x \in S : Max(S) >= x
  BY Zenon, <1>2 DEF Max
<1> QED
  BY <1>1, <1>3, Bounds

LEMMA UpdatedIs ==
  ASSUME TurnsTyped, NEW m, Holds(m), NoRule(m.archive),
         NEW t \in DOMAIN turns
  PROVE  /\ Holds(Updated(m, t)) /\ NoHeadAfterRule(Updated(m, t).archive)
         /\ \A r \in Seq(Turns) : Remembers(m, r) => Remembers(Updated(m, t), Append(r, t))
<1> DEFINE a == m.archive
           e == m.entries
           u == Updated(m, t)
<1>0. /\ m = [archive |-> a, entries |-> e] /\ a \in Seq(Lines) /\ e \in Seq(Turns)
      /\ Len(e) \in Nat /\ Len(e) <= MaxRecent /\ \A i \in 1..Len(e) : e[i] <= Len(turns)
  BY LenProperties DEF Holds, Memories
<1>1. t \in Turns /\ t \in 1..Len(turns) /\ t <= Len(turns) /\ Len(turns) \in Nat
      /\ DOMAIN turns = 1..Len(turns)
  BY TurnAt, LenProperties DEF TurnsTyped
<1>2. CASE Len(e) >= MaxRecent
  <2>1. Len(e) = MaxRecent /\ Len(e) \in Nat \ {0} /\ e # << >>
    BY <1>0, <1>2, Bounds, EmptySeq
  <2>2. PICK f \in DOMAIN turns : f = e[1]
    <3>1. e[1] \in Turns /\ e[1] <= Len(turns)
      BY <1>0, <2>1
    <3> QED
      BY <1>1, <3>1 DEF Turns
  <2>3. u = [archive |-> a \o ArchiveLine(f), entries |-> Append(Tail(e), t)]
    BY <1>2, <2>2 DEF Updated
  <2>4. /\ a \o ArchiveLine(f) \in Seq(Lines) /\ NoHeadAfterRule(a \o ArchiveLine(f))
        /\ HeadsOf(a \o ArchiveLine(f)) = Append(HeadsOf(a), f)
    BY <1>0, HeadsAdded
  <2>5. /\ Append(Tail(e), t) \in Seq(Turns) /\ Len(Append(Tail(e), t)) = Len(e)
        /\ \A i \in 1..Len(e) : Append(Tail(e), t)[i] = IF i < Len(e) THEN e[i + 1] ELSE t
    BY <1>0, <1>1, <2>1
  <2>6. Holds(u) /\ NoHeadAfterRule(u.archive)
    <3> DEFINE x == Append(Tail(e), t)
               b == a \o ArchiveLine(f)
    <3>1. b \in Seq(Lines) /\ x \in Seq(Turns) /\ Len(x) <= MaxRecent /\ DOMAIN x = 1..Len(e)
      BY <2>1, <2>4, <2>5, LenProperties, Bounds
    <3>2. \A i \in 1..Len(e) : x[i] <= Len(turns)
      BY <1>0, <1>1, <2>1, <2>5
    <3> HIDE DEF x, b
    <3> QED
      BY <2>3, <2>4, <3>1, <3>2 DEF Holds, Memories, b, x
  <2>7. ASSUME NEW r \in Seq(Turns), Remembers(m, r)
        PROVE  Remembers(u, Append(r, t))
    <3> DEFINE n == Len(r)
               s == Append(r, t)
               old == n - MaxRecent
    <3>1. n \in Nat /\ MaxRecent \in Nat \ {0}
      BY Bounds, LenProperties
    <3>2. n >= MaxRecent /\ HeadsOf(a) = SubSeq(r, 1, old) /\ e = SubSeq(r, old + 1, n)
      <4>1. e = SubSeq(r, (IF n > MaxRecent THEN n - MaxRecent ELSE 0) + 1, n)
            /\ HeadsOf(a) = SubSeq(r, 1, IF n > MaxRecent THEN n - MaxRecent ELSE 0)
        BY <2>7, <3>1, OldTurns DEF Remembers
      <4>2. CASE n > MaxRecent
        BY <3>1, <4>1, <4>2
      <4>3. CASE ~ (n > MaxRecent)
        <5>1. e = SubSeq(r, 1, n)
          BY <4>1, <4>3
        <5>2. Len(e) = n
          BY <5>1, SubSeqFull
        <5>3. n = MaxRecent
          BY <2>1, <5>2
        <5> QED
          BY <3>1, <4>1, <5>1, <5>3
      <4> QED
        BY <4>2, <4>3
    <3>3. /\ s \in Seq(Turns) /\ Len(s) = n + 1 /\ s[n + 1] = t
          /\ \A i \in 1..n : s[i] = r[i] /\ r[i] \in Turns
      BY <1>1, AppendProperties
    <3>4. Max({0, Len(s) - MaxRecent}) = old + 1
      <4>1. PICK k \in Nat : k = Len(s) /\ k = n + 1
        BY <3>1, <3>3
      <4>2. k > MaxRecent /\ k - MaxRecent = old + 1
        BY <3>1, <3>2, <4>1
      <4>3. Max({0, k - MaxRecent}) = k - MaxRecent
        BY <4>2, OldTurns
      <4> HIDE DEF s, old
      <4> QED
        BY <4>1, <4>2, <4>3
    <3>5. Append(HeadsOf(a), f) = SubSeq(s, 1, old + 1)
      <4> DEFINE p == HeadsOf(a)
                 x == Append(p, f)
                 y == SubSeq(s, 1, old + 1)
      <4>1. f = r[old + 1]
        BY <2>2, <3>1, <3>2
      <4>2. old \in Nat /\ old + 1 <= n /\ f \in Turns
        BY <3>1, <3>2, <3>3, <4>1
      <4>3. p \in Seq(Turns) /\ Len(p) = old /\ \A i \in 1..old : p[i] = r[i]
        BY <3>1, <3>2, <3>3, <4>2
      <4> HIDE DEF s, p
      <4>4. /\ x \in Seq(Turns) /\ Len(x) = old + 1 /\ x[old + 1] = f
            /\ \A i \in 1..old : x[i] = p[i]
        BY <4>2, <4>3, AppendProperties
      <4>5. /\ y \in Seq(Turns) /\ Len(y) = old + 1
            /\ \A i \in 1..old + 1 : y[i] = s[i]
        BY <3>3, <4>2
      <4> HIDE DEF x, y
      <4>6. \A i \in 1..old + 1 : x[i] = y[i]
        BY <3>1, <3>3, <4>1, <4>2, <4>3, <4>4, <4>5
      <4>7. x = y
        BY <4>4, <4>5, <4>6, SeqEqual
      <4> QED
        BY <4>7 DEF x, y, p
    <3>6. Append(Tail(e), t) = SubSeq(s, old + 2, n + 1)
      <4> DEFINE x == Append(Tail(e), t)
                 y == SubSeq(s, old + 2, n + 1)
      <4>1. \A i \in 1..MaxRecent - 1 : e[i + 1] = r[old + i + 1]
        BY <3>1, <3>2
      <4> HIDE DEF s
      <4>2. /\ y \in Seq(Turns) /\ Len(y) = MaxRecent
            /\ \A i \in 1..MaxRecent : y[i] = s[old + 1 + i]
        BY <3>1, <3>2, <3>3, <1>1
      <4>3. ASSUME NEW i \in 1..MaxRecent
            PROVE  x[i] = y[i]
        <5>1. x[i] = IF i < MaxRecent THEN e[i + 1] ELSE t
          BY <2>1, <2>5
        <5>2. y[i] = s[old + 1 + i]
          BY <4>2
        <5> HIDE DEF x, y
        <5>3. CASE i < MaxRecent
          <6>1. e[i + 1] = r[old + i + 1]
            BY <3>1, <4>1, <5>3
          <6>2. old + 1 + i \in 1..n /\ old + i + 1 = old + 1 + i
            BY <3>1, <3>2, <5>3
          <6> QED
            BY <3>3, <5>1, <5>2, <5>3, <6>1, <6>2
        <5>4. CASE i = MaxRecent
          <6>1. old + 1 + i = n + 1
            BY <3>1, <5>4
          <6> QED
            BY <3>3, <5>1, <5>2, <5>4, <6>1
        <5> QED
          BY <3>1, <5>3, <5>4
      <4>4. x \in Seq(Turns) /\ Len(x) = MaxRecent
        BY <2>1, <2>5
      <4> HIDE DEF x, y
      <4>5. x = y
        BY <4>2, <4>3, <4>4, SeqEqual
      <4> QED
        BY <4>5 DEF x, y
    <3>7. u.archive = a \o ArchiveLine(f) /\ u.entries = Append(Tail(e), t)
      BY <2>3
    <3>8. HeadsOf(u.archive) = SubSeq(s, 1, old + 1)
      BY <2>4, <3>5, <3>7
    <3>9. (old + 1) + 1 = old + 2
      BY <3>1
    <3> HIDE DEF s, u
    <3> QED
      BY <3>3, <3>4, <3>6, <3>7, <3>8, <3>9 DEF Remembers, s, u
  <2> QED
    BY <2>6, <2>7
<1>3. CASE ~ (Len(e) >= MaxRecent)
  <2>1. u = [archive |-> a, entries |-> Append(e, t)]
    BY <1>0, <1>3 DEF Updated
  <2>2. /\ Append(e, t) \in Seq(Turns) /\ Len(Append(e, t)) <= MaxRecent
        /\ \A i \in DOMAIN Append(e, t) : Append(e, t)[i] <= Len(turns)
    BY <1>0, <1>1, <1>3, Bounds
  <2>3. Holds(u) /\ NoHeadAfterRule(u.archive)
    BY <1>0, <2>1, <2>2 DEF Holds, Memories, NoHeadAfterRule, NoRule
  <2>4. ASSUME NEW r \in Seq(Turns), Remembers(m, r)
        PROVE  Remembers(u, Append(r, t))
    <3> DEFINE n == Len(r)
               s == Append(r, t)
    <3>1. n \in Nat /\ MaxRecent \in Nat \ {0}
      BY Bounds, LenProperties
    <3>2. PICK o \in Nat : /\ o = IF n > MaxRecent THEN n - MaxRecent ELSE 0
                           /\ e = SubSeq(r, o + 1, n) /\ HeadsOf(a) = SubSeq(r, 1, o)
      <4> DEFINE o == IF n > MaxRecent THEN n - MaxRecent ELSE 0
      <4>0. PICK k \in Nat : k = n
        BY <3>1
      <4>1. o \in Nat /\ Max({0, n - MaxRecent}) = o
        <5>1. Max({0, k - MaxRecent}) = IF k > MaxRecent THEN k - MaxRecent ELSE 0
          BY OldTurns
        <5>2. o \in Nat
          BY <3>1
        <5> QED
          BY <4>0, <5>1, <5>2
      <4>2. e = SubSeq(r, o + 1, n) /\ HeadsOf(a) = SubSeq(r, 1, o)
        BY <2>4, <4>1 DEF Remembers
      <4> QED
        BY <4>1, <4>2
    <3>3. n < MaxRecent
      BY <1>3, <3>1, <3>2
    <3>4. e = r /\ HeadsOf(a) = << >>
      <4>0. o = 0 /\ o + 1 = 1
        BY <3>1, <3>2, <3>3
      <4>1. e = SubSeq(r, 1, n) /\ HeadsOf(a) = SubSeq(r, 1, 0)
        BY <3>2, <4>0
      <4>2. SubSeq(r, 1, n) = r /\ SubSeq(r, 1, 0) = << >>
        BY SubSeqFull, SubSeqEmpty
      <4> QED
        BY <4>1, <4>2
    <3>5. s \in Seq(Turns) /\ Len(s) = n + 1
      BY <1>1, AppendProperties
    <3>6. Max({0, Len(s) - MaxRecent}) = 0
      <4>1. PICK k \in Nat : k = Len(s) /\ ~ (k > MaxRecent)
        BY <3>1, <3>3, <3>5
      <4>2. Max({0, k - MaxRecent}) = 0
        BY <4>1, OldTurns
      <4> HIDE DEF s
      <4> QED
        BY <4>1, <4>2
    <3>7. SubSeq(s, 1, Len(s)) = s /\ SubSeq(s, 1, 0) = << >>
      BY <3>5, SubSeqFull, SubSeqEmpty
    <3>8. u.archive = a /\ u.entries = s
      BY <2>1, <3>4
    <3> HIDE DEF s, u, a, e
    <3>9. HeadsOf(u.archive) = SubSeq(s, 1, 0) /\ u.entries = SubSeq(s, 0 + 1, Len(s))
      <4>1. 0 + 1 = 1
        OBVIOUS
      <4> QED
        BY <3>4, <3>7, <3>8, <4>1
    <3> QED
      BY <3>6, <3>9 DEF Remembers, s, u
  <2> QED
    BY <2>3, <2>4
<1> QED
  BY <1>2, <1>3

\* The next message of a text ends before a newline, which is left out, or is as long as
\* a message may be and has no newline after its first byte.
LEMMA CutIs ==
  ASSUME NEW text \in Seq(Alphabet), Len(text) > MaxLen
  PROVE  \E c \in 1..MaxLen :
           /\ Cut(text).piece = SubSeq(text, 1, c)
           /\ \/ text[c + 1] = NL /\ Cut(text).rest = SubSeq(text, c + 2, Len(text))
              \/ /\ c = MaxLen /\ Cut(text).rest = SubSeq(text, c + 1, Len(text))
                 /\ \A i \in 2..MaxLen + 1 : text[i] # NL
<1> DEFINE newlines == {i \in 1..MaxLen : text[i] = NL}
           cut == IF newlines = {} \/ Max(newlines) = 1 THEN MaxLen ELSE Max(newlines) - 1
           left == SubSeq(text, cut + 1, Len(text))
<1>1. MaxLen \in Nat \ {0} /\ Len(text) \in Nat
  BY Bounds, LenProperties
<1>2. newlines # {} => Max(newlines) \in newlines /\ \A i \in newlines : i <= Max(newlines)
  <2>1. newlines \in SUBSET (0..MaxLen)
    BY <1>1
  <2> HIDE DEF newlines
  <2> QED
    BY <1>1, <2>1, MaxIs
<1>3. /\ cut \in 1..MaxLen
      /\ text[cut + 1] = NL \/ (cut = MaxLen /\ \A i \in 2..MaxLen + 1 : text[i] # NL)
  <2>1. CASE newlines = {}
    BY <1>1, <2>1
  <2>2. CASE newlines # {} /\ Max(newlines) = 1
    <3>1. cut = MaxLen /\ \A i \in 2..MaxLen : text[i] # NL
      BY <1>1, <1>2, <2>2
    <3> QED
      BY <1>1, <3>1
  <2>3. CASE newlines # {} /\ Max(newlines) # 1
    <3>1. PICK m \in 1..MaxLen : m = Max(newlines) /\ text[m] = NL
      BY <1>2, <2>3
    <3>2. cut = m - 1 /\ m # 1
      BY <2>3, <3>1
    <3> HIDE DEF cut
    <3> QED
      BY <1>1, <3>1, <3>2
  <2> QED
    BY <2>1, <2>2, <2>3
<1>4. Cut(text) = [piece |-> SubSeq(text, 1, cut),
                   rest |-> IF left # << >> /\ Head(left) = NL THEN Tail(left) ELSE left]
  BY Zenon DEF Cut
<1>5. PICK c \in 1..MaxLen : c = cut
  BY <1>3
<1>6. left = SubSeq(text, c + 1, Len(text))
  BY <1>5
<1> HIDE DEF cut, left, newlines
<1>7. left # << >> /\ Head(left) = text[c + 1] /\ Tail(left) = SubSeq(text, c + 2, Len(text))
  <2>1. c + 1 \in 1..Len(text) /\ Len(text) \in c + 1..Len(text) /\ (c + 1) + 1 = c + 2
    BY <1>1
  <2>2. Head(left) = text[c + 1] /\ Tail(left) = SubSeq(text, c + 2, Len(text))
    BY <1>6, <2>1, HeadTailOfSubSeq
  <2>3. Len(left) = Len(text) - c /\ Len(text) - c > 0
    BY <1>1, <1>6, <2>1
  <2> QED
    BY <2>2, <2>3, EmptySeq
<1>8. Cut(text).piece = SubSeq(text, 1, c)
      /\ Cut(text).rest = IF text[c + 1] = NL THEN SubSeq(text, c + 2, Len(text))
                                              ELSE SubSeq(text, c + 1, Len(text))
  <2>1. Cut(text).piece = SubSeq(text, 1, c)
        /\ Cut(text).rest = IF left # << >> /\ Head(left) = NL THEN Tail(left) ELSE left
    BY <1>4, <1>5
  <2> QED
    BY Zenon, <1>6, <1>7, <2>1
<1> QED
  BY <1>3, <1>5, <1>8

LEMMA CutTyped ==
  ASSUME NEW text \in Seq(Alphabet), Len(text) > MaxLen
  PROVE  Cut(text).piece \in Seq(Alphabet) /\ Cut(text).rest \in Seq(Alphabet)
<1>1. PICK c \in 1..MaxLen :
        /\ Cut(text).piece = SubSeq(text, 1, c)
        /\ Cut(text).rest \in {SubSeq(text, c + 2, Len(text)), SubSeq(text, c + 1, Len(text))}
  BY CutIs
<1>2. c \in Nat \ {0} /\ c <= Len(text) /\ Len(text) \in Nat /\ MaxLen \in Nat
  BY Bounds, LenProperties
<1>3. \A i \in 1..Len(text) : text[i] \in Alphabet
  BY ElementOfSeq
<1>4. SubSeq(text, 1, c) \in Seq(Alphabet) /\ SubSeq(text, c + 2, Len(text)) \in Seq(Alphabet)
      /\ SubSeq(text, c + 1, Len(text)) \in Seq(Alphabet)
  BY <1>2, <1>3
<1> QED
  BY <1>1, <1>4

\* A text that is encoded has as many bytes, the same but for strays.
Valid(text) == Encoded(text) = text

LEMMA EncodedIs ==
  ASSUME NEW text \in Seq(Alphabet)
  PROVE  /\ Encoded(text) \in Seq(Alphabet) /\ Len(Encoded(text)) = Len(text)
         /\ \A i \in 1..Len(text) :
              Encoded(text)[i] = IF Stray(text, i) THEN "lost" ELSE text[i]
<1>1. DOMAIN text = 1..Len(text) /\ Len(text) \in Nat /\ \A i \in 1..Len(text) : text[i] \in Alphabet
  BY LenProperties, ElementOfSeq
<1>2. /\ Encoded(text) = [i \in 1..Len(text) |-> IF Stray(text, i) THEN "lost" ELSE text[i]]
      /\ \A i \in 1..Len(text) : (IF Stray(text, i) THEN "lost" ELSE text[i]) \in Alphabet
  BY <1>1 DEF Encoded, Alphabet
<1>3. Encoded(text) \in [1..Len(text) -> Alphabet]
  BY Zenon, <1>2
<1>4. Encoded(text) \in Seq(Alphabet)
  BY <1>1, <1>3, SeqDef
<1>5. DOMAIN Encoded(text) = 1..Len(text)
  BY Zenon, <1>2
<1>6. Len(Encoded(text)) = Len(text)
  <2>1. PICK t \in Seq(Alphabet) : t = Encoded(text) /\ DOMAIN t = 1..Len(text)
    BY <1>4, <1>5
  <2>2. Len(t) = Len(text)
    BY <1>1, <2>1
  <2> QED
    BY <2>1, <2>2
<1>7. \A i \in 1..Len(text) : Encoded(text)[i] = IF Stray(text, i) THEN "lost" ELSE text[i]
  BY Zenon, <1>2
<1> QED
  BY <1>4, <1>6, <1>7

LEMMA NothingValid == Valid(<< >>)
BY DEF Valid, Encoded

-----------------------------------------------------------------------------
(* Each variable is changed by a few actions. *)

LEMMA TurnsFrame ==
  ASSUME [Next]_vars
  PROVE  \/ UNCHANGED <<turns, pieces>>
         \/ \E w \in Workers : Answered(w) \/ StartJob(w) \/ JobAnswered(w) \/ Check(w)
                               \/ PostPiece(w) \/ PostLast(w)
<1>1. CASE UNCHANGED vars
  BY <1>1 DEF vars, ghosts
<1>2. ASSUME NEW w \in Workers, Handle(w) \/ Run(w)
      PROVE  \/ UNCHANGED <<turns, pieces>>
             \/ Answered(w) \/ StartJob(w) \/ JobAnswered(w) \/ Check(w)
             \/ PostPiece(w) \/ PostLast(w)
  BY <1>2, Zenon DEF Handle, Run, Stat, Open, WriteDaily, DailyFails, ReadCurrent, Truncate, Write,
          PostFails, JobFails, Deliver, ghosts
<1>3. CASE Die \/ Tick
  BY <1>3 DEF Die, Tick, ghosts
<1> QED
  BY <1>1, <1>2, <1>3 DEF Next

LEMMA BeginTurn ==
  ASSUME TurnsTyped, NEW w, NEW who \in Jobs \cup {Chat}, NEW answer \in Seq(Alphabet),
         NEW label, Begin(w, who, answer, label), now \in FirstHour..LastHour
  PROVE  /\ TurnsTyped' /\ Len(turns') = Len(turns) + 1
         /\ \A t \in DOMAIN turns : turns'[t] = turns[t] /\ pieces'[t] = pieces[t]
         /\ turns'[Len(turns) + 1] = [who |-> who, answer |-> answer, at |-> now]
         /\ pieces'[Len(turns) + 1] = << >>
<1> DEFINE rec == [who |-> who, answer |-> answer, at |-> now]
<1>1. rec \in TurnRecords /\ << >> \in Seq(Seq(Alphabet)) /\ Len(turns) < MaxTurns
  BY EmptySeq DEF TurnRecords, Begin
<1>2. turns' = Append(turns, rec) /\ pieces' = Append(pieces, << >>)
  BY DEF Begin
<1>3. turns \in Seq(TurnRecords) /\ pieces \in Seq(Seq(Seq(Alphabet)))
      /\ Len(pieces) = Len(turns) /\ Len(turns) \in Nat /\ DOMAIN turns = 1..Len(turns)
  BY LenProperties DEF TurnsTyped
<1> HIDE DEF rec
<1>4. /\ turns' \in Seq(TurnRecords) /\ Len(turns') = Len(turns) + 1
      /\ \A t \in 1..Len(turns) : turns'[t] = turns[t]
      /\ turns'[Len(turns) + 1] = rec
  BY <1>1, <1>2, <1>3, AppendProperties
<1>5. /\ pieces' \in Seq(Seq(Seq(Alphabet))) /\ Len(pieces') = Len(pieces) + 1
      /\ \A t \in 1..Len(pieces) : pieces'[t] = pieces[t]
      /\ pieces'[Len(pieces) + 1] = << >>
  BY <1>1, <1>2, <1>3, AppendProperties
<1>6. TurnsTyped'
  BY <1>1, <1>3, <1>4, <1>5, Bounds DEF TurnsTyped
<1> QED
  BY <1>3, <1>4, <1>5, <1>6 DEF rec

\* One component of one turn changes.
LEMMA TurnChanges ==
  ASSUME TurnsTyped, NEW t \in DOMAIN turns, NEW rec \in TurnRecords,
         turns' = [turns EXCEPT ![t] = rec], pieces' = pieces
  PROVE  /\ TurnsTyped' /\ DOMAIN turns' = DOMAIN turns /\ Len(turns') = Len(turns)
         /\ turns'[t] = rec /\ \A s \in DOMAIN turns : s # t => turns'[s] = turns[s]
<1>1. turns \in Seq(TurnRecords) /\ t \in 1..Len(turns) /\ DOMAIN turns = 1..Len(turns)
  BY LenProperties DEF TurnsTyped
<1>2. turns' \in Seq(TurnRecords) /\ Len(turns') = Len(turns)
  BY <1>1, ExceptSeq
<1>3. DOMAIN turns' = 1..Len(turns)
  BY <1>2, LenProperties
<1> QED
  BY <1>1, <1>2, <1>3 DEF TurnsTyped

LEMMA PostTyped ==
  ASSUME TurnsTyped, NEW t \in DOMAIN turns, NEW piece \in Seq(Alphabet),
         turns' = turns, pieces' = [pieces EXCEPT ![t] = Append(@, piece)]
  PROVE  /\ TurnsTyped' /\ pieces'[t] = Append(pieces[t], piece) /\ pieces'[t] # << >>
         /\ \A s \in DOMAIN turns : s # t => pieces'[s] = pieces[s]
<1>1. /\ pieces \in Seq(Seq(Seq(Alphabet))) /\ t \in 1..Len(pieces)
      /\ DOMAIN turns = 1..Len(pieces) /\ pieces[t] \in Seq(Seq(Alphabet))
  BY LenProperties, TurnAt DEF TurnsTyped
<1>2. PICK m \in Seq(Seq(Alphabet)) : m = Append(pieces[t], piece) /\ m # << >>
  BY <1>1, AppendProperties
<1>3. pieces' = [pieces EXCEPT ![t] = m]
  BY <1>2
<1>4. DOMAIN pieces = 1..Len(pieces) /\ Len(pieces) \in Nat
      /\ \A s \in 1..Len(pieces) : pieces[s] \in Seq(Seq(Alphabet))
  BY <1>1, LenProperties, ElementOfSeq
<1>5. /\ pieces' \in [1..Len(pieces) -> Seq(Seq(Alphabet))] 
      /\ \A s \in 1..Len(pieces) : pieces'[s] = IF s = t THEN m ELSE pieces[s]
  BY Zenon, <1>1, <1>3, <1>4
<1>6. pieces' \in Seq(Seq(Seq(Alphabet))) /\ Len(pieces') = Len(pieces)
  <2>1. \E n \in Nat : pieces' \in [1..n -> Seq(Seq(Alphabet))]
    BY <1>4, <1>5
  <2>2. pieces' \in Seq(Seq(Seq(Alphabet)))
    BY <2>1, SeqDef
  <2>3. DOMAIN pieces' = 1..Len(pieces)
    BY <1>5
  <2> QED
    BY <1>4, <2>2, <2>3, LenProperties
<1> QED
  BY <1>1, <1>2, <1>5, <1>6 DEF TurnsTyped

\* What the actions that change a turn, or what Discord has of it, make of it.
LEMMA AnsweredIs ==
  ASSUME IInv, NEW w \in Workers, Answered(w)
  PROVE  /\ TurnsTyped' /\ Len(turns') = Len(turns) + 1
         /\ \A t \in DOMAIN turns : turns'[t] = turns[t] /\ pieces'[t] = pieces[t]
         /\ turns'[Len(turns) + 1].who = Chat /\ Valid(turns'[Len(turns) + 1].answer)
         /\ pieces'[Len(turns) + 1] = << >>
<1>1. PICK a \in Answers : Begin(w, Chat, a, "stat")
  BY DEF Answered
<1>2. a \in Seq(Alphabet) /\ Valid(a) /\ Chat \in Jobs \cup {Chat}
  BY AnswersAreTexts DEF Valid
<1>3. /\ TurnsTyped' /\ Len(turns') = Len(turns) + 1
      /\ \A t \in DOMAIN turns : turns'[t] = turns[t] /\ pieces'[t] = pieces[t]
      /\ turns'[Len(turns) + 1] = [who |-> Chat, answer |-> a, at |-> now]
      /\ pieces'[Len(turns) + 1] = << >>
  BY <1>1, <1>2, BeginTurn DEF IInv, FilesTyped
<1> QED
  BY <1>2, <1>3

LEMMA StartJobIs ==
  ASSUME IInv, NEW w \in Workers, StartJob(w)
  PROVE  /\ TurnsTyped' /\ Len(turns') = Len(turns) + 1
         /\ \A t \in DOMAIN turns : turns'[t] = turns[t] /\ pieces'[t] = pieces[t]
         /\ turns'[Len(turns) + 1].who \in Jobs /\ turns'[Len(turns) + 1].who # Chat
         /\ Valid(turns'[Len(turns) + 1].answer)
         /\ pieces'[Len(turns) + 1] = << >>
<1>1. PICK j \in Jobs : Begin(w, j, << >>, "claude")
  BY DEF StartJob
<1>2. << >> \in Seq(Alphabet) /\ Valid(<< >>) /\ j \in Jobs \cup {Chat} /\ j # Chat
  BY DefinitionsAreDefined, EmptySeq, NothingValid
<1>3. /\ TurnsTyped' /\ Len(turns') = Len(turns) + 1
      /\ \A t \in DOMAIN turns : turns'[t] = turns[t] /\ pieces'[t] = pieces[t]
      /\ turns'[Len(turns) + 1] = [who |-> j, answer |-> << >>, at |-> now]
      /\ pieces'[Len(turns) + 1] = << >>
  BY <1>1, <1>2, BeginTurn DEF IInv, FilesTyped
<1> QED
  BY <1>2, <1>3

LEMMA JobAnsweredIs ==
  ASSUME IInv, NEW w \in Workers, JobAnswered(w)
  PROVE  /\ turn[w] \in DOMAIN turns /\ turns[turn[w]].who \in Jobs
         /\ TurnsTyped' /\ DOMAIN turns' = DOMAIN turns /\ Len(turns') = Len(turns)
         /\ pieces' = pieces
         /\ turns'[turn[w]].who = turns[turn[w]].who /\ Valid(turns'[turn[w]].answer)
         /\ \A s \in DOMAIN turns : s # turn[w] => turns'[s] = turns[s]
<1>1. PICK a \in Answers : turns' = [turns EXCEPT ![turn[w]].answer = a]
  BY DEF JobAnswered
<1>2. pc[w] = "claude" /\ pieces' = pieces
  BY DEF JobAnswered
<1>3. /\ turn[w] \in DOMAIN turns /\ turns[turn[w]].who \in Jobs
      /\ turns[turn[w]] \in TurnRecords
  BY <1>2, TurnOf DEF IInv, Roles, AtJob
<1>4. PICK rec \in TurnRecords : rec = [turns[turn[w]] EXCEPT !.answer = a]
                                 /\ rec.who = turns[turn[w]].who /\ Valid(rec.answer)
  <2>1. PICK r \in TurnRecords : r = turns[turn[w]]
    BY <1>3
  <2>2. a \in Seq(Alphabet) /\ Valid(a)
    BY AnswersAreTexts DEF Valid
  <2>3. /\ [r EXCEPT !.answer = a] \in TurnRecords /\ [r EXCEPT !.answer = a].who = r.who
        /\ [r EXCEPT !.answer = a].answer = a
    BY <2>2 DEF TurnRecords
  <2> QED
    BY <2>1, <2>2, <2>3
<1>5. turns' = [turns EXCEPT ![turn[w]] = rec]
  BY <1>1, <1>4
<1> QED
  BY <1>2, <1>3, <1>4, <1>5, TurnChanges DEF IInv

LEMMA CheckIs ==
  ASSUME IInv, NEW w \in Workers, Check(w)
  PROVE  /\ turn[w] \in DOMAIN turns /\ turns[turn[w]].who \in Jobs
         /\ TurnsTyped' /\ DOMAIN turns' = DOMAIN turns /\ Len(turns') = Len(turns)
         /\ pieces' = pieces
         /\ turns'[turn[w]].who = turns[turn[w]].who
         /\ turns'[turn[w]].answer = turns[turn[w]].answer
         /\ pc'[w] = "deliver" =>
              turns'[turn[w]].at = now
              /\ Delivers(Definition[turns[turn[w]].who], turns[turn[w]].answer)
         /\ \A s \in DOMAIN turns : s # turn[w] => turns'[s] = turns[s]
<1>1. pc[w] = "check" /\ pieces' = pieces
  BY DEF Check
<1>2. /\ turn[w] \in DOMAIN turns /\ turns[turn[w]].who \in Jobs
      /\ turns[turn[w]] \in TurnRecords
  BY <1>1, TurnOf DEF IInv, Roles, AtJob
<1>3. CASE /\ Delivers(Definition[turns[turn[w]].who], turns[turn[w]].answer)
           /\ turns' = [turns EXCEPT ![turn[w]].at = now]
  <2>1. PICK rec \in TurnRecords : /\ rec = [turns[turn[w]] EXCEPT !.at = now]
                                   /\ rec.who = turns[turn[w]].who
                                   /\ rec.answer = turns[turn[w]].answer /\ rec.at = now
    <3>1. PICK r \in TurnRecords : r = turns[turn[w]]
      BY <1>2
    <3>2. now \in FirstHour..LastHour
      BY DEF IInv, FilesTyped
    <3> DEFINE rec == [r EXCEPT !.at = now]
    <3>3. rec \in TurnRecords /\ rec.who = r.who /\ rec.answer = r.answer /\ rec.at = now
      BY <3>2 DEF TurnRecords
    <3> QED
      BY <3>1, <3>3
  <2>2. turns' = [turns EXCEPT ![turn[w]] = rec]
    BY <1>3, <2>1
  <2> QED
    BY <1>1, <1>2, <1>3, <2>1, <2>2, TurnChanges DEF IInv
<1>4. CASE Reset(w) /\ UNCHANGED turns
  <2>1. pc'[w] = "idle"
    BY <1>4 DEF Reset, Go, IInv, ControlTyped
  <2> QED
    BY <1>1, <1>2, <1>4, <2>1 DEF IInv, TurnsTyped
<1> QED
  BY <1>3, <1>4 DEF Check

LEMMA PostPieceIs ==
  ASSUME IInv, NEW w \in Workers, PostPiece(w)
  PROVE  /\ turn[w] \in DOMAIN turns /\ turns' = turns /\ TurnsTyped'
         /\ pieces'[turn[w]] = Append(pieces[turn[w]], Encoded(Cut(rest[w]).piece))
         /\ pieces'[turn[w]] # << >>
         /\ rest[w] \in Seq(Alphabet) /\ Len(rest[w]) > MaxLen
         /\ rest' = [rest EXCEPT ![w] = Cut(rest[w]).rest]
         /\ \A s \in DOMAIN turns : s # turn[w] => pieces'[s] = pieces[s]
<1>1. /\ pc[w] = "post" /\ Len(rest[w]) > MaxLen /\ turns' = turns
      /\ rest' = [rest EXCEPT ![w] = Cut(rest[w]).rest]
      /\ pieces' = [pieces EXCEPT ![turn[w]] = Append(@, Encoded(Cut(rest[w]).piece))]
  BY DEF PostPiece, Post
<1>2. rest[w] \in Seq(Alphabet) /\ turn[w] \in DOMAIN turns
  BY <1>1, TurnOf DEF IInv, ControlTyped
<1>3. Encoded(Cut(rest[w]).piece) \in Seq(Alphabet)
  BY <1>1, <1>2, CutTyped, EncodedIs
<1> QED
  BY <1>1, <1>2, <1>3, PostTyped DEF IInv

LEMMA PostLastIs ==
  ASSUME IInv, NEW w \in Workers, PostLast(w)
  PROVE  /\ turn[w] \in DOMAIN turns /\ turns' = turns /\ TurnsTyped'
         /\ rest[w] \in Seq(Alphabet) /\ Len(rest[w]) <= MaxLen
         /\ IF rest[w] = << >> THEN pieces' = pieces
            ELSE /\ pieces'[turn[w]] = Append(pieces[turn[w]], Encoded(rest[w]))
                 /\ pieces'[turn[w]] # << >>
         /\ \A s \in DOMAIN turns : s # turn[w] => pieces'[s] = pieces[s]
<1>1. /\ pc[w] = "post" /\ Len(rest[w]) <= MaxLen /\ turns' = turns
      /\ IF rest[w] = << >> THEN pieces' = pieces
         ELSE pieces' = [pieces EXCEPT ![turn[w]] = Append(@, Encoded(rest[w]))]
  BY DEF PostLast, Post
<1>2. /\ rest[w] \in Seq(Alphabet) /\ turn[w] \in DOMAIN turns
      /\ Encoded(rest[w]) \in Seq(Alphabet)
  BY <1>1, TurnOf, EncodedIs DEF IInv, ControlTyped
<1>3. CASE rest[w] = << >>
  BY <1>1, <1>2, <1>3 DEF IInv, TurnsTyped
<1>4. CASE rest[w] # << >>
  BY <1>1, <1>2, <1>4, PostTyped DEF IInv
<1> QED
  BY <1>3, <1>4

LEMMA TurnsStep ==
  ASSUME IInv, [Next]_vars
  PROVE  /\ TurnsTyped' /\ Len(turns) \in Nat /\ Len(turns') \in Nat
         /\ Len(turns) <= Len(turns')
         /\ DOMAIN turns = 1..Len(turns) /\ DOMAIN turns' = 1..Len(turns')
         /\ \A t \in DOMAIN turns :
              turns'[t].who = turns[t].who /\ (turns[t].who = Chat => turns'[t] = turns[t])
<1>1. Len(turns) \in Nat /\ DOMAIN turns = 1..Len(turns)
  BY LenProperties DEF IInv, TurnsTyped
<1>2. /\ TurnsTyped' /\ Len(turns') \in {Len(turns), Len(turns) + 1}
      /\ \A t \in DOMAIN turns :
           turns'[t].who = turns[t].who /\ (turns[t].who = Chat => turns'[t] = turns[t])
  <2>1. CASE UNCHANGED <<turns, pieces>>
    BY <2>1 DEF IInv, TurnsTyped
  <2>2. ASSUME NEW w \in Workers, Answered(w) \/ StartJob(w) PROVE <1>2
    BY <2>2, AnsweredIs, StartJobIs
  <2>3. ASSUME NEW w \in Workers, JobAnswered(w) \/ Check(w) PROVE <1>2
    BY <2>3, JobAnsweredIs, CheckIs, DefinitionsAreDefined
  <2>4. ASSUME NEW w \in Workers, PostPiece(w) \/ PostLast(w) PROVE <1>2
    BY <2>4, PostPieceIs, PostLastIs
  <2> QED
    BY <2>1, <2>2, <2>3, <2>4, TurnsFrame
<1>3. Len(turns') \in Nat /\ DOMAIN turns' = 1..Len(turns')
  BY <1>2, LenProperties DEF TurnsTyped
<1>4. Len(turns) <= Len(turns')
  BY <1>1, <1>2
<1> QED
  BY Zenon, <1>1, <1>2, <1>3, <1>4

LEMMA FilesStep ==
  ASSUME IInv, [Next]_vars
  PROVE  FilesTyped'
<1>1. CASE UNCHANGED <<now, exists, daily>>
  BY <1>1 DEF IInv, FilesTyped, Days
<1>2. CASE Tick
  <2>1. now' = now + 1 /\ now < LastHour /\ exists' = exists /\ daily' = daily
    BY <1>2 DEF Tick, files
  <2>2. now' \in FirstHour..LastHour
    BY <2>1, Bounds DEF IInv, FilesTyped
  <2> QED
    BY <2>1, <2>2 DEF IInv, FilesTyped, Days
<1>3. ASSUME NEW w \in Workers, Open(w) PROVE FilesTyped'
  <2>1. turns[turn[w]] \in TurnRecords
    BY <1>3, TurnOf DEF Open, IInv
  <2>2. DayOf(turn[w]) \in Days
    BY <2>1, DayIsDay
  <2>3. now' = now /\ daily' = daily /\ exists' = exists \cup {DayOf(turn[w])}
    BY <1>3 DEF Open
  <2> QED
    BY <2>2, <2>3 DEF IInv, FilesTyped, Days
<1>4. ASSUME NEW w \in Workers, WriteDaily(w) PROVE FilesTyped'
  <2>1. turns[turn[w]] \in TurnRecords /\ turn[w] \in Turns
    BY <1>4, TurnOf DEF WriteDaily, IInv
  <2>2. DayOf(turn[w]) \in Days
    BY <2>1, DayIsDay
  <2>3. /\ now' = now /\ exists' = exists
        /\ daily' = [daily EXCEPT ![DayOf(turn[w])] = @ \o HeaderOf(w) \o <<turn[w]>>]
    BY <1>4 DEF WriteDaily
  <2>4. PICK s \in Seq(Turns \cup {Header}) :
          s = daily[DayOf(turn[w])] \o HeaderOf(w) \o <<turn[w]>>
    <3>1. HeaderOf(w) \in Seq(Turns \cup {Header}) /\ <<turn[w]>> \in Seq(Turns \cup {Header})
      <4>1. \A e \in Turns \cup {Header} : <<e>> \in Seq(Turns \cup {Header})
        OBVIOUS
      <4>2. HeaderOf(w) \in {<<Header>>, << >>}
        BY DEF HeaderOf
      <4> QED
        BY <2>1, <4>1, <4>2, EmptySeq
    <3>2. daily[DayOf(turn[w])] \in Seq(Turns \cup {Header})
      BY <2>2 DEF IInv, FilesTyped
    <3> QED
      BY <3>1, <3>2, ConcatProperties
  <2>5. daily' = [daily EXCEPT ![DayOf(turn[w])] = s]
    BY <2>3, <2>4
  <2> QED
    BY <2>3, <2>5 DEF IInv, FilesTyped, Days
<1>5. \/ UNCHANGED <<now, exists, daily>> \/ Tick
      \/ \E w \in Workers : Open(w) \/ WriteDaily(w)
  <2>1. CASE UNCHANGED vars
    BY <2>1 DEF vars, files
  <2>2. ASSUME NEW w \in Workers, Handle(w) \/ Run(w)
        PROVE  UNCHANGED <<now, exists, daily>> \/ Open(w) \/ WriteDaily(w)
    BY <2>2, Zenon DEF Handle, Run, Answered, Stat, DailyFails, ReadCurrent, Truncate, Write,
            PostPiece, PostLast, PostFails, StartJob, JobAnswered, JobFails, Check, Deliver, files
  <2>3. CASE Die
    BY <2>3 DEF Die, files
  <2> QED
    BY <2>1, <2>2, <2>3 DEF Next
<1> QED
  BY <1>1, <1>2, <1>3, <1>4, <1>5

LEMMA GhostsStep ==
  ASSUME IInv, [Next]_vars
  PROVE  GhostsTyped'
<1>1. CASE UNCHANGED <<recorded, unwritten, complete>>
  BY <1>1 DEF IInv, GhostsTyped, Turns
<1>2. ASSUME NEW w \in Workers, pc[w] # "idle",
             recorded' \in {recorded, Append(recorded, turn[w])},
             unwritten' \in {unwritten, unwritten \cup {turn[w]}},
             complete' \in {complete, complete \cup {turn[w]}}
      PROVE  GhostsTyped'
  <2>1. turn[w] \in Turns
    BY <1>2, TurnOf DEF IInv
  <2>2. recorded' \in Seq(Turns)
    BY <1>2, <2>1, AppendProperties DEF IInv, GhostsTyped
  <2> QED
    BY <1>2, <2>1, <2>2 DEF IInv, GhostsTyped, Turns
<1>3. \/ UNCHANGED <<recorded, unwritten, complete>>
      \/ \E w \in Workers : /\ pc[w] # "idle"
                            /\ recorded' \in {recorded, Append(recorded, turn[w])}
                            /\ unwritten' \in {unwritten, unwritten \cup {turn[w]}}
                            /\ complete' \in {complete, complete \cup {turn[w]}}
  <2>1. CASE UNCHANGED vars
    BY <2>1 DEF vars, ghosts
  <2>2. ASSUME NEW w \in Workers, Handle(w) \/ Run(w)
        PROVE  \/ UNCHANGED <<recorded, unwritten, complete>>
               \/ DailyFails(w) \/ Truncate(w) \/ Write(w) \/ PostLast(w)
    BY <2>2, Zenon DEF Handle, Run, Answered, Stat, Open, WriteDaily, ReadCurrent,
            PostPiece, PostFails, StartJob, JobAnswered, JobFails, Check, Deliver, ghosts
  <2>3. ASSUME NEW w \in Workers, DailyFails(w) \/ Truncate(w) \/ Write(w) \/ PostLast(w)
        PROVE  /\ pc[w] # "idle"
               /\ recorded' \in {recorded, Append(recorded, turn[w])}
               /\ unwritten' \in {unwritten, unwritten \cup {turn[w]}}
               /\ complete' \in {complete, complete \cup {turn[w]}}
    BY <2>3 DEF DailyFails, Truncate, Write, Send, PostLast
  <2>4. CASE Die \/ Tick
    BY <2>4 DEF Die, Tick, ghosts
  <2> QED
    BY <2>1, <2>2, <2>3, <2>4 DEF Next
<1> QED
  BY <1>1, <1>2, <1>3

LEMMA MemoryStep ==
  ASSUME IInv, [Next]_vars
  PROVE  MemoryTyped'
<1>1. /\ Len(turns) \in Nat /\ Len(turns') \in Nat /\ Len(turns) <= Len(turns')
      /\ TurnsTyped' /\ DOMAIN turns = 1..Len(turns) /\ DOMAIN turns' = 1..Len(turns')
  BY TurnsStep
<1>2. ASSUME NEW m, Holds(m)
      PROVE  Holds(m)'
  <2>1. m \in Memories /\ Len(m.entries) <= MaxRecent
        /\ \A i \in DOMAIN m.entries : m.entries[i] <= Len(turns)
    BY <1>2 DEF Holds
  <2>2. ASSUME NEW i \in DOMAIN m.entries PROVE m.entries[i] <= Len(turns')
    <3>1. m.entries \in Seq(Turns)
      BY <2>1 DEF Memories
    <3>2. m.entries[i] \in Turns
      BY <3>1, LenProperties
    <3>3. m.entries[i] <= Len(turns)
      BY <2>1
    <3> QED
      BY <1>1, <3>2, <3>3, Bounds DEF Turns
  <2>3. m \in Memories'
    BY <2>1 DEF Memories, Lines, Turns
  <2> QED
    BY <2>1, <2>2, <2>3 DEF Holds
<1>3. Holds(NoMemory) /\ NoRule(NoMemory.archive) /\ NoHeadAfterRule(NoMemory.archive)
  <2>1. NoMemory \in Memories /\ Len(NoMemory.entries) = 0 /\ DOMAIN NoMemory.entries = {}
        /\ DOMAIN NoMemory.archive = {}
    BY EmptySeq DEF NoMemory, Memories
  <2> QED
    BY <2>1, Bounds DEF Holds, NoRule, NoHeadAfterRule
<1>4. Holds(Parsed(current)) /\ NoRule(Parsed(current).archive)
  BY ParsedIs DEF IInv, MemoryTyped, Holds
<1>5. Holds(current)' /\ NoHeadAfterRule(current'.archive)
  <2>1. CASE current' \in {current, NoMemory}
    <3>1. PICK m : m = current' /\ Holds(m) /\ NoHeadAfterRule(m.archive)
      BY <1>3, <2>1 DEF IInv, MemoryTyped
    <3>2. Holds(m)'
      BY <1>2, <3>1
    <3> QED
      BY <3>1, <3>2 DEF Holds
  <2>2. ASSUME NEW w \in Workers, Write(w) PROVE <1>5
    <3>1. turn[w] \in DOMAIN turns
      BY <2>2, TurnOf DEF IInv, Write
    <3>2. CASE current' = current
      BY <2>1, <3>2
    <3>3. CASE current' = Updated(seen[w], turn[w])
      <4>1. Holds(Updated(seen[w], turn[w])) /\ NoHeadAfterRule(Updated(seen[w], turn[w]).archive)
        BY <3>1, UpdatedIs DEF IInv, MemoryTyped
      <4>2. PICK m : m = current' /\ Holds(m) /\ NoHeadAfterRule(m.archive)
        BY <3>3, <4>1
      <4>3. Holds(m)'
        BY <1>2, <4>2
      <4> QED
        BY <4>2, <4>3 DEF Holds
    <3> QED
      BY <2>2, <3>2, <3>3 DEF Write
  <2>3. current' \in {current, NoMemory} \/ \E w \in Workers : Write(w)
    <3>1. CASE UNCHANGED vars
      BY <3>1 DEF vars, files
    <3>2. ASSUME NEW w \in Workers, Handle(w) \/ Run(w)
          PROVE  current' = current \/ current' = NoMemory \/ Write(w)
      BY <3>2, Zenon DEF Handle, Run, Answered, Stat, Open, WriteDaily, DailyFails, ReadCurrent,
              Truncate, PostPiece, PostLast, PostFails, StartJob, JobAnswered, JobFails, Check,
              Deliver, files
    <3>3. CASE Die \/ Tick
      BY <3>3 DEF Die, Tick, files
    <3> QED
      BY <3>1, <3>2, <3>3 DEF Next
  <2> QED
    BY <2>1, <2>2, <2>3
<1>6. /\ seen' \in [Workers -> Memories]
      /\ \A v \in Workers : seen'[v] \in {seen[v], NoMemory, Parsed(current)}
  <2>1. seen \in [Workers -> Memories] /\ {NoMemory, Parsed(current)} \subseteq Memories
    BY <1>3, <1>4 DEF IInv, MemoryTyped, Holds
  <2>2. CASE UNCHANGED vars
    BY <2>1, <2>2 DEF vars, control
  <2>3. ASSUME NEW w \in Workers, Handle(w) \/ Run(w)
        PROVE  \/ seen' = seen \/ seen' = [seen EXCEPT ![w] = NoMemory]
               \/ seen' = [seen EXCEPT ![w] = Parsed(current)]
    BY <2>3, Zenon DEF Handle, Run, Answered, Stat, Open, WriteDaily, DailyFails, ReadCurrent,
              Truncate, Write, PostPiece, PostLast, PostFails, StartJob, JobAnswered, JobFails,
              Check, Deliver, Reset
  <2>4. CASE Die \/ Tick
    BY <2>1, <2>4 DEF Die, Tick, control
  <2> QED
    BY <2>1, <2>2, <2>3, <2>4 DEF Next
<1>7. \A v \in Workers : Holds(seen[v])' /\ NoRule(seen'[v].archive)
  <2> SUFFICES ASSUME NEW v \in Workers PROVE Holds(seen[v])' /\ NoRule(seen'[v].archive)
    OBVIOUS
  <2>1. PICK m : m = seen'[v] /\ Holds(m) /\ NoRule(m.archive)
    BY <1>3, <1>4, <1>6 DEF IInv, MemoryTyped
  <2>2. Holds(m)'
    BY <1>2, <2>1
  <2> QED
    BY <2>1, <2>2 DEF Holds
<1> QED
  BY <1>5, <1>6, <1>7 DEF MemoryTyped, NoHeadAfterRule, NoRule, Memories, Lines, Turns

\* What a step of w does to its control: it goes to label, with turn t.
Moves(w, label, t) ==
  /\ pc' = [pc EXCEPT ![w] = label] /\ turn' = [turn EXCEPT ![w] = t]
  /\ label \in PcValues /\ t \in Nat /\ t <= Len(turns') /\ (label = "idle" <=> t = 0)
  /\ t \in {turn[w], 0, Len(turns) + 1}
  /\ label \in AtMemory => turns'[t].who = Chat
  /\ label \in AtJob => turns'[t].who \in Jobs
  /\ fresh' \in [Workers -> BOOLEAN] /\ rest' \in [Workers -> Seq(Alphabet)]

LEMMA ResetMoves ==
  ASSUME IInv, NEW w \in Workers, Reset(w), Len(turns') \in Nat
  PROVE  Moves(w, "idle", 0)
BY EmptySeq DEF IInv, ControlTyped, Moves, Reset, Go, PcValues, AtMemory, AtJob

\* The worker keeps its turn.
LEMMA GoMoves ==
  ASSUME IInv, [Next]_vars, NEW w \in Workers, NEW label \in PcValues \ {"idle"}, pc[w] # "idle",
         Go(w, label), turn' = turn,
         label \in AtMemory => turns[turn[w]].who = Chat,
         label \in AtJob => turns[turn[w]].who \in Jobs,
         NEW f \in BOOLEAN, fresh' \in {fresh, [fresh EXCEPT ![w] = f]},
         NEW r \in Seq(Alphabet), rest' \in {rest, [rest EXCEPT ![w] = r]}
  PROVE  Moves(w, label, turn[w])
<1>1. /\ turn[w] \in 1..Len(turns) /\ turn[w] # 0
      /\ turn \in [Workers -> Nat] /\ fresh \in [Workers -> BOOLEAN]
      /\ rest \in [Workers -> Seq(Alphabet)]
  BY TurnOf DEF IInv, ControlTyped
<1>2. /\ turns'[turn[w]].who = turns[turn[w]].who
      /\ Len(turns) \in Nat /\ Len(turns') \in Nat /\ Len(turns) <= Len(turns')
  BY <1>1, TurnsStep
<1>3. fresh' \in [Workers -> BOOLEAN] /\ rest' \in [Workers -> Seq(Alphabet)]
  BY <1>1
<1>4. turn' = [turn EXCEPT ![w] = turn[w]]
  BY <1>1
<1>5. turn[w] \in Nat /\ turn[w] <= Len(turns')
  BY <1>1, <1>2
<1> QED
  BY <1>1, <1>2, <1>3, <1>4, <1>5 DEF Moves, Go

LEMMA BeginMoves ==
  ASSUME IInv, NEW w \in Workers, Answered(w) \/ StartJob(w)
  PROVE  \E label \in {"stat", "claude"} : Moves(w, label, Len(turns) + 1)
<1>1. Len(turns) \in Nat
  BY LenProperties DEF IInv, TurnsTyped
<1>2. fresh \in [Workers -> BOOLEAN] /\ rest \in [Workers -> Seq(Alphabet)]
  BY DEF IInv, ControlTyped
<1>3. CASE Answered(w)
  <2>1. turns'[Len(turns) + 1].who = Chat /\ Len(turns') = Len(turns) + 1
    BY <1>3, AnsweredIs
  <2>2. /\ pc' = [pc EXCEPT ![w] = "stat"] /\ turn' = [turn EXCEPT ![w] = Len(turns) + 1]
        /\ fresh' = fresh /\ rest' = rest
    BY <1>3 DEF Answered, Begin, Go
  <2> QED
    BY <1>1, <1>2, <2>1, <2>2 DEF Moves, PcValues, AtMemory, AtJob
<1>4. CASE StartJob(w)
  <2>1. turns'[Len(turns) + 1].who \in Jobs /\ Len(turns') = Len(turns) + 1
    BY <1>4, StartJobIs
  <2>2. /\ pc' = [pc EXCEPT ![w] = "claude"] /\ turn' = [turn EXCEPT ![w] = Len(turns) + 1]
        /\ fresh' = fresh /\ rest' = rest
    BY <1>4 DEF StartJob, Begin, Go
  <2> QED
    BY <1>1, <1>2, <2>1, <2>2 DEF Moves, PcValues, AtMemory, AtJob
<1> QED
  BY <1>3, <1>4

LEMMA HandleMoves ==
  ASSUME IInv, [Next]_vars, NEW w \in Workers,
         \/ Stat(w) \/ Open(w) \/ WriteDaily(w) \/ DailyFails(w) \/ ReadCurrent(w)
         \/ Truncate(w) \/ Write(w) \/ PostPiece(w) \/ JobAnswered(w) \/ Check(w) \/ Deliver(w)
         \/ PostLast(w) \/ PostFails(w) \/ JobFails(w)
  PROVE  \E label \in PcValues : Moves(w, label, turn[w]) \/ Moves(w, label, 0)
<1>0. Len(turns') \in Nat /\ << >> \in Seq(Alphabet) /\ TRUE \in BOOLEAN /\ "idle" \in PcValues
  BY TurnsStep, EmptySeq DEF PcValues
<1>1. ASSUME Reset(w) PROVE Moves(w, "idle", 0)
  BY <1>0, <1>1, ResetMoves
<1>2. /\ pc[w] \in AtMemory => turns[turn[w]].who = Chat
      /\ pc[w] \in AtJob => turns[turn[w]].who \in Jobs
  BY DEF IInv, Roles
<1>3. ASSUME pc[w] # "idle" PROVE turns[turn[w]].answer \in Seq(Alphabet)
  BY <1>3, TurnOf DEF IInv, TurnRecords
<1>4. CASE Stat(w)
  <2> DEFINE f == DayOf(turn[w]) \notin exists
  <2>1. f \in BOOLEAN /\ fresh' = [fresh EXCEPT ![w] = f] /\ pc[w] = "stat" /\ Go(w, "open")
        /\ turn' = turn /\ rest' = rest
    BY <1>4 DEF Stat
  <2> HIDE DEF f
  <2>2. Moves(w, "open", turn[w])
    BY <1>0, <1>2, <2>1, GoMoves DEF PcValues, AtMemory, AtJob
  <2> QED
    BY <2>2 DEF PcValues, AtMemory
<1>5. CASE Open(w)
  <2>1. Moves(w, "append", turn[w])
    BY <1>0, <1>2, <1>5, GoMoves DEF Open, PcValues, AtMemory, AtJob
  <2> QED
    BY <2>1 DEF PcValues, AtMemory
<1>6. CASE WriteDaily(w) \/ DailyFails(w)
  <2>1. Moves(w, "read", turn[w])
    BY <1>0, <1>2, <1>6, GoMoves DEF WriteDaily, DailyFails, PcValues, AtMemory, AtJob
  <2> QED
    BY <2>1 DEF PcValues, AtMemory
<1>7. CASE ReadCurrent(w)
  <2>1. Moves(w, "truncate", turn[w])
    BY <1>0, <1>2, <1>7, GoMoves DEF ReadCurrent, PcValues, AtMemory, AtJob
  <2> QED
    BY <2>1 DEF PcValues, AtMemory
<1>8. CASE Truncate(w)
  <2>1. CASE Go(w, "write") /\ rest' = rest
    <3>1. Moves(w, "write", turn[w])
      BY <1>0, <1>2, <1>8, <2>1, GoMoves DEF Truncate, PcValues, AtMemory, AtJob
    <3> QED
      BY <3>1 DEF PcValues, AtMemory
  <2>2. CASE Send(w)
    <3>1. Moves(w, "post", turn[w])
      BY <1>3, <1>0, <1>8, <2>2, GoMoves DEF Truncate, Send, PcValues, AtMemory, AtJob
    <3> QED
      BY <3>1 DEF PcValues
  <2> QED
    BY <1>8, <2>1, <2>2 DEF Truncate
<1>9. CASE Write(w)
  <2>1. Moves(w, "post", turn[w])
    BY <1>3, <1>0, <1>9, GoMoves DEF Write, Send, PcValues, AtMemory, AtJob
  <2> QED
    BY <2>1 DEF PcValues
<1>10. CASE PostPiece(w)
  <2>1. Cut(rest[w]).rest \in Seq(Alphabet) /\ rest' = [rest EXCEPT ![w] = Cut(rest[w]).rest]
    BY <1>10, PostPieceIs, CutTyped
  <2>2. Go(w, "post") /\ turn' = turn /\ pc[w] = "post" /\ fresh' = fresh
    BY <1>10 DEF PostPiece, Go, IInv, ControlTyped
  <2>3. Moves(w, "post", turn[w])
    BY <1>0, <2>1, <2>2, GoMoves DEF PcValues, AtMemory, AtJob
  <2> QED
    BY <2>3 DEF PcValues
<1>11. CASE JobAnswered(w)
  <2>1. Moves(w, "check", turn[w])
    BY <1>0, <1>2, <1>11, GoMoves DEF JobAnswered, PcValues, AtMemory, AtJob
  <2> QED
    BY <2>1 DEF PcValues, AtJob
<1>12. CASE Check(w)
  <2>1. CASE Reset(w)
    BY <1>0, <1>1, <2>1
  <2>2. CASE Go(w, "deliver") /\ UNCHANGED <<turn, fresh, seen, rest>>
    <3>1. Moves(w, "deliver", turn[w])
      BY <1>0, <1>2, <1>12, <2>2, GoMoves DEF Check, PcValues, AtMemory, AtJob
    <3> QED
      BY <3>1 DEF PcValues, AtJob
  <2> QED
    BY <1>12, <2>1, <2>2 DEF Check
<1>13. CASE Deliver(w)
  <2>1. CASE Reset(w)
    BY <1>0, <1>1, <2>1
  <2>2. CASE /\ rest' = [rest EXCEPT ![w] = turns[turn[w]].answer]
             /\ Go(w, "post") /\ UNCHANGED <<turn, fresh, seen, faults>>
    <3>1. Moves(w, "post", turn[w])
      BY <1>3, <1>0, <1>13, <2>2, GoMoves DEF Deliver, PcValues, AtMemory, AtJob
    <3> QED
      BY <3>1 DEF PcValues
  <2> QED
    BY <1>13, <2>1, <2>2 DEF Deliver
<1>14. CASE PostLast(w) \/ PostFails(w) \/ JobFails(w)
  <2>1. Reset(w)
    BY <1>14 DEF PostLast, PostFails, JobFails
  <2> QED
    BY <1>0, <1>1, <2>1
<1> QED
  BY <1>4, <1>5, <1>6, <1>7, <1>8, <1>9, <1>10, <1>11, <1>12, <1>13, <1>14

LEMMA ControlStep ==
  ASSUME IInv, [Next]_vars
  PROVE  ControlTyped' /\ Apart' /\ Roles'
<1>0. /\ Len(turns) \in Nat /\ Len(turns') \in Nat /\ Len(turns) <= Len(turns')
      /\ \A v \in Workers : pc[v] # "idle" => turns'[turn[v]].who = turns[turn[v]].who
  BY TurnsStep, TurnOf DEF IInv
<1>1. /\ pc \in [Workers -> PcValues] /\ turn \in [Workers -> Nat]
      /\ \A v \in Workers : turn[v] <= Len(turns) /\ (pc[v] = "idle" <=> turn[v] = 0)
  BY DEF IInv, ControlTyped
<1>2. ASSUME NEW w \in Workers, NEW label, NEW t, Moves(w, label, t)
      PROVE  ControlTyped' /\ Apart' /\ Roles'
  <2>1. /\ pc' \in [Workers -> PcValues] /\ turn' \in [Workers -> Nat]
        /\ \A v \in Workers : /\ pc'[v] = IF v = w THEN label ELSE pc[v]
                              /\ turn'[v] = IF v = w THEN t ELSE turn[v]
    BY <1>1, <1>2 DEF Moves
  <2>2. \A v \in Workers : turn'[v] <= Len(turns') /\ (pc'[v] = "idle" <=> turn'[v] = 0)
    BY <1>0, <1>1, <1>2, <2>1 DEF Moves
  <2>3. ControlTyped'
    BY <1>2, <2>1, <2>2 DEF ControlTyped, Moves, PcValues, AtMemory, AtJob
  <2>4. Apart'
    <3>1. \A u \in Workers : u # w /\ turn[u] = t => t = 0
      BY <1>0, <1>1, <1>2 DEF IInv, Apart, Moves
    <3> QED
      BY <2>1, <3>1 DEF IInv, Apart
  <2>5. Roles'
    <3>1. ASSUME NEW v \in Workers
          PROVE  /\ pc'[v] \in AtMemory => turns'[turn'[v]].who = Chat
                 /\ pc'[v] \in AtJob => turns'[turn'[v]].who \in Jobs
      <4>1. CASE v = w
        BY <1>2, <2>1, <4>1 DEF Moves
      <4>2. CASE v # w
        <5>1. pc[v] \in AtMemory \cup AtJob => pc[v] # "idle"
          BY DEF AtMemory, AtJob
        <5> QED
          BY <1>0, <2>1, <4>2, <5>1 DEF IInv, Roles
      <4> QED
        BY <4>1, <4>2
    <3> QED
      BY <3>1 DEF Roles, AtMemory, AtJob
  <2> QED
    BY <2>3, <2>4, <2>5
<1>3. CASE UNCHANGED control /\ UNCHANGED turns
  BY <1>3 DEF control, IInv, ControlTyped, Apart, Roles, PcValues, AtMemory, AtJob
<1>4. CASE Die
  <2>1. /\ pc' = [w \in Workers |-> "idle"] /\ turn' = [w \in Workers |-> 0]
        /\ fresh' = [w \in Workers |-> FALSE] /\ rest' = [w \in Workers |-> << >>]
    BY <1>4 DEF Die
  <2>2. << >> \in Seq(Alphabet)
    BY EmptySeq
  <2> QED
    BY <1>0, <2>1, <2>2 DEF ControlTyped, Apart, Roles, PcValues, AtMemory, AtJob
<1>5. ASSUME NEW w \in Workers, Handle(w) \/ Run(w) PROVE \E label, t : Moves(w, label, t)
  BY <1>5, BeginMoves, HandleMoves DEF Handle, Run
<1>6. (UNCHANGED control /\ UNCHANGED turns) \/ Die \/ \E w \in Workers : Handle(w) \/ Run(w)
  BY DEF Next, Tick, vars, ghosts
<1> QED
  BY <1>2, <1>3, <1>4, <1>5, <1>6

\* As long as it begins with all the types in place, the relay keeps them.
LEMMA InitTyped == Init => IInv
<1> SUFFICES ASSUME Init PROVE IInv
  OBVIOUS
<1>1. Len(<< >>) = 0 /\ DOMAIN << >> = {} /\ \A S : << >> \in Seq(S)
  BY EmptySeq
<1>2. FilesTyped
  BY <1>1, Bounds DEF Init, FilesTyped
<1>3. TurnsTyped
  BY <1>1, Bounds DEF Init, TurnsTyped
<1>4. ControlTyped
  BY <1>1 DEF Init, ControlTyped, PcValues
<1>5. GhostsTyped
  BY <1>1 DEF Init, GhostsTyped
<1>6. NoMemory \in Memories /\ Holds(NoMemory) /\ NoRule(NoMemory.archive)
      /\ NoHeadAfterRule(NoMemory.archive)
  BY <1>1, Bounds DEF NoMemory, Memories, Holds, NoRule, NoHeadAfterRule
<1>7. MemoryTyped
  BY <1>6 DEF Init, MemoryTyped
<1>8. Apart /\ Roles
  BY DEF Init, Apart, Roles, AtMemory, AtJob
<1> QED
  BY <1>2, <1>3, <1>4, <1>5, <1>7, <1>8 DEF IInv

LEMMA Typed == Spec => []IInv
<1>1. IInv /\ [Next]_vars => IInv'
  BY TurnsStep, FilesStep, GhostsStep, MemoryStep, ControlStep DEF IInv
<1> QED
  BY <1>1, InitTyped, PTL DEF Spec

(* However workers interleave, fail or die, every variable keeps its type, *)
(* and current-memory.md never holds more than maxRecent entries           *)
(* (writer.go:90).                                                         *)
THEOREM TypeCorrect == Spec => []TypeOK
<1>1. IInv => TypeOK
  <2> SUFFICES ASSUME IInv PROVE TypeOK
    OBVIOUS
  <2>1. \A d \in Days : daily[d] \in Seq(Turns \union {Header})
    BY DEF IInv, FilesTyped
  <2>2. \A m \in {current} \union {seen[w] : w \in Workers} :
          m \in Memories /\ Len(m.entries) <= MaxRecent
    BY DEF IInv, MemoryTyped, Holds
  <2>3. \A w \in Workers : turn[w] \in 0..Len(turns) /\ (pc[w] = "idle" <=> turn[w] = 0)
    BY LenProperties DEF IInv, ControlTyped, TurnsTyped
  <2> QED
    BY <2>1, <2>2, <2>3 DEF TypeOK, IInv, FilesTyped, GhostsTyped
<1> QED
  BY <1>1, Typed, PTL

-----------------------------------------------------------------------------
(* What one step does to one worker and to one turn. *)

LEMMA Others ==
  ASSUME IInv, NEW w \in Workers, Handle(w) \/ Run(w), NEW v \in Workers, v # w
  PROVE  /\ pc'[v] = pc[v] /\ turn'[v] = turn[v] /\ fresh'[v] = fresh[v]
         /\ seen'[v] = seen[v] /\ rest'[v] = rest[v]
<1>1. /\ pc \in [Workers -> PcValues] /\ turn \in [Workers -> Nat]
      /\ fresh \in [Workers -> BOOLEAN] /\ rest \in [Workers -> Seq(Alphabet)]
      /\ seen \in [Workers -> Memories]
  BY DEF IInv, ControlTyped, MemoryTyped
<1>2. CASE Reset(w)
  BY <1>1, <1>2 DEF Reset, Go
<1>3. CASE Answered(w) \/ Stat(w) \/ Open(w) \/ WriteDaily(w) \/ DailyFails(w) \/ ReadCurrent(w)
  BY <1>1, <1>3 DEF Answered, Begin, Stat, Open, WriteDaily, DailyFails, ReadCurrent, Go
<1>4. CASE Truncate(w) \/ Write(w)
  BY <1>1, <1>4 DEF Truncate, Write, Send, Go
<1>5. CASE PostPiece(w) \/ StartJob(w) \/ JobAnswered(w)
  BY <1>1, <1>5 DEF PostPiece, StartJob, Begin, JobAnswered, Go
<1>6. CASE (Check(w) \/ Deliver(w)) /\ ~ Reset(w)
  BY <1>1, <1>6 DEF Check, Deliver, Go
<1> QED
  BY <1>2, <1>3, <1>4, <1>5, <1>6 DEF Handle, Run, PostLast, PostFails, JobFails

OneStep(v) ==
  \/ /\ pc'[v] = pc[v] /\ turn'[v] = turn[v] /\ fresh'[v] = fresh[v] /\ seen'[v] = seen[v]
     /\ rest'[v] = rest[v] \/ PostPiece(v)
  \/ pc'[v] = "idle" /\ turn'[v] = 0
  \/ Answered(v) /\ pc'[v] = "stat" /\ turn'[v] = Len(turns) + 1
  \/ StartJob(v) /\ pc'[v] = "claude" /\ turn'[v] = Len(turns) + 1
  \/ /\ turn'[v] = turn[v]
     /\ \/ Stat(v) /\ pc[v] = "stat" /\ pc'[v] = "open"
        \/ Open(v) /\ pc[v] = "open" /\ pc'[v] = "append"
        \/ WriteDaily(v) /\ pc[v] = "append" /\ pc'[v] = "read"
        \/ DailyFails(v) /\ pc[v] \in {"open", "append"} /\ pc'[v] = "read"
        \/ ReadCurrent(v) /\ pc[v] = "read" /\ pc'[v] = "truncate"
        \/ Truncate(v) /\ pc[v] = "truncate" /\ pc'[v] \in {"write", "post"}
        \/ Write(v) /\ pc[v] = "write" /\ pc'[v] = "post"
        \/ JobAnswered(v) /\ pc[v] = "claude" /\ pc'[v] = "check"
        \/ Check(v) /\ pc[v] = "check" /\ pc'[v] = "deliver"
        \/ Deliver(v) /\ pc[v] = "deliver" /\ pc'[v] = "post"

LEMMA WorkerStep ==
  ASSUME IInv, [Next]_vars, NEW v \in Workers
  PROVE  OneStep(v)
<1>1. pc \in [Workers -> PcValues] /\ turn \in [Workers -> Nat]
  BY DEF IInv, ControlTyped
<1>2. CASE UNCHANGED control
  BY <1>2 DEF control, OneStep
<1>3. CASE Die
  BY <1>3 DEF Die, OneStep
<1>4. ASSUME NEW w \in Workers, w # v, Handle(w) \/ Run(w) PROVE OneStep(v)
  BY <1>4, Others DEF OneStep
<1>5. ASSUME Reset(v) PROVE pc'[v] = "idle" /\ turn'[v] = 0
  BY <1>1, <1>5 DEF Reset, Go
<1>6. ASSUME Handle(v)
      PROVE  OneStep(v)
  <2>1. CASE Answered(v)
    BY <1>1, <2>1 DEF Answered, Begin, Go, OneStep
  <2>2. CASE Stat(v) \/ Open(v)
    BY <1>1, <2>2 DEF Stat, Open, Go, OneStep
  <2>3. CASE WriteDaily(v) \/ DailyFails(v) \/ ReadCurrent(v)
    BY <1>1, <2>3 DEF WriteDaily, DailyFails, ReadCurrent, Go, OneStep
  <2>4. CASE Truncate(v) \/ Write(v)
    BY <1>1, <2>4 DEF Truncate, Write, Send, Go, OneStep
  <2>5. CASE PostPiece(v)
    BY <1>1, <2>5 DEF PostPiece, OneStep
  <2>6. CASE PostLast(v) \/ PostFails(v)
    BY <1>5, <2>6 DEF PostLast, PostFails, OneStep
  <2> QED
    BY <1>6, <2>1, <2>2, <2>3, <2>4, <2>5, <2>6 DEF Handle
<1>7. ASSUME Run(v)
      PROVE  OneStep(v)
  BY <1>1, <1>5, <1>7 DEF Run, StartJob, Begin, JobAnswered, JobFails, Check, Deliver, Go, OneStep
<1>8. UNCHANGED control \/ Die \/ \E w \in Workers : Handle(w) \/ Run(w)
  BY DEF Next, Tick, vars
<1> QED
  BY <1>2, <1>3, <1>4, <1>6, <1>7, <1>8

\* A turn, and what Discord has of it, is changed by its own worker only.
LEMMA TurnStep ==
  ASSUME IInv, [Next]_vars, NEW t \in DOMAIN turns
  PROVE  /\ t \in DOMAIN turns'
         /\ \/ turns'[t] = turns[t]
            \/ \E w \in Workers : turn[w] = t /\ (JobAnswered(w) \/ Check(w))
         /\ \/ pieces'[t] = pieces[t]
            \/ \E w \in Workers : turn[w] = t /\ (PostPiece(w) \/ PostLast(w))
<1>1. t \in DOMAIN turns'
  BY TurnsStep
<1>2. CASE UNCHANGED <<turns, pieces>>
  BY <1>1, <1>2
<1>3. ASSUME NEW w \in Workers, Answered(w) \/ StartJob(w)
      PROVE  turns'[t] = turns[t] /\ pieces'[t] = pieces[t]
  BY <1>3, AnsweredIs, StartJobIs
<1>4. ASSUME NEW w \in Workers, JobAnswered(w) \/ Check(w)
      PROVE  (turns'[t] = turns[t] \/ turn[w] = t) /\ pieces'[t] = pieces[t]
  BY <1>4, JobAnsweredIs, CheckIs
<1>5. ASSUME NEW w \in Workers, PostPiece(w) \/ PostLast(w)
      PROVE  turns'[t] = turns[t] /\ (pieces'[t] = pieces[t] \/ turn[w] = t)
  BY <1>5, PostPieceIs, PostLastIs
<1> QED
  BY <1>1, <1>2, <1>3, <1>4, <1>5, TurnsFrame

LEMMA NewTurn ==
  ASSUME IInv, [Next]_vars, NEW t \in DOMAIN turns', t \notin DOMAIN turns
  PROVE  /\ t = Len(turns) + 1 /\ pieces'[t] = << >> /\ Valid(turns'[t].answer)
         /\ \E w \in Workers : Answered(w) \/ (StartJob(w) /\ turns'[t].who # Chat)
<1>1. /\ Len(turns) \in Nat /\ Len(turns') \in Nat
      /\ DOMAIN turns = 1..Len(turns) /\ DOMAIN turns' = 1..Len(turns')
  BY TurnsStep
<1>2. PICK w \in Workers : Answered(w) \/ StartJob(w)
  BY TurnsFrame, JobAnsweredIs, CheckIs, PostPieceIs, PostLastIs
<1>3. Len(turns') = Len(turns) + 1
  BY <1>2, AnsweredIs, StartJobIs
<1>4. t = Len(turns) + 1
  BY <1>1, <1>3
<1> QED
  BY <1>2, <1>4, AnsweredIs, StartJobIs

-----------------------------------------------------------------------------
(* Jobs. *)

LEMMA SmallRemainder ==
  ASSUME NEW h \in Nat \ {0}, NEW n \in 0..h - 1
  PROVE  n % h = n
OBVIOUS

LEMMA NextRemainder ==
  ASSUME NEW h \in Nat \ {0}, NEW n \in h..2 * h - 1
  PROVE  n % h = n - h
OBVIOUS

LEMMA NegativeRemainder ==
  ASSUME NEW h \in Nat \ {0}, NEW n \in (- h)..(- 1)
  PROVE  n % h = n + h
OBVIOUS

LEMMA Remainder ==
  ASSUME NEW h \in Nat \ {0}, NEW n \in Nat
  PROVE  n % h \in 0..h - 1
OBVIOUS

\* isQuietHour is true in every hour reached from "from" before "to".
LEMMA QuietIsQuiet ==
  ASSUME NEW quiet \in [from : Hours, to : Hours], NEW hour \in QuietHours(quiet)
  PROVE  IsQuietHour(quiet, hour)
<1> DEFINE h == HoursADay
           f == quiet.from
           t == quiet.to
<1>1. h \in Nat \ {0} /\ f \in 0..h - 1 /\ t \in 0..h - 1
  BY Bounds DEF Hours
<1>2. PICK k \in 0..((t - f) % h) - 1 : hour = (f + k) % h
  BY DEF QuietHours
<1> HIDE DEF h, f, t
<1>3. CASE f <= t
  <2>1. t - f \in 0..h - 1
    BY <1>1, <1>3
  <2>2. (t - f) % h = t - f
    BY <1>1, <2>1, SmallRemainder
  <2>3. k \in Nat /\ k < t - f
    BY <1>1, <1>2, <2>2
  <2>4. f + k \in 0..h - 1 /\ f <= f + k /\ f + k < t
    BY <1>1, <2>3
  <2>5. (f + k) % h = f + k
    BY <1>1, <2>4, SmallRemainder
  <2>6. f <= hour /\ hour < t
    BY <1>2, <2>4, <2>5
  <2> QED
    BY <1>3, <2>6 DEF IsQuietHour, f, t
<1>4. CASE ~ (f <= t)
  <2>1. t - f \in (- h)..(- 1)
    BY <1>1, <1>4
  <2>2. (t - f) % h = t - f + h
    BY <1>1, <2>1, NegativeRemainder
  <2>3. k \in Nat /\ k < t - f + h
    BY <1>1, <1>2, <2>2
  <2>4. f <= hour \/ hour < t
    <3>1. CASE f + k < h
      <4>1. f + k \in 0..h - 1 /\ f <= f + k
        BY <1>1, <2>3, <3>1
      <4>2. (f + k) % h = f + k
        BY <1>1, <4>1, SmallRemainder
      <4> QED
        BY <1>2, <4>1, <4>2
    <3>2. CASE ~ (f + k < h)
      <4>1. f + k \in h..2 * h - 1 /\ f + k - h < t
        BY <1>1, <2>3, <3>2
      <4>2. (f + k) % h = f + k - h
        BY <1>1, <4>1, NextRemainder
      <4> QED
        BY <1>2, <4>1, <4>2
    <3> QED
      BY <3>1, <3>2
  <2> QED
    BY <1>4, <2>4 DEF IsQuietHour, f, t
<1> QED
  BY <1>3, <1>4

\* The answer of turn t may be delivered.
Fine(t) ==
  LET job == Definition[turns[t].who]
  IN /\ job.announce
     /\ job.onlyIf => "!" \in Range(turns[t].answer)
     /\ turns[t].at % HoursADay \notin QuietHours(job.quiet)

\* Nothing of a job is sent before the answer has been checked.
SpeakInv ==
  /\ \A w \in Workers : pc[w] \in {"claude", "check"} => pieces[turn[w]] = << >>
  /\ \A w \in Workers :
       pc[w] \in {"deliver", "post"} /\ turns[turn[w]].who # Chat => Fine(turn[w])
  /\ \A t \in DOMAIN turns : turns[t].who # Chat /\ pieces[t] # << >> => Fine(t)

LEMMA DeliveredIsFine ==
  ASSUME IInv, NEW w \in Workers, Check(w), pc'[w] = "deliver"
  PROVE  Fine(turn[w])'
<1> DEFINE t == turn[w]
           job == Definition[turns[t].who]
<1>1. /\ t \in DOMAIN turns /\ turns[t].who \in Jobs /\ turns'[t].who = turns[t].who
      /\ turns'[t].answer = turns[t].answer /\ turns'[t].at = now
      /\ Delivers(job, turns[t].answer)
  BY CheckIs
<1>2. job.quiet \in [from : Hours, to : Hours]
  BY <1>1, DefinitionsAreDefined DEF JobDefinitions
<1>3. turn'[w] = turn[w]
  <2>1. pc \in [Workers -> PcValues]
    BY DEF IInv, ControlTyped
  <2>2. ~ Reset(w)
    BY <2>1 DEF Reset, Go
  <2> QED
    BY <2>2 DEF Check
<1>4. now % HoursADay \notin QuietHours(job.quiet)
  BY <1>1, <1>2, QuietIsQuiet DEF Delivers
<1>5. job.announce /\ (job.onlyIf => "!" \in Range(turns[t].answer))
  <2>1. job.announce /\ (job.onlyIf => Contains(turns[t].answer, "!"))
    BY <1>1 DEF Delivers
  <2>2. turns[t].answer \in Seq(Alphabet)
    BY <1>1, TurnAt DEF IInv, TurnRecords
  <2>3. DOMAIN turns[t].answer = 1..Len(turns[t].answer)
    BY <2>2, LenProperties
  <2> QED
    BY <2>1, <2>3 DEF Contains, Range
<1> QED
  BY <1>1, <1>3, <1>4, <1>5 DEF Fine

LEMMA SpeakStep ==
  ASSUME IInv, SpeakInv, [Next]_vars
  PROVE  SpeakInv'
<1>1. \A v, w \in Workers : pc[w] # "idle" /\ turn[v] = turn[w] => v = w
  BY DEF IInv, Apart, ControlTyped
<1>2. ASSUME NEW w \in Workers, JobAnswered(w) \/ Check(w)
      PROVE  pc[w] \in {"claude", "check"}
  BY <1>2 DEF JobAnswered, Check
<1>3. ASSUME NEW w \in Workers, PostPiece(w) \/ PostLast(w)
      PROVE  pc[w] = "post"
  BY <1>3 DEF PostPiece, PostLast
<1>4. ASSUME NEW w \in Workers, pc[w] # "idle"
      PROVE  /\ turn[w] \in DOMAIN turns /\ turns'[turn[w]].who = turns[turn[w]].who
             /\ turns'[turn[w]] = turns[turn[w]] \/ pc[w] \in {"claude", "check"}
             /\ pieces'[turn[w]] = pieces[turn[w]] \/ pc[w] = "post"
  <2>1. turn[w] \in DOMAIN turns
    BY <1>4, TurnOf DEF IInv
  <2>2. turns'[turn[w]].who = turns[turn[w]].who
    BY <2>1, TurnsStep
  <2> QED
    BY <1>1, <1>2, <1>3, <1>4, <2>1, <2>2, TurnStep
<1>5. ASSUME NEW w \in Workers, pc'[w] \in {"claude", "check"}
      PROVE  pieces'[turn'[w]] = << >>
  <2>1. CASE pc'[w] = pc[w] /\ turn'[w] = turn[w]
    BY <1>4, <1>5, <2>1 DEF SpeakInv
  <2>2. CASE StartJob(w) /\ turn'[w] = Len(turns) + 1
    BY <2>2, StartJobIs
  <2>3. CASE turn'[w] = turn[w] /\ pc[w] = "claude"
    BY <1>4, <2>3 DEF SpeakInv
  <2> QED
    BY <1>5, <2>1, <2>2, <2>3, WorkerStep DEF OneStep
<1>6. ASSUME NEW t, turns'[t] = turns[t], Fine(t)
      PROVE  Fine(t)'
  BY <1>6 DEF Fine, QuietHours
<1>7. ASSUME NEW w \in Workers, pc'[w] \in {"deliver", "post"}, turns'[turn'[w]].who # Chat
      PROVE  Fine(turn[w])'
  <2>1. CASE pc[w] \in {"deliver", "post"} /\ turn'[w] = turn[w]
    <3>1. Fine(turn[w]) /\ turns'[turn[w]] = turns[turn[w]]
      BY <1>4, <1>7, <2>1 DEF SpeakInv
    <3>2. PICK t : t = turn[w]
      OBVIOUS
    <3>3. Fine(t)'
      BY <1>6, <3>1, <3>2
    <3> QED
      BY <2>1, <3>2, <3>3 DEF Fine
  <2>2. CASE Check(w) /\ pc'[w] = "deliver"
    BY <2>2, DeliveredIsFine
  <2>3. CASE turn'[w] = turn[w] /\ pc[w] \in AtMemory
    <3>1. turns[turn[w]].who = Chat /\ pc[w] # "idle"
      BY <2>3 DEF IInv, Roles, AtMemory
    <3> QED
      BY <1>4, <1>7, <2>3, <3>1
  <2> QED
    BY <1>7, <2>1, <2>2, <2>3, WorkerStep DEF OneStep, AtMemory
<1>8. ASSUME NEW t \in DOMAIN turns', turns'[t].who # Chat, pieces'[t] # << >>
      PROVE  Fine(t)'
  <2>1. t \in DOMAIN turns
    BY <1>8, NewTurn
  <2>2. turns'[t].who = turns[t].who
    BY <2>1, TurnsStep
  <2>3. Fine(t)
    <3>1. CASE pieces'[t] = pieces[t]
      BY <1>8, <2>1, <2>2, <3>1 DEF SpeakInv
    <3>2. CASE pieces'[t] # pieces[t]
      <4>1. PICK w \in Workers : turn[w] = t /\ pc[w] = "post"
        BY <1>3, <2>1, <3>2, TurnStep
      <4> QED
        BY <1>8, <2>2, <4>1 DEF SpeakInv
    <3> QED
      BY <3>1, <3>2
  <2>4. turns'[t] = turns[t]
    <3>1. ASSUME NEW w \in Workers, turn[w] = t, pc[w] \in {"claude", "check"} PROVE FALSE
      BY <1>4, <1>8, <3>1 DEF SpeakInv
    <3> QED
      BY <1>2, <2>1, <3>1, TurnStep
  <2> QED
    BY <1>6, <2>3, <2>4
<1> QED
  BY <1>5, <1>7, <1>8 DEF SpeakInv, Fine

(* A job speaks only of answers that notifyOnlyIf lets through and outside *)
(* its quiet hours, over midnight too (isQuietHour, runJob): for all job   *)
(* definitions and lengths of the day.                                     *)
THEOREM JobsCorrect == Spec => []JobsSpeakInTime
<1>1. Init => SpeakInv
  <2> SUFFICES ASSUME Init PROVE SpeakInv
    OBVIOUS
  <2>1. DOMAIN turns = {}
    BY DEF Init
  <2> QED
    BY <2>1 DEF Init, SpeakInv
<1>2. IInv /\ SpeakInv /\ [Next]_vars => SpeakInv'
  BY SpeakStep
<1>3. SpeakInv => JobsSpeakInTime
  BY DEF SpeakInv, Fine, JobsSpeakInTime
<1> QED
  BY <1>1, <1>2, <1>3, Typed, PTL DEF Spec

-----------------------------------------------------------------------------
(* Daily files. *)

Places(t, d) == {i \in DOMAIN daily[d] : daily[d][i] = t}
Past(t) == t \in Range(recorded) \/ pieces[t] # << >>
Unplaced(t) == (\A d \in Days : Places(t, d) = {}) /\ ~ Past(t)
Written(t) == t \in unwritten \/ Places(t, DayOf(t)) # {}

\* A turn has its place before it is recorded and before its answer appears, a worker that
\* has not written it yet is the only one that will.
DailyInv ==
  /\ \A d \in Days : \A i \in DOMAIN daily[d] : daily[d][i] <= Len(turns)
  /\ \A i \in DOMAIN recorded : recorded[i] <= Len(turns)
  /\ \A t \in DOMAIN turns : \A d \in Days :
       /\ \A i, j \in Places(t, d) : i = j
       /\ Places(t, d) # {} => turns[t].who = Chat /\ d = DayOf(t)
  /\ \A w \in Workers :
       /\ pc[w] \in {"stat", "open", "append"} => Unplaced(turn[w])
       /\ pc[w] \in {"read", "truncate", "write", "post"} /\ turns[turn[w]].who = Chat
            => Written(turn[w])
  /\ \A t \in DOMAIN turns : turns[t].who = Chat /\ Past(t) => Written(t)

\* What one more record adds to a file.
LEMMA RecordAdded ==
  ASSUME NEW s \in Seq(Turns \cup {Header}), NEW h \in {<<Header>>, << >>}, NEW t \in Turns,
         NEW r, r = s \o h \o <<t>>
  PROVE  /\ r \in Seq(Turns \cup {Header}) /\ DOMAIN r = 1..Len(r) /\ DOMAIN s = 1..Len(s)
         /\ Len(s) \in Nat /\ Len(r) = IF h = << >> THEN Len(s) + 1 ELSE Len(s) + 2
         /\ r[Len(r)] = t
         /\ \A i \in 1..Len(s) : r[i] = s[i]
         /\ h # << >> => r[Len(s) + 1] = Header
<1> DEFINE Records == Turns \cup {Header}
<1>1. <<t>> \in Seq(Records) /\ h \in Seq(Records) /\ s \in Seq(Records)
  <2>1. \A e \in Records : <<e>> \in Seq(Records)
    OBVIOUS
  <2> QED
    BY <2>1, EmptySeq
<1> HIDE DEF Records
<1>2. Len(s) \in Nat /\ DOMAIN s = 1..Len(s)
  BY <1>1, LenProperties
<1>3. Len(<<t>>) = 1 /\ <<t>>[1] = t /\ Len(<<Header>>) = 1 /\ <<Header>>[1] = Header
      /\ Len(<< >>) = 0
  OBVIOUS
<1>4. PICK u : u = s \o h
  OBVIOUS
<1>5. /\ u \in Seq(Records) /\ Len(u) = Len(s) + Len(h)
      /\ \A i \in 1..Len(s) + Len(h) : u[i] = IF i <= Len(s) THEN s[i] ELSE h[i - Len(s)]
  BY <1>1, <1>4, ConcatProperties
<1>6. PICK e : e = <<t>>
  OBVIOUS
<1>7. /\ r \in Seq(Records) /\ Len(r) = Len(u) + Len(e)
      /\ \A i \in 1..Len(u) + Len(e) : r[i] = IF i <= Len(u) THEN u[i] ELSE e[i - Len(u)]
  <2>1. e \in Seq(Records) /\ u \in Seq(Records)
    BY <1>1, <1>5, <1>6
  <2>2. /\ u \o e \in Seq(Records) /\ Len(u \o e) = Len(u) + Len(e)
        /\ \A i \in 1..Len(u) + Len(e) :
             (u \o e)[i] = IF i <= Len(u) THEN u[i] ELSE e[i - Len(u)]
    BY <2>1, ConcatProperties
  <2>3. r = u \o e
    BY <1>4, <1>6
  <2> QED
    BY Zenon, <2>2, <2>3
<1>8. DOMAIN r = 1..Len(r) /\ Len(e) = 1 /\ e[1] = t
  BY <1>3, <1>6, <1>7, LenProperties
<1>9. CASE h = << >>
  <2>1. Len(u) = Len(s) /\ Len(r) = Len(s) + 1
    BY <1>2, <1>3, <1>5, <1>7, <1>8, <1>9
  <2>2. r[Len(s) + 1] = t /\ \A i \in 1..Len(s) : r[i] = s[i]
    BY <1>2, <1>5, <1>7, <1>8, <2>1
  <2> QED
    BY <1>2, <1>7, <1>8, <1>9, <2>1, <2>2 DEF Records
<1>10. CASE h = <<Header>>
  <2>1. << >> # <<Header>>
    BY <1>3
  <2>2. Len(u) = Len(s) + 1 /\ Len(r) = Len(s) + 2
    BY <1>2, <1>3, <1>5, <1>7, <1>8, <1>10
  <2>3. u[Len(s) + 1] = Header /\ \A i \in 1..Len(s) : u[i] = s[i]
    BY <1>2, <1>3, <1>5, <1>10
  <2>4. /\ r[Len(s) + 2] = t /\ r[Len(s) + 1] = Header
        /\ \A i \in 1..Len(s) : r[i] = s[i]
    BY <1>2, <1>7, <1>8, <2>2, <2>3
  <2> QED
    BY <1>2, <1>7, <1>8, <1>10, <2>1, <2>2, <2>4 DEF Records
<1> QED
  BY <1>9, <1>10

LEMMA DailyFrame ==
  ASSUME IInv, [Next]_vars
  PROVE  /\ UNCHANGED daily \/ \E w \in Workers : WriteDaily(w)
         /\ \/ UNCHANGED recorded
            \/ \E w \in Workers : /\ recorded' = Append(recorded, turn[w])
                                  /\ Truncate(w) \/ Write(w)
         /\ unwritten \subseteq unwritten'
<1>1. CASE UNCHANGED vars
  BY <1>1 DEF vars, files, ghosts
<1>2. ASSUME NEW w \in Workers, Handle(w) \/ Run(w)
      PROVE  /\ UNCHANGED daily \/ WriteDaily(w)
             /\ UNCHANGED recorded \/ Truncate(w) \/ Write(w)
             /\ UNCHANGED unwritten \/ DailyFails(w)
  BY <1>2, Zenon DEF Handle, Run, Answered, Stat, Open, WriteDaily, DailyFails, ReadCurrent,
          Truncate, Write, PostPiece, PostLast, PostFails, StartJob, JobAnswered, JobFails, Check,
          Deliver, files, ghosts
<1>3. ASSUME NEW w \in Workers, Truncate(w) \/ Write(w)
      PROVE  recorded' = recorded \/ recorded' = Append(recorded, turn[w])
  BY <1>3 DEF Truncate, Write, Send
<1>4. ASSUME NEW w \in Workers, DailyFails(w)
      PROVE  unwritten \subseteq unwritten'
  BY <1>4 DEF DailyFails
<1>5. CASE Die \/ Tick
  BY <1>5 DEF Die, Tick, files, ghosts
<1> QED
  BY <1>1, <1>2, <1>3, <1>4, <1>5 DEF Next

LEMMA RecordWritten ==
  ASSUME IInv, NEW w \in Workers, WriteDaily(w)
  PROVE  /\ turn[w] \in DOMAIN turns /\ turn[w] \in Turns /\ DayOf(turn[w]) \in Days
         /\ turns' = turns /\ unwritten' = unwritten
         /\ daily' = [daily EXCEPT ![DayOf(turn[w])] = @ \o HeaderOf(w) \o <<turn[w]>>]
         /\ \A d \in Days : d # DayOf(turn[w]) => daily'[d] = daily[d]
         /\ daily'[DayOf(turn[w])] = daily[DayOf(turn[w])] \o HeaderOf(w) \o <<turn[w]>>
         /\ daily[DayOf(turn[w])] \in Seq(Turns \cup {Header})
         /\ HeaderOf(w) \in {<<Header>>, << >>}
<1>1. turns[turn[w]] \in TurnRecords /\ turn[w] \in DOMAIN turns /\ turn[w] \in Turns
  BY TurnOf DEF WriteDaily, IInv
<1>2. DayOf(turn[w]) \in Days
  BY <1>1, DayIsDay
<1>3. daily' = [daily EXCEPT ![DayOf(turn[w])] = @ \o HeaderOf(w) \o <<turn[w]>>]
      /\ turns' = turns /\ unwritten' = unwritten
  BY DEF WriteDaily, ghosts
<1>4. daily \in [Days -> Seq(Turns \cup {Header})]
  BY DEF IInv, FilesTyped
<1>5. \A d \in Days : d # DayOf(turn[w]) => daily'[d] = daily[d]
  BY <1>3, <1>4
<1>6. daily'[DayOf(turn[w])] = daily[DayOf(turn[w])] \o HeaderOf(w) \o <<turn[w]>>
  BY Zenon, <1>2, <1>3, <1>4
<1>7. HeaderOf(w) \in {<<Header>>, << >>}
  BY DEF HeaderOf
<1>8. daily[DayOf(turn[w])] \in Seq(Turns \cup {Header})
  BY <1>2, <1>4
<1> QED
  BY <1>1, <1>2, <1>3, <1>5, <1>6, <1>7, <1>8

LEMMA PlacesStep ==
  ASSUME IInv, DailyInv, [Next]_vars, NEW d \in Days, NEW t \in Turns
  PROVE  /\ \/ Places(t, d)' = Places(t, d)
            \/ \E w \in Workers : /\ WriteDaily(w) /\ turn[w] = t /\ d = DayOf(t)
                                  /\ \E n : Places(t, d)' = {n}
         /\ \A i \in DOMAIN daily'[d] : daily'[d][i] <= Len(turns')
<1>0. Len(turns) \in Nat /\ Len(turns') \in Nat /\ Len(turns) <= Len(turns')
      /\ DOMAIN turns = 1..Len(turns)
  BY TurnsStep
<1>1. CASE daily'[d] = daily[d]
  <2>1. daily[d] \in Seq(Turns \cup {Header})
    BY DEF IInv, FilesTyped
  <2>2. \A i \in DOMAIN daily[d] : daily[d][i] \in Nat
    BY <2>1, LenProperties, Bounds DEF Turns, Header
  <2>3. \A i \in DOMAIN daily[d] : daily[d][i] <= Len(turns)
    BY DEF DailyInv
  <2>4. \A i \in DOMAIN daily[d] : daily[d][i] <= Len(turns')
    BY <1>0, <2>2, <2>3
  <2> QED
    BY <1>1, <2>4 DEF Places
<1>2. ASSUME NEW w \in Workers, WriteDaily(w), d = DayOf(turn[w])
      PROVE  /\ Places(t, d)' = Places(t, d) \/ (turn[w] = t /\ \E n : Places(t, d)' = {n})
             /\ \A i \in DOMAIN daily'[d] : daily'[d][i] <= Len(turns')
  <2> DEFINE s == daily[d]
             r == daily'[d]
             h == HeaderOf(w)
  <2>1. /\ turn[w] \in DOMAIN turns /\ turn[w] \in Turns /\ turns' = turns
        /\ r = s \o h \o <<turn[w]>> /\ s \in Seq(Turns \cup {Header})
        /\ h \in {<<Header>>, << >>}
    BY <1>2, RecordWritten
  <2>2. (\A i \in DOMAIN s : s[i] <= Len(turns)) /\ (turn[w] = t => Places(t, d) = {})
    BY <1>2 DEF DailyInv, Unplaced, WriteDaily
  <2>3. Places(t, d) = {i \in DOMAIN s : s[i] = t} /\ Places(t, d)' = {i \in DOMAIN r : r[i] = t}
    BY DEF Places
  <2>4. t # Header /\ Header <= Len(turns) /\ turn[w] <= Len(turns)
    BY <1>0, <2>1 DEF Turns, Header
  <2> HIDE DEF s, r, h
  <2>5. /\ DOMAIN r = 1..Len(r) /\ DOMAIN s = 1..Len(s)
        /\ Len(s) \in Nat /\ Len(r) = IF h = << >> THEN Len(s) + 1 ELSE Len(s) + 2
        /\ r[Len(r)] = turn[w]
        /\ \A i \in 1..Len(s) : r[i] = s[i]
        /\ h # << >> => r[Len(s) + 1] = Header
    <3>1. PICK u \in Turns : u = turn[w]
      BY <2>1
    <3>2. r = s \o h \o <<u>>
      BY <2>1, <3>1
    <3>3. s \in Seq(Turns \cup {Header}) /\ h \in {<<Header>>, << >>}
      BY <2>1
    <3>4. /\ DOMAIN r = 1..Len(r) /\ Len(s) \in Nat
          /\ Len(r) = IF h = << >> THEN Len(s) + 1 ELSE Len(s) + 2
          /\ r[Len(r)] = u
      BY SMTT(30), <3>2, <3>3, RecordAdded
    <3>5. \A i \in 1..Len(s) : r[i] = s[i]
      BY <3>2, <3>3, RecordAdded
    <3>6. h # << >> => r[Len(s) + 1] = Header
      BY <3>2, <3>3, RecordAdded
    <3>7. DOMAIN s = 1..Len(s)
      BY <3>3, LenProperties
    <3> QED
      BY <3>1, <3>4, <3>5, <3>6, <3>7
  <2>6. \A i \in 1..Len(r) : \/ i \in 1..Len(s) /\ r[i] = s[i]
                             \/ i = Len(r) /\ r[i] = turn[w] /\ i \notin 1..Len(s)
                             \/ r[i] = Header /\ i \notin 1..Len(s)
    BY <2>5
  <2>7. \A i \in DOMAIN r : r[i] <= Len(turns')
    BY <2>1, <2>2, <2>4, <2>5, <2>6
  <2>8. CASE turn[w] = t
    <3>1. \A i \in 1..Len(s) : s[i] # t
      BY <2>2, <2>3, <2>5, <2>8
    <3>2. {i \in DOMAIN r : r[i] = t} = {Len(r)}
      BY <2>4, <2>5, <2>6, <2>8, <3>1
    <3> QED
      BY <2>3, <2>7, <2>8, <3>2 DEF r
  <2>9. CASE turn[w] # t
    <3>1. {i \in DOMAIN r : r[i] = t} = {i \in DOMAIN s : s[i] = t}
      BY <2>4, <2>5, <2>6, <2>9
    <3> QED
      BY <2>3, <2>7, <3>1 DEF r
  <2> QED
    BY <2>8, <2>9
<1>3. \/ daily'[d] = daily[d] \/ \E w \in Workers : WriteDaily(w) /\ d = DayOf(turn[w])
  BY DailyFrame, RecordWritten
<1> QED
  BY <1>1, <1>2, <1>3

LEMMA DailyStep ==
  ASSUME IInv, DailyInv, [Next]_vars
  PROVE  DailyInv'
<1>0. /\ Len(turns) \in Nat /\ Len(turns') \in Nat /\ Len(turns) <= Len(turns')
      /\ DOMAIN turns = 1..Len(turns) /\ DOMAIN turns' = 1..Len(turns')
      /\ TurnsTyped' /\ Len(turns') <= MaxTurns
  BY TurnsStep DEF TurnsTyped
<1>1. \A t \in DOMAIN turns' : t \in Turns
  BY <1>0, Bounds DEF Turns
<1>2. \A t \in DOMAIN turns : t \in DOMAIN turns' /\ t \in Turns
  BY <1>0, <1>1
<1>3. recorded' = recorded \/ \E w \in Workers : /\ recorded' = Append(recorded, turn[w])
                                                 /\ pc[w] \in {"truncate", "write"}
                                                 /\ turns[turn[w]].who = Chat
                                                 /\ turn[w] \in DOMAIN turns
  <2>1. ASSUME NEW w \in Workers, Truncate(w) \/ Write(w)
        PROVE  pc[w] \in {"truncate", "write"} /\ turns[turn[w]].who = Chat
               /\ turn[w] \in DOMAIN turns
    BY <2>1, TurnOf DEF Truncate, Write, IInv, Roles, AtMemory
  <2> QED
    BY <2>1, DailyFrame
<1>4. /\ \A d \in Days : \A i \in DOMAIN daily'[d] : daily'[d][i] <= Len(turns')
      /\ \A t \in DOMAIN turns', d \in Days :
           \/ Places(t, d)' = Places(t, d)
           \/ \E w \in Workers : /\ WriteDaily(w) /\ turn[w] = t /\ d = DayOf(t)
                                 /\ \E n : Places(t, d)' = {n}
  <2>1. ASSUME NEW t \in DOMAIN turns', NEW d \in Days
        PROVE  \/ Places(t, d)' = Places(t, d)
               \/ \E w \in Workers : /\ WriteDaily(w) /\ turn[w] = t /\ d = DayOf(t)
                                     /\ \E n : Places(t, d)' = {n}
    BY <1>1, PlacesStep
  <2>2. ASSUME NEW d \in Days
        PROVE  \A i \in DOMAIN daily'[d] : daily'[d][i] <= Len(turns')
    <3>1. CASE Turns = {}
      <4>1. daily[d] = daily'[d]
        <5>1. \A w \in Workers : ~ WriteDaily(w)
          BY <3>1, RecordWritten
        <5> QED
          BY <5>1, DailyFrame
      <4>2. \A i \in DOMAIN daily[d] : daily[d][i] \in Nat /\ daily[d][i] <= Len(turns)
        <5>1. daily[d] \in Seq(Turns \cup {Header})
          BY DEF IInv, FilesTyped
        <5> QED
          BY <3>1, <5>1, LenProperties DEF Header, DailyInv
      <4> QED
        BY <1>0, <4>1, <4>2
    <3>2. CASE Turns # {}
      BY <3>2, PlacesStep
    <3> QED
      BY <3>1, <3>2
  <2> QED
    BY <2>1, <2>2
<1>5. ASSUME NEW t \in DOMAIN turns', t \notin DOMAIN turns
      PROVE  Unplaced(t)'
  <2>1. t = Len(turns) + 1 /\ pieces'[t] = << >>
    BY <1>5, NewTurn
  <2>2. PICK v \in Workers : Answered(v) \/ StartJob(v)
    BY <1>5, NewTurn
  <2>3. daily' = daily /\ recorded' = recorded
    BY <2>2 DEF Answered, StartJob, files
  <2>4. \A d \in Days : Places(t, d)' = {}
    BY <1>0, <2>1, <2>3 DEF Places, DailyInv
  <2>5. t \notin Range(recorded)
    BY <1>0, <2>1 DEF DailyInv, Range
  <2> QED
    BY <2>1, <2>3, <2>4, <2>5 DEF Unplaced, Past
<1>6. \A i \in DOMAIN recorded' : recorded'[i] <= Len(turns')
  <2>1. recorded \in Seq(Turns)
    BY DEF IInv, GhostsTyped
  <2>2. \A i \in DOMAIN recorded : recorded[i] \in Nat /\ recorded[i] <= Len(turns')
    <3>1. \A i \in DOMAIN recorded : recorded[i] \in Turns
      BY <2>1, LenProperties
    <3> QED
      BY <1>0, <3>1, Bounds DEF DailyInv, Turns
  <2>3. ASSUME NEW w \in Workers, recorded' = Append(recorded, turn[w]), turn[w] \in DOMAIN turns
        PROVE  <1>6
    <3>1. PICK t \in Turns : t = turn[w] /\ t <= Len(turns')
      BY <1>0, <1>2, <2>3
    <3>2. recorded' = Append(recorded, t)
      BY <2>3, <3>1
    <3>3. /\ recorded' \in Seq(Turns) /\ Len(recorded') = Len(recorded) + 1
          /\ \A i \in 1..Len(recorded) : recorded'[i] = recorded[i]
          /\ recorded'[Len(recorded) + 1] = t
      BY <2>1, <3>2, AppendProperties
    <3>4. DOMAIN recorded' = 1..Len(recorded) + 1 /\ DOMAIN recorded = 1..Len(recorded)
          /\ Len(recorded) \in Nat
      BY <2>1, <3>3, LenProperties
    <3> QED
      BY <2>2, <3>1, <3>3, <3>4
  <2> QED
    BY <1>3, <2>2, <2>3
<1>7. ASSUME NEW t \in DOMAIN turns, turns[t].who = Chat
      PROVE  turns'[t] = turns[t] /\ DayOf(t)' = DayOf(t)
  BY <1>7, TurnsStep DEF DayOf
<1>8. ASSUME NEW t \in DOMAIN turns, turns[t].who = Chat, Written(t)
      PROVE  Written(t)'
  <2>1. DayOf(t) \in Days
    <3>1. turns[t] \in TurnRecords
      BY TurnAt DEF IInv
    <3> QED
      BY <3>1, DayIsDay
  <2>2. PICK d \in Days : d = DayOf(t)
    BY <2>1
  <2>3. Places(t, d) # {} => Places(t, d)' # {}
    BY <1>2, <1>4
  <2>4. unwritten \subseteq unwritten'
    BY DailyFrame
  <2>5. DayOf(t)' = d
    BY <1>7, <1>8, <2>2
  <2>6. Places(t, DayOf(t))' = Places(t, d)'
    BY <2>5 DEF Places
  <2> QED
    BY <1>8, <2>2, <2>3, <2>4, <2>6 DEF Written
<1>9. ASSUME NEW t \in DOMAIN turns', NEW d \in Days
      PROVE  /\ \A i, j \in Places(t, d)' : i = j
             /\ Places(t, d)' # {} => turns'[t].who = Chat /\ d = DayOf(t)'
  <2>1. CASE t \notin DOMAIN turns
    BY <1>5, <2>1 DEF Unplaced
  <2>2. CASE t \in DOMAIN turns /\ Places(t, d)' = Places(t, d)
    BY <1>7, <2>2 DEF DailyInv
  <2>3. ASSUME t \in DOMAIN turns, NEW w \in Workers, WriteDaily(w), turn[w] = t, d = DayOf(t),
               NEW n, Places(t, d)' = {n}
        PROVE  /\ \A i, j \in Places(t, d)' : i = j
               /\ Places(t, d)' # {} => turns'[t].who = Chat /\ d = DayOf(t)'
    <3>1. turns[t].who = Chat
      BY <2>3 DEF WriteDaily, IInv, Roles, AtMemory
    <3> QED
      BY <1>7, <2>3, <3>1
  <2> QED
    BY <1>4, <2>1, <2>2, <2>3
<1>10. \A v, w \in Workers : pc[w] # "idle" /\ turn[v] = turn[w] => v = w
  BY DEF IInv, Apart, ControlTyped
<1>11. ASSUME NEW t \in DOMAIN turns, Past(t)'
       PROVE  Past(t) \/ \E w \in Workers : turn[w] = t /\ pc[w] \in {"truncate", "write", "post"}
  <2>1. CASE pieces'[t] # << >>
    <3>1. ASSUME NEW w \in Workers, PostPiece(w) \/ PostLast(w) PROVE pc[w] = "post"
      BY <3>1 DEF PostPiece, PostLast
    <3> QED
      BY <2>1, <3>1, TurnStep DEF Past
  <2>2. CASE t \in Range(recorded')
    <3>1. ASSUME NEW w \in Workers, recorded' = Append(recorded, turn[w]), turn[w] \in DOMAIN turns
          PROVE  t \in Range(recorded) \/ turn[w] = t
      <4>1. PICK u \in Turns : u = turn[w]
        BY <1>2, <3>1
      <4>2. recorded \in Seq(Turns) /\ recorded' = Append(recorded, u)
        BY <3>1, <4>1 DEF IInv, GhostsTyped
      <4>3. /\ recorded' \in Seq(Turns) /\ Len(recorded') = Len(recorded) + 1
            /\ \A i \in 1..Len(recorded) : recorded'[i] = recorded[i]
            /\ recorded'[Len(recorded) + 1] = u
        BY <4>2, AppendProperties
      <4>4. DOMAIN recorded' = 1..Len(recorded) + 1 /\ DOMAIN recorded = 1..Len(recorded)
            /\ Len(recorded) \in Nat
        BY <4>2, <4>3, LenProperties
      <4>5. PICK i \in DOMAIN recorded' : recorded'[i] = t
        BY <2>2 DEF Range
      <4> QED
        BY <4>1, <4>3, <4>4, <4>5 DEF Range
    <3> QED
      BY <1>3, <2>2, <3>1 DEF Past
  <2> QED
    BY <1>11, <2>1, <2>2 DEF Past
<1>12. ASSUME NEW t \in DOMAIN turns, Unplaced(t),
              NEW w \in Workers, turn[w] = t, pc[w] \in {"stat", "open", "append"}, ~ WriteDaily(w)
       PROVE  Unplaced(t)'
  <2>1. \A v \in Workers : turn[v] = t => v = w
    BY <1>10, <1>12
  <2>2. ~ Past(t)'
    BY <1>11, <1>12, <2>1 DEF Unplaced
  <2>3. \A d \in Days : Places(t, d)' = Places(t, d)
    BY <1>2, <1>4, <1>12, <2>1
  <2> QED
    BY <1>12, <2>2, <2>3 DEF Unplaced, Days
<1>13. ASSUME NEW w \in Workers, pc'[w] \in {"stat", "open", "append"}
       PROVE  Unplaced(turn[w])'
  <2>1. CASE Answered(w) /\ turn'[w] = Len(turns) + 1
    <3>0. Len(turns') = Len(turns) + 1
      BY <2>1, AnsweredIs
    <3>1. PICK t : t = Len(turns) + 1 /\ t \in DOMAIN turns' /\ t \notin DOMAIN turns
      <4>1. Len(turns) + 1 \in DOMAIN turns' /\ Len(turns) + 1 \notin DOMAIN turns
        BY <1>0, <3>0
      <4> QED
        BY <4>1
    <3>2. Unplaced(t)'
      BY <1>5, <3>1
    <3> QED
      BY <2>1, <3>1, <3>2 DEF Unplaced, Places, Past
  <2>2. CASE pc[w] \in {"stat", "open", "append"} /\ turn'[w] = turn[w]
    <3>1. PICK t \in DOMAIN turns : t = turn[w]
      BY <2>2, TurnOf DEF IInv
    <3>2. ~ WriteDaily(w)
      BY <1>13 DEF WriteDaily, Go, IInv, ControlTyped
    <3>3. Unplaced(t)
      BY <2>2, <3>1 DEF DailyInv
    <3>4. Unplaced(t)'
      BY <1>12, <2>2, <3>1, <3>2, <3>3
    <3> QED
      BY <2>2, <3>1, <3>4 DEF Unplaced, Places, Past
  <2> QED
    BY <1>13, <2>1, <2>2, WorkerStep DEF OneStep
<1>14. ASSUME NEW w \in Workers, WriteDaily(w) \/ DailyFails(w)
       PROVE  Written(turn[w])' \/ turn'[w] # turn[w]
  <2>0. pc[w] # "idle" /\ pc[w] \in AtMemory
    BY <1>14 DEF WriteDaily, DailyFails, AtMemory
  <2>1. turn[w] \in DOMAIN turns /\ turns[turn[w]].who = Chat
    BY <2>0, TurnOf DEF IInv, Roles
  <2>2. PICK t \in DOMAIN turns : t = turn[w] /\ turns[t].who = Chat
    BY <2>1
  <2>3. CASE DailyFails(w)
    BY <2>3 DEF DailyFails, Written
  <2>4. CASE WriteDaily(w)
    <3> DEFINE d == DayOf(t)
               s == daily[d]
               r == daily'[d]
               h == HeaderOf(w)
    <3>1. r = s \o h \o <<t>> /\ s \in Seq(Turns \cup {Header}) /\ h \in {<<Header>>, << >>}
      BY <2>2, <2>4, RecordWritten
    <3>2. t \in Turns
      BY <1>2
    <3>3. d' = d
      BY <1>7, <2>2
    <3>4. Len(r) \in DOMAIN r /\ r[Len(r)] = t
      <4> HIDE DEF r, s, h
      <4>1. /\ Len(s) \in Nat /\ Len(r) = IF h = << >> THEN Len(s) + 1 ELSE Len(s) + 2
            /\ DOMAIN r = 1..Len(r) /\ r[Len(r)] = t
        BY <3>1, <3>2, RecordAdded
      <4> QED
        BY <4>1
    <3>5. {i \in DOMAIN r : r[i] = t} # {}
      BY <3>4
    <3>6. Written(t)'
      BY <3>3, <3>5 DEF Written, Places
    <3> QED
      BY <2>2, <3>6 DEF Written, Places, DayOf
  <2> QED
    BY <1>14, <2>3, <2>4
<1>15. ASSUME NEW w \in Workers, pc'[w] \in {"read", "truncate", "write", "post"},
              turns'[turn'[w]].who = Chat
       PROVE  Written(turn[w])'
  <2>1. CASE WriteDaily(w) \/ DailyFails(w)
    <3>1. turn'[w] = turn[w]
      BY <2>1 DEF WriteDaily, DailyFails
    <3> QED
      BY <1>14, <2>1, <3>1
  <2>2. CASE turn'[w] = turn[w] /\ pc[w] \in {"read", "truncate", "write", "post", "deliver"}
    <3>1. PICK t \in DOMAIN turns : t = turn[w]
      BY <2>2, TurnOf DEF IInv
    <3>2. turns[t].who = Chat
      BY <1>15, <2>2, <3>1, TurnsStep
    <3>3. pc[w] # "deliver"
      BY <3>1, <3>2, DefinitionsAreDefined DEF IInv, Roles, AtJob
    <3>4. Written(t)
      BY <2>2, <3>1, <3>2, <3>3 DEF DailyInv
    <3>5. Written(t)'
      BY <1>8, <3>2, <3>4
    <3> QED
      BY <2>2, <3>1, <3>5 DEF Written, Places, DayOf
  <2> QED
    BY <1>15, <2>1, <2>2, WorkerStep DEF OneStep
<1>16. ASSUME NEW t \in DOMAIN turns', turns'[t].who = Chat, Past(t)'
       PROVE  Written(t)'
  <2>1. t \in DOMAIN turns
    BY <1>5, <1>16 DEF Unplaced
  <2>2. turns[t].who = Chat
    BY <1>16, <2>1, TurnsStep
  <2>3. Written(t)
    BY <1>11, <1>16, <2>1, <2>2 DEF DailyInv
  <2> QED
    BY <1>8, <2>1, <2>2, <2>3
<1> QED
  BY <1>4, <1>6, <1>9, <1>13, <1>15, <1>16
     DEF DailyInv, Days, Unplaced, Written, Places, Past, DayOf

(* Whatever interleaves, fails or dies: the record of a turn stands once,  *)
(* in the file of the day of its answer, before its answer can be seen,    *)
(* unless writing it failed (appendDaily, onMessageCreate).                *)
THEOREM DailyCorrect == Spec => []DailyHasAll
<1>1. Init => DailyInv
  <2> SUFFICES ASSUME Init PROVE DailyInv
    OBVIOUS
  <2>1. DOMAIN turns = {} /\ DOMAIN recorded = {} /\ \A d \in Days : DOMAIN daily[d] = {}
    BY DEF Init
  <2> QED
    BY <2>1 DEF Init, DailyInv
<1>2. IInv /\ DailyInv /\ [Next]_vars => DailyInv'
  BY DailyStep
<1>3. IInv /\ DailyInv => DailyHasAll
  <2> SUFFICES ASSUME IInv, DailyInv, NEW t \in DOMAIN turns, turns[t].who = Chat
               PROVE  /\ \A d \in Days : Copies(t, d) <= (IF d = DayOf(t) THEN 1 ELSE 0)
                      /\ Past(t) /\ t \notin unwritten => Copies(t, DayOf(t)) = 1
    BY DEF DailyHasAll, Past
  <2>1. \A d : Copies(t, d) = Cardinality(Places(t, d))
    BY DEF Copies, Places
  <2>2. Cardinality({}) = 0 /\ \A x : Cardinality({x}) = 1
    BY FS_EmptySet, FS_Singleton
  <2>3. ASSUME NEW d \in Days, Places(t, d) # {} PROVE Copies(t, d) = 1 /\ d = DayOf(t)
    <3>1. PICK i : i \in Places(t, d)
      BY <2>3
    <3>2. Places(t, d) = {i}
      BY <3>1 DEF DailyInv
    <3> QED
      BY <2>1, <2>2, <2>3, <3>2 DEF DailyInv
  <2>4. DayOf(t) \in Days
    <3>1. turns[t] \in TurnRecords
      BY TurnAt DEF IInv
    <3> QED
      BY <3>1, DayIsDay
  <2>5. \A d \in Days : Copies(t, d) <= (IF d = DayOf(t) THEN 1 ELSE 0)
    BY <2>1, <2>2, <2>3
  <2>6. ASSUME Past(t), t \notin unwritten PROVE Copies(t, DayOf(t)) = 1
    BY <2>3, <2>4, <2>6 DEF DailyInv, Written
  <2> QED
    BY <2>5, <2>6
<1> QED
  BY <1>1, <1>2, <1>3, Typed, PTL DEF Spec

-----------------------------------------------------------------------------
(* Appends that do not overlap. *)

Headed(d) ==
  daily[d] # << >> /\ daily[d][1] = Header /\ \A i \in 2..Len(daily[d]) : daily[d][i] # Header
Awaited(w, d) == pc[w] = "append" /\ DayOf(turn[w]) = d /\ daily[d] = << >>

\* What the worker of an Append has found is what is the case when it comes to write.
Ready(w) ==
  /\ pc[w] = "open" => (fresh[w] <=> DayOf(turn[w]) \notin exists)
  /\ pc[w] = "append" => /\ DayOf(turn[w]) \in exists
                         /\ fresh[w] <=> daily[DayOf(turn[w])] = << >>
  /\ pc[w] \in {"truncate", "write"} => Remembers(seen[w], recorded)

Between == \A w \in Workers : pc[w] \notin {"truncate", "write"}

CalmInv ==
  /\ \A v, w \in Workers : pc[v] \in AtMemory /\ pc[w] \in AtMemory => v = w
  /\ \A d \in Days : d \notin exists => daily[d] = << >>
  /\ Between => Remembers(current, recorded)
  /\ \A w \in Workers : Ready(w)
  /\ \A d \in exists : Headed(d) \/ \E w \in Workers : Awaited(w, d)

LEMMA SameDay ==
  ASSUME IInv, [Next]_vars, NEW w \in Workers, pc[w] \in AtMemory, turn'[w] = turn[w]
  PROVE  /\ DayOf(turn[w])' = DayOf(turn[w]) /\ DayOf(turn[w]) \in Days
         /\ turn[w] \in DOMAIN turns /\ turn[w] \in Turns
<1>1. /\ turn[w] \in DOMAIN turns /\ turns[turn[w]] \in TurnRecords /\ turn[w] \in Turns
      /\ turns[turn[w]].who = Chat
  BY TurnOf DEF AtMemory, IInv, Roles
<1>2. turns'[turn[w]] = turns[turn[w]]
  BY <1>1, TurnsStep
<1> QED
  BY <1>1, <1>2, DayIsDay DEF DayOf

\* Where no two Appends overlap and nothing fails, a step is one of these.
LEMMA CalmFrame ==
  ASSUME IInv, [Next]_vars, calm'
  PROVE  /\ calm
         /\ \/ /\ UNCHANGED <<exists, daily, current, recorded>>
               /\ \A v \in Workers : pc[v] \in AtMemory \/ pc'[v] \in AtMemory =>
                    /\ pc'[v] = pc[v] /\ turn'[v] = turn[v]
                    /\ fresh'[v] = fresh[v] /\ seen'[v] = seen[v]
            \/ Die /\ Remembering = {}
            \/ \E w \in Workers :
                 /\ \/ Answered(w) /\ Remembering = {}
                    \/ Stat(w) \/ Open(w) \/ WriteDaily(w) \/ ReadCurrent(w) \/ Truncate(w)
                    \/ Write(w)
                 /\ \A v \in Workers : v # w => /\ pc'[v] = pc[v] /\ turn'[v] = turn[v]
                                                /\ fresh'[v] = fresh[v] /\ seen'[v] = seen[v]
<1>1. CASE UNCHANGED vars
  BY <1>1 DEF vars, files, control, ghosts
<1>2. CASE Tick
  BY <1>2 DEF Tick, files, control, ghosts
<1>3. CASE Die
  BY <1>3 DEF Die
<1>4. ASSUME NEW w \in Workers,
             \/ PostPiece(w) \/ PostLast(w) \/ PostFails(w) \/ JobAnswered(w) \/ JobFails(w)
             \/ StartJob(w) \/ Check(w) \/ Deliver(w)
      PROVE  /\ calm /\ UNCHANGED <<exists, daily, current, recorded>>
             /\ \A v \in Workers : pc[v] \in AtMemory \/ pc'[v] \in AtMemory =>
                    /\ pc'[v] = pc[v] /\ turn'[v] = turn[v]
                    /\ fresh'[v] = fresh[v] /\ seen'[v] = seen[v]
  <2>1. calm /\ UNCHANGED <<exists, daily, current, recorded>>
    BY <1>4 DEF PostPiece, PostLast, PostFails, JobAnswered, JobFails, StartJob, Check, Deliver,
                files, ghosts
  <2>2. pc[w] \notin AtMemory /\ pc'[w] \notin AtMemory
    <3>1. pc \in [Workers -> PcValues]
      BY DEF IInv, ControlTyped
    <3>2. CASE Reset(w) /\ pc[w] \in {"post", "claude", "check", "deliver"}
      BY <3>1, <3>2 DEF Reset, Go, AtMemory
    <3>3. CASE PostPiece(w) \/ StartJob(w) \/ JobAnswered(w)
      BY <3>1, <3>3 DEF PostPiece, StartJob, Begin, JobAnswered, Go, AtMemory
    <3>4. CASE (Check(w) \/ Deliver(w)) /\ ~ Reset(w)
      BY <3>1, <3>4 DEF Check, Deliver, Go, AtMemory
    <3> QED
      BY <1>4, <3>2, <3>3, <3>4 DEF PostLast, PostFails, JobFails, Check, Deliver
  <2> QED
    BY <1>4, <2>1, <2>2, Others DEF Handle, Run
<1>5. ASSUME NEW w \in Workers,
             \/ Answered(w) \/ Stat(w) \/ Open(w) \/ WriteDaily(w) \/ ReadCurrent(w)
             \/ Truncate(w) \/ Write(w) \/ DailyFails(w)
      PROVE  /\ calm /\ (Answered(w) => Remembering = {}) /\ ~ DailyFails(w)
             /\ \A v \in Workers : v # w => /\ pc'[v] = pc[v] /\ turn'[v] = turn[v]
                                            /\ fresh'[v] = fresh[v] /\ seen'[v] = seen[v]
  <2>1. calm /\ (Answered(w) => Remembering = {}) /\ ~ DailyFails(w)
    BY <1>5 DEF Answered, Stat, Open, WriteDaily, ReadCurrent, Truncate, Write, DailyFails, Works,
                Fails, ghosts
  <2> QED
    BY <1>5, <2>1, Others DEF Handle
<1> QED
  BY <1>1, <1>2, <1>3, <1>4, <1>5 DEF Next, Handle, Run

LEMMA HeadedByRecord ==
  ASSUME NEW s \in Seq(Turns \cup {Header}), NEW h \in {<<Header>>, << >>}, NEW t \in Turns,
         NEW r, r = s \o h \o <<t>>, h = <<Header>> <=> s = << >>,
         s # << >> => s[1] = Header /\ \A i \in 2..Len(s) : s[i] # Header
  PROVE  r # << >> /\ r[1] = Header /\ \A i \in 2..Len(r) : r[i] # Header
<1>1. /\ DOMAIN r = 1..Len(r) /\ Len(s) \in Nat
      /\ Len(r) = IF h = << >> THEN Len(s) + 1 ELSE Len(s) + 2
      /\ r[Len(r)] = t
  BY RecordAdded
<1>2. \A i \in 1..Len(s) : r[i] = s[i]
  BY RecordAdded
<1>3. h # << >> => r[Len(s) + 1] = Header
  BY RecordAdded
<1>4. t # Header /\ Len(<< >>) = 0 /\ << >> # <<Header>> /\ DOMAIN << >> = {}
  BY Bounds DEF Turns, Header
<1>5. CASE s = << >>
  <2>1. Len(s) = 0 /\ h # << >> /\ Len(r) = 2
    BY <1>1, <1>4, <1>5
  <2> QED
    BY <1>1, <1>3, <1>4, <2>1
<1>6. CASE s # << >>
  <2>1. Len(s) > 0 /\ h = << >> /\ Len(r) = Len(s) + 1
    BY <1>1, <1>6, EmptySeq
  <2> QED
    BY <1>1, <1>2, <1>4, <1>6, <2>1
<1> QED
  BY <1>5, <1>6

\* The state after a step of w alone.
LEMMA CalmAfter ==
  ASSUME NEW w \in Workers,
         \A v \in Workers : v # w => pc'[v] \notin AtMemory,
         Ready(w)', \A d \in Days : d \notin exists' => daily'[d] = << >>,
         pc'[w] \notin {"truncate", "write"} => Remembers(current', recorded'),
         \A d \in exists' : Headed(d)' \/ Awaited(w, d)'
  PROVE  CalmInv'
<1>1. /\ \A v \in Workers : v # w => Ready(v)'
      /\ Between' => pc'[w] \notin {"truncate", "write"}
  BY DEF Ready, Between, AtMemory
<1>2. \A v \in Workers : Ready(v)'
  BY <1>1
<1>3. Between' => Remembers(current, recorded)'
  BY <1>1 DEF Remembers, HeadsOf
<1>4. \A d \in exists' : Headed(d)' \/ \E v \in Workers : Awaited(v, d)'
  OBVIOUS
<1> QED
  BY <1>2, <1>3, <1>4 DEF CalmInv, Days, AtMemory

LEMMA CalmStep ==
  ASSUME IInv, calm => CalmInv, [Next]_vars, calm'
  PROVE  CalmInv'
<1>0. CalmInv /\ \A v \in Workers : v \in Remembering <=> pc[v] \in AtMemory
  BY CalmFrame DEF Remembering, AtMemory
<1>1. CASE /\ UNCHANGED <<exists, daily, current, recorded>>
           /\ \A v \in Workers : pc[v] \in AtMemory \/ pc'[v] \in AtMemory =>
                /\ pc'[v] = pc[v] /\ turn'[v] = turn[v]
                /\ fresh'[v] = fresh[v] /\ seen'[v] = seen[v]
  <2>1. \A v \in Workers : pc[v] \in AtMemory => DayOf(turn[v])' = DayOf(turn[v])
    BY <1>1, SameDay
  <2>2. \A v, w \in Workers : pc'[v] \in AtMemory /\ pc'[w] \in AtMemory => v = w
    BY <1>0, <1>1 DEF CalmInv
  <2>3. Between' => Between
    BY <1>1 DEF Between, AtMemory
  <2>4. Between' => Remembers(current, recorded)'
    BY <1>0, <1>1, <2>3 DEF CalmInv, Remembers, HeadsOf
  <2>5. ASSUME NEW v \in Workers PROVE Ready(v)'
    <3>1. CASE pc'[v] \notin AtMemory
      BY <3>1 DEF Ready, AtMemory
    <3>2. CASE pc'[v] \in AtMemory
      <4>1. /\ pc'[v] = pc[v] /\ fresh'[v] = fresh[v] /\ seen'[v] = seen[v]
            /\ DayOf(turn[v])' = DayOf(turn[v])
        BY <1>1, <2>1, <3>2
      <4>2. Ready(v)
        BY <1>0 DEF CalmInv
      <4> QED
        BY <1>1, <4>1, <4>2 DEF Ready, Remembers, HeadsOf
    <3> QED
      BY <3>1, <3>2
  <2>6. ASSUME NEW d \in exists' PROVE Headed(d)' \/ \E v \in Workers : Awaited(v, d)'
    <3>1. Headed(d) => Headed(d)'
      BY <1>1 DEF Headed
    <3>2. ASSUME NEW v \in Workers, Awaited(v, d) PROVE Awaited(v, d)'
      BY <1>1, <2>1, <3>2 DEF Awaited, AtMemory
    <3> QED
      BY <1>0, <1>1, <3>1, <3>2 DEF CalmInv
  <2> QED
    BY <1>0, <1>1, <2>2, <2>4, <2>5, <2>6 DEF CalmInv, Days, AtMemory
<1>2. CASE Die /\ Remembering = {}
  <2>1. /\ \A v \in Workers : pc[v] \notin AtMemory /\ pc'[v] = "idle"
        /\ UNCHANGED <<exists, daily, current, recorded>>
    BY <1>0, <1>2 DEF Die, files
  <2>2. Remembers(current, recorded)'
    BY <1>0, <2>1 DEF CalmInv, Between, AtMemory, Remembers, HeadsOf
  <2>3. \A d \in exists' : Headed(d)'
    BY <1>0, <2>1 DEF CalmInv, Awaited, AtMemory, Headed
  <2> QED
    BY <1>0, <2>1, <2>2, <2>3 DEF CalmInv, Days, AtMemory, Ready
<1>3. ASSUME NEW w \in Workers,
             \A v \in Workers : v # w => /\ pc'[v] = pc[v] /\ turn'[v] = turn[v]
                                         /\ fresh'[v] = fresh[v] /\ seen'[v] = seen[v],
             \/ Answered(w) /\ Remembering = {}
             \/ Stat(w) \/ Open(w) \/ WriteDaily(w) \/ ReadCurrent(w) \/ Truncate(w) \/ Write(w)
      PROVE  CalmInv'
  <2>0. /\ pc \in [Workers -> PcValues] /\ fresh \in [Workers -> BOOLEAN]
        /\ seen \in [Workers -> Memories] /\ turn \in [Workers -> Nat]
        /\ daily \in [Days -> Seq(Turns \cup {Header})]
    BY DEF IInv, ControlTyped, MemoryTyped, FilesTyped
  <2>1. \A v \in Workers : v # w => pc[v] \notin AtMemory /\ pc'[v] \notin AtMemory
    <3>1. Remembering = {} \/ pc[w] \in AtMemory
      BY <1>3 DEF Stat, Open, WriteDaily, ReadCurrent, Truncate, Write, AtMemory
    <3> QED
      BY <1>0, <1>3, <3>1 DEF CalmInv
  <2>2. /\ \A d \in Days : d \notin exists => daily[d] = << >>
        /\ Ready(w)
        /\ pc[w] \notin {"truncate", "write"} => Remembers(current, recorded)
        /\ \A d \in exists : Headed(d) \/ Awaited(w, d)
    <3>1. pc[w] \notin {"truncate", "write"} => Between
      BY <2>1 DEF Between, AtMemory
    <3>2. \A v \in Workers, d \in exists : Awaited(v, d) => v = w
      BY <2>1 DEF Awaited, AtMemory
    <3> QED
      BY <1>0, <3>1, <3>2 DEF CalmInv
  <2>3. CASE Answered(w) /\ Remembering = {}
    <3>1. pc'[w] = "stat" /\ UNCHANGED <<exists, daily, current, recorded>>
      BY <2>0, <2>3 DEF Answered, Begin, Go, files
    <3>2. pc[w] \notin AtMemory
      BY <1>0, <2>3
    <3>3. \A d \in exists' : Headed(d)'
      BY <2>2, <3>1, <3>2 DEF Awaited, AtMemory, Headed
    <3>4. Ready(w)' /\ Remembers(current', recorded')
      BY <2>2, <3>1, <3>2 DEF Ready, AtMemory
    <3> QED
      BY <2>1, <2>2, <3>1, <3>3, <3>4, CalmAfter
  <2>4. CASE Stat(w)
    <3>1. /\ pc[w] = "stat" /\ pc'[w] = "open" /\ UNCHANGED <<exists, daily, current, recorded>>
          /\ fresh'[w] = (DayOf(turn[w]) \notin exists) /\ turn'[w] = turn[w]
      BY <2>0, <2>4 DEF Stat, Go, files, ghosts
    <3>2. DayOf(turn[w])' = DayOf(turn[w])
      BY <3>1, SameDay DEF AtMemory
    <3>3. \A d \in exists' : Headed(d)'
      BY <2>2, <3>1 DEF Awaited, Headed
    <3>4. Ready(w)' /\ Remembers(current', recorded')
      BY <2>2, <3>1, <3>2 DEF Ready
    <3> QED
      BY <2>1, <2>2, <3>1, <3>3, <3>4, CalmAfter
  <2>5. CASE Open(w)
    <3> DEFINE D == DayOf(turn[w])
    <3>1. /\ pc[w] = "open" /\ pc'[w] = "append" /\ UNCHANGED <<daily, current, recorded>>
          /\ fresh'[w] = fresh[w] /\ turn'[w] = turn[w] /\ exists' = exists \cup {D}
      BY <2>0, <2>5 DEF Open, Go, ghosts
    <3>2. D' = D /\ D \in Days
      BY <3>1, SameDay DEF AtMemory
    <3>3. fresh[w] <=> D \notin exists
      BY <2>2, <3>1 DEF Ready
    <3>4. \A d \in exists : Headed(d)
      BY <2>2, <3>1 DEF Awaited
    <3>5. fresh[w] <=> daily[D] = << >>
      BY <2>2, <3>2, <3>3, <3>4 DEF Headed
    <3>6. Ready(w)' /\ Remembers(current', recorded')
      BY <2>2, <3>1, <3>2, <3>5 DEF Ready
    <3>7. ASSUME NEW d \in exists' PROVE Headed(d)' \/ Awaited(w, d)'
      BY <3>1, <3>2, <3>3, <3>4, <3>5 DEF Headed, Awaited
    <3> QED
      BY <2>1, <2>2, <3>1, <3>6, <3>7, CalmAfter
  <2>6. CASE WriteDaily(w)
    <3> DEFINE D == DayOf(turn[w])
               h == HeaderOf(w)
    <3>1. /\ pc[w] = "append" /\ pc'[w] = "read" /\ UNCHANGED <<exists, current, recorded>>
          /\ turn'[w] = turn[w]
      BY <2>0, <2>6 DEF WriteDaily, Go, ghosts
    <3>2. D \in exists /\ (fresh[w] <=> daily[D] = << >>)
      BY <2>2, <3>1 DEF Ready
    <3>3. /\ turn[w] \in Turns /\ D \in Days
          /\ \A d \in Days : d # D => daily'[d] = daily[d]
          /\ daily'[D] = daily[D] \o h \o <<turn[w]>>
          /\ daily[D] \in Seq(Turns \cup {Header}) /\ h \in {<<Header>>, << >>}
      BY <2>6, RecordWritten
    <3>4. h = <<Header>> <=> daily[D] = << >>
      <4>1. Len(<< >>) = 0 /\ Len(<<Header>>) = 1
        OBVIOUS
      <4>2. <<Header>> # << >>
        BY <4>1
      <4> QED
        BY <3>2, <4>2 DEF HeaderOf
    <3>5. daily[D] # << >> =>
            daily[D][1] = Header /\ \A i \in 2..Len(daily[D]) : daily[D][i] # Header
      BY <2>2, <3>2 DEF Headed, Awaited
    <3>6. daily'[D] # << >> /\ daily'[D][1] = Header
          /\ \A i \in 2..Len(daily'[D]) : daily'[D][i] # Header
      <4> DEFINE s == daily[D]
                 r == daily'[D]
      <4>1. PICK t \in Turns : t = turn[w]
        BY <3>3
      <4>2. r = s \o h \o <<t>> /\ s \in Seq(Turns \cup {Header}) /\ h \in {<<Header>>, << >>}
        BY <3>3, <4>1
      <4>3. /\ h = <<Header>> <=> s = << >>
            /\ s # << >> => s[1] = Header /\ \A i \in 2..Len(s) : s[i] # Header
        BY <3>4, <3>5
      <4> HIDE DEF s, r, h
      <4>4. PICK x, y, g : x = s /\ y = r /\ g = h
        OBVIOUS
      <4>5. /\ y = x \o g \o <<t>> /\ x \in Seq(Turns \cup {Header}) /\ g \in {<<Header>>, << >>}
            /\ g = <<Header>> <=> x = << >>
            /\ x # << >> => x[1] = Header /\ \A i \in 2..Len(x) : x[i] # Header
        BY <4>2, <4>3, <4>4
      <4>6. y # << >> /\ y[1] = Header /\ \A i \in 2..Len(y) : y[i] # Header
        BY SMTT(30), <4>5, HeadedByRecord
      <4> QED
        BY <4>4, <4>6 DEF r
    <3>7. ASSUME NEW d \in exists' PROVE Headed(d)'
      <4>1. d \in exists /\ d \in Days
        BY <3>1 DEF IInv, FilesTyped
      <4>2. CASE d = D
        BY <3>6, <4>2 DEF Headed
      <4>3. CASE d # D
        BY <2>2, <3>3, <4>1, <4>3 DEF Headed, Awaited
      <4> QED
        BY <4>2, <4>3
    <3>8. \A d \in Days : d \notin exists' => daily'[d] = << >>
      BY <2>2, <3>1, <3>2, <3>3
    <3>9. Ready(w)' /\ Remembers(current', recorded')
      BY <2>2, <3>1 DEF Ready
    <3> QED
      BY <2>1, <3>1, <3>7, <3>8, <3>9, CalmAfter
  <2>7. CASE ReadCurrent(w)
    <3>1. /\ pc[w] = "read" /\ pc'[w] = "truncate"
          /\ UNCHANGED <<exists, daily, current, recorded>>
          /\ seen'[w] = Parsed(current)
      BY <2>0, <2>7 DEF ReadCurrent, Go, files, Works, Fails
    <3>2. Remembers(current, recorded)
      BY <2>2, <3>1
    <3>3. Remembers(Parsed(current), recorded)
      <4>1. current \in Memories /\ NoHeadAfterRule(current.archive)
        BY DEF IInv, MemoryTyped, Holds
      <4>2. /\ Parsed(current).entries = current.entries
            /\ HeadsOf(Parsed(current).archive) = HeadsOf(current.archive)
        BY <4>1, ParsedIs
      <4> QED
        BY <3>2, <4>2 DEF Remembers
    <3>4. Ready(w)'
      BY <3>1, <3>3 DEF Ready, Remembers, HeadsOf
    <3>5. \A d \in exists' : Headed(d)'
      BY <2>2, <3>1 DEF Awaited, Headed
    <3> QED
      BY <2>1, <2>2, <3>1, <3>4, <3>5, CalmAfter
  <2>8. CASE Truncate(w)
    <3>1. /\ pc[w] = "truncate" /\ pc'[w] = "write" /\ UNCHANGED <<exists, daily, recorded>>
          /\ seen'[w] = seen[w]
      BY <2>0, <2>8 DEF Truncate, Go, Works, Fails
    <3>2. Ready(w)'
      BY <2>2, <3>1 DEF Ready, Remembers, HeadsOf
    <3>3. \A d \in exists' : Headed(d)'
      BY <2>2, <3>1 DEF Awaited, Headed
    <3> QED
      BY <2>1, <2>2, <3>1, <3>2, <3>3, CalmAfter
  <2>9. CASE Write(w)
    <3>1. /\ pc[w] = "write" /\ pc'[w] = "post" /\ UNCHANGED <<exists, daily>>
          /\ current' = Updated(seen[w], turn[w]) /\ recorded' = Append(recorded, turn[w])
      BY <2>0, <2>9 DEF Write, Send, Go, Works, Fails
    <3>2. turn[w] \in DOMAIN turns /\ recorded \in Seq(Turns) /\ TurnsTyped
      BY <3>1, TurnOf DEF IInv, GhostsTyped
    <3>3. Holds(seen[w]) /\ NoRule(seen[w].archive) /\ Remembers(seen[w], recorded)
      BY <2>2, <3>1 DEF IInv, MemoryTyped, Ready
    <3>4. Remembers(Updated(seen[w], turn[w]), Append(recorded, turn[w]))
      BY <3>2, <3>3, UpdatedIs
    <3>5. Ready(w)' /\ Remembers(current', recorded')
      BY <3>1, <3>4 DEF Ready
    <3>6. \A d \in exists' : Headed(d)'
      BY <2>2, <3>1 DEF Awaited, Headed
    <3> QED
      BY <2>1, <2>2, <3>1, <3>5, <3>6, CalmAfter
  <2> QED
    BY <1>3, <2>3, <2>4, <2>5, <2>6, <2>7, <2>8, <2>9
<1> QED
  BY <1>1, <1>2, <1>3, CalmFrame

(* Appends that do not overlap and that nothing disturbs forget nothing,   *)
(* whatever lines the answers consist of: for every maxRecent, and as many *)
(* turns as there may be (updateCurrent, parseCurrent, appendDaily).       *)
THEOREM MemoryCorrect == Spec => []MemoryInTurn
<1>1. Init => CalmInv
  <2> SUFFICES ASSUME Init PROVE CalmInv
    OBVIOUS
  <2>1. /\ exists = {} /\ daily = [d \in Days |-> << >>] /\ recorded = << >>
        /\ current = NoMemory /\ \A w \in Workers : pc[w] = "idle"
    BY DEF Init
  <2>2. Len(<< >>) = 0 /\ << >> \in Seq(Elements) /\ << >> \in Seq(Turns)
    BY EmptySeq
  <2>3. Remembers(NoMemory, << >>)
    <3>1. Max({0, 0 - MaxRecent}) = 0
      BY OldTurns, Bounds
    <3>2. Selected(<< >>, Heads) = << >>
      BY SelectedNone
    <3>3. SubSeq(<< >>, 1, 0) = << >>
      BY SubSeqEmpty
    <3>4. HeadsOf(<< >>) = << >>
      BY <3>2 DEF HeadsOf
    <3>5. Max({0, Len(<< >>) - MaxRecent}) = 0 /\ 0 + 1 = 1
      BY <2>2, <3>1
    <3> QED
      BY <2>2, <3>3, <3>4, <3>5 DEF Remembers, NoMemory
  <2> QED
    BY <2>1, <2>3 DEF CalmInv, Ready, AtMemory
<1>2. IInv /\ (calm => CalmInv) /\ [Next]_vars => (calm => CalmInv)'
  BY CalmStep
<1>3. IInv /\ (calm => CalmInv) => MemoryInTurn
  <2> SUFFICES ASSUME IInv, CalmInv, calm, Remembering = {}
               PROVE  /\ Remembers(current, recorded)
                      /\ \A d \in exists : daily[d][1] = Header /\ Header \notin Range(Tail(daily[d]))
    BY DEF MemoryInTurn, Remembers
  <2>1. \A w \in Workers : pc[w] \notin AtMemory
    BY DEF Remembering, AtMemory
  <2>2. Remembers(current, recorded) /\ \A d \in exists : Headed(d)
    BY <2>1 DEF CalmInv, Between, Awaited, AtMemory
  <2>3. ASSUME NEW d \in exists
        PROVE  daily[d][1] = Header /\ Header \notin Range(Tail(daily[d]))
    <3>1. PICK s \in Seq(Turns \cup {Header}) : s = daily[d]
      BY DEF IInv, FilesTyped
    <3>2. s # << >> /\ s[1] = Header /\ \A i \in 2..Len(s) : s[i] # Header
      BY <2>2, <3>1 DEF Headed
    <3>3. DOMAIN Tail(s) = 1..Len(s) - 1 /\ \A i \in 1..Len(s) - 1 : Tail(s)[i] = s[i + 1]
      BY <3>2, HeadTailProperties, LenProperties
    <3>4. Header \notin Range(Tail(s))
      <4>1. Len(s) \in Nat
        BY LenProperties
      <4> QED
        BY <3>2, <3>3, <4>1 DEF Range
    <3> QED
      BY <3>1, <3>2, <3>4
  <2> QED
    BY <2>2, <2>3
<1> QED
  BY <1>1, <1>2, <1>3, Typed, PTL DEF Spec

-----------------------------------------------------------------------------
(* The messages of an answer. *)

Texts == Seq(Alphabet)
Flattens(ss, f, m) ==
  /\ DOMAIN f = 1..m
  /\ \A n \in 1..m : f[n] = IF n = 1 THEN ss[n] ELSE f[n - 1] \o ss[n]

LEMMA FlattenedExists ==
  ASSUME NEW ss \in Seq(Texts)
  PROVE  \E f : f \in [1..Len(ss) -> Texts] /\ Flattens(ss, f, Len(ss))
<1>0. Len(ss) \in Nat /\ \A n \in 1..Len(ss) : ss[n] \in Texts
  BY LenProperties, ElementOfSeq
<1>1. \A s \in Texts, t \in Texts : s \o t \in Texts
  BY ConcatProperties DEF Texts
<1> DEFINE U == {m \in Nat : m <= Len(ss) => \E f : f \in [1..m -> Texts] /\ Flattens(ss, f, m)}
<1>2. 0 \in U
  <2> DEFINE f == [n \in 1..0 |-> << >>]
  <2>1. f \in [1..0 -> Texts] /\ Flattens(ss, f, 0)
    BY DEF Flattens
  <2> QED
    BY <2>1
<1>3. ASSUME NEW m \in U, m + 1 <= Len(ss)
      PROVE  \E f : f \in [1..m + 1 -> Texts] /\ Flattens(ss, f, m + 1)
  <2>1. PICK g : g \in [1..m -> Texts] /\ Flattens(ss, g, m)
    BY <1>0, <1>3
  <2> DEFINE last == IF m = 0 THEN ss[m + 1] ELSE g[m] \o ss[m + 1]
             f == [n \in 1..m + 1 |-> IF n = m + 1 THEN last ELSE g[n]]
  <2>2. last \in Texts
    <3>1. ss[m + 1] \in Texts /\ (m # 0 => g[m] \in Texts)
      BY <1>0, <1>3, <2>1
    <3> QED
      BY <1>1, <3>1
  <2>3. f \in [1..m + 1 -> Texts]
    BY <2>1, <2>2
  <2>4. ASSUME NEW n \in 1..m + 1
        PROVE  f[n] = IF n = 1 THEN ss[n] ELSE f[n - 1] \o ss[n]
    <3>1. CASE n = m + 1
      <4>1. f[n] = last
        BY <3>1
      <4>2. m # 0 => f[n - 1] = g[m]
        BY <3>1
      <4>3. n = 1 <=> m = 0
        BY <3>1
      <4> QED
        BY Zenon, <3>1, <4>1, <4>2, <4>3
    <3>2. CASE n \in 1..m
      <4>1. f[n] = g[n] /\ (n # 1 => f[n - 1] = g[n - 1])
        BY <3>2
      <4> HIDE DEF f
      <4> QED
        BY Zenon, <2>1, <3>2, <4>1 DEF Flattens
    <3> QED
      BY <3>1, <3>2
  <2>5. DOMAIN f = 1..m + 1
    OBVIOUS
  <2>6. Flattens(ss, f, m + 1)
    <3> HIDE DEF f
    <3> QED
      BY <2>4, <2>5 DEF Flattens
  <2> QED
    BY <2>3, <2>6
<1>4. U = Nat
  <2> HIDE DEF U
  <2>1. \A m \in U : m + 1 \in U
    BY <1>3 DEF U
  <2>2. U \in SUBSET Nat
    BY DEF U
  <2> QED
    BY <1>2, <2>1, <2>2, SetInduction
<1> QED
  BY <1>0, <1>4

LEMMA FlattenedUnique ==
  ASSUME NEW ss, NEW tt, NEW f, NEW g, NEW j \in Nat, NEW k \in Nat, j <= k,
         Flattens(ss, f, j), Flattens(tt, g, k), \A n \in 1..j : ss[n] = tt[n]
  PROVE  \A n \in 1..j : f[n] = g[n]
<1>1. \A n \in 1..j : n \in 1..k
  OBVIOUS
<1>2. ASSUME NEW n \in 1..j
      PROVE  /\ f[n] = IF n = 1 THEN ss[n] ELSE f[n - 1] \o ss[n]
             /\ g[n] = IF n = 1 THEN ss[n] ELSE g[n - 1] \o ss[n]
  BY Zenon, <1>1 DEF Flattens
<1> DEFINE U == {m \in Nat : m \in 1..j => f[m] = g[m]}
<1>3. 0 \in U
  OBVIOUS
<1>4. ASSUME NEW m \in U PROVE m + 1 \in U
  <2> SUFFICES ASSUME m + 1 \in 1..j PROVE f[m + 1] = g[m + 1]
    OBVIOUS
  <2>1. PICK n \in 1..j : n = m + 1 /\ n - 1 = m
    OBVIOUS
  <2>2. CASE n = 1
    BY Zenon, <1>2, <2>1, <2>2
  <2>3. CASE n # 1
    <3>1. m \in 1..j
      BY <2>1, <2>3
    <3>2. f[n - 1] = g[n - 1]
      BY <2>1, <3>1
    <3>3. f[n] = f[n - 1] \o ss[n] /\ g[n] = g[n - 1] \o ss[n]
      BY Zenon, <1>2, <2>3
    <3>4. f[n] = g[n]
      BY Zenon, <3>2, <3>3
    <3> HIDE DEF U
    <3> QED
      BY <2>1, <3>4
  <2> QED
    BY <2>2, <2>3
<1>5. U = Nat
  <2> HIDE DEF U
  <2>1. U \in SUBSET Nat
    BY DEF U
  <2> QED
    BY <1>3, <1>4, <2>1, SetInduction
<1> QED
  BY <1>5

LEMMA FlattenedSteps ==
  ASSUME NEW ss \in Seq(Texts), Len(ss) # 0
  PROVE  \E f : /\ f \in [1..Len(ss) -> Texts] /\ Flattens(ss, f, Len(ss))
                /\ FlattenSeq(ss) = f[Len(ss)]
<1> DEFINE g == CHOOSE h : h = [n \in 1..Len(ss) |-> IF n = 1 THEN ss[n] ELSE h[n - 1] \o ss[n]]
<1>1. FlattenSeq(ss) = g[Len(ss)]
  BY Zenon DEF FlattenSeq
<1>2. PICK f : f \in [1..Len(ss) -> Texts] /\ Flattens(ss, f, Len(ss))
  BY FlattenedExists
<1>3. f = [n \in 1..Len(ss) |-> IF n = 1 THEN ss[n] ELSE f[n - 1] \o ss[n]]
  BY <1>2 DEF Flattens
<1>4. g = [n \in 1..Len(ss) |-> IF n = 1 THEN ss[n] ELSE g[n - 1] \o ss[n]]
  BY Zenon, <1>3
<1> HIDE DEF g
<1>5. Flattens(ss, g, Len(ss))
  <2>1. DOMAIN g = 1..Len(ss)
    BY <1>4
  <2>2. ASSUME NEW n \in 1..Len(ss)
        PROVE  g[n] = IF n = 1 THEN ss[n] ELSE g[n - 1] \o ss[n]
    BY Zenon, <1>4
  <2> QED
    BY Zenon, <2>1, <2>2 DEF Flattens
<1>6. Len(ss) \in Nat /\ Len(ss) \in 1..Len(ss) /\ \A n \in 1..Len(ss) : ss[n] = ss[n]
  BY LenProperties
<1>7. f[Len(ss)] = g[Len(ss)]
  <2> DEFINE j == Len(ss)
  <2>1. Flattens(ss, f, j) /\ Flattens(ss, g, j) /\ j \in Nat /\ j \in 1..j /\ j <= j
    BY <1>2, <1>5, <1>6
  <2> HIDE DEF j
  <2>2. f[j] = g[j]
    BY <2>1, FlattenedUnique
  <2> QED
    BY <2>2 DEF j
<1> QED
  BY <1>1, <1>2, <1>7

LEMMA FlattenedNone == FlattenSeq(<< >>) = << >>
<1>1. Len(<< >>) = 0
  OBVIOUS
<1> QED
  BY <1>1 DEF FlattenSeq

LEMMA FlattenedType ==
  ASSUME NEW ss \in Seq(Texts)
  PROVE  FlattenSeq(ss) \in Texts
<1>1. CASE ss = << >>
  BY <1>1, FlattenedNone, EmptySeq DEF Texts
<1>2. CASE ss # << >>
  <2>1. Len(ss) \in 1..Len(ss) /\ Len(ss) # 0
    BY <1>2, EmptySeq, LenProperties
  <2>2. PICK f : f \in [1..Len(ss) -> Texts] /\ FlattenSeq(ss) = f[Len(ss)]
    BY <2>1, FlattenedSteps
  <2> QED
    BY <2>1, <2>2
<1> QED
  BY <1>1, <1>2

LEMMA FlattenedOneMore ==
  ASSUME NEW ss \in Seq(Texts), NEW m \in Texts
  PROVE  FlattenSeq(Append(ss, m)) = FlattenSeq(ss) \o m
<1>1. PICK tt \in Seq(Texts) : tt = Append(ss, m)
  BY AppendProperties
<1>2. /\ Len(tt) = Len(ss) + 1 /\ tt[Len(ss) + 1] = m /\ Len(ss) \in Nat
      /\ \A n \in 1..Len(ss) : ss[n] = tt[n]
  BY <1>1, AppendProperties, LenProperties
<1>3. Len(tt) # 0 /\ Len(tt) \in Nat /\ Len(tt) \in 1..Len(tt) /\ Len(tt) - 1 = Len(ss)
      /\ Len(ss) <= Len(tt)
  BY <1>2
<1>4. PICK g : Flattens(tt, g, Len(tt)) /\ FlattenSeq(tt) = g[Len(tt)]
  BY <1>3, FlattenedSteps
<1>5. g[Len(tt)] = IF Len(tt) = 1 THEN tt[Len(tt)] ELSE g[Len(tt) - 1] \o tt[Len(tt)]
  BY <1>3, <1>4 DEF Flattens
<1>6. CASE Len(ss) = 0
  <2>1. ss = << >>
    BY <1>6, EmptySeq
  <2>2. FlattenSeq(tt) = m
    BY <1>2, <1>4, <1>5, <1>6
  <2>3. << >> \o m = m
    BY ConcatEmptySeq DEF Texts
  <2> QED
    BY <1>1, <2>1, <2>2, <2>3, FlattenedNone
<1>7. CASE Len(ss) # 0
  <2>1. PICK f : Flattens(ss, f, Len(ss)) /\ FlattenSeq(ss) = f[Len(ss)]
    BY <1>7, FlattenedSteps
  <2> DEFINE j == Len(ss)
             k == Len(tt)
  <2>2. Flattens(ss, f, j) /\ Flattens(tt, g, k) /\ j \in Nat /\ k \in Nat /\ j <= k /\ j \in 1..j
        /\ \A n \in 1..j : ss[n] = tt[n]
    BY <1>2, <1>3, <1>4, <1>7, <2>1
  <2> HIDE DEF j, k
  <2>3. f[j] = g[j]
    BY <2>2, FlattenedUnique
  <2>4. Len(tt) # 1
    BY <1>2, <1>7
  <2>5. FlattenSeq(tt) = g[Len(ss)] \o m
    BY Zenon, <1>2, <1>3, <1>4, <1>5, <2>4
  <2> QED
    BY Zenon, <1>1, <2>1, <2>3, <2>5 DEF j
<1> QED
  BY <1>6, <1>7

LEMMA TextsAreElements ==
  ASSUME NEW s \in Texts
  PROVE  s \in Seq(Elements)
<1>1. Alphabet \subseteq Elements
  BY DEF Elements
<1> QED
  BY <1>1, SeqMonotonic DEF Texts

\* A text without its newlines.
LEMMA TextIs ==
  /\ \A s \in Texts : Text(s) \in Texts
  /\ \A s, t \in Texts : s \o t \in Texts /\ Text(s \o t) = Text(s) \o Text(t)
  /\ Text(<< >>) = << >> /\ Text(<<NL>>) = << >>
<1> DEFINE S == Alphabet \ {NL}
<1>1. \A s : Text(s) = Selected(s, S)
  BY DEF Text
<1> HIDE DEF S
<1>2. ASSUME NEW s \in Texts PROVE Text(s) \in Texts
  <2>1. Selected(s, S) \in Seq(Elements \cap S)
    BY TextsAreElements, SelectedType
  <2>2. Elements \cap S \subseteq Alphabet
    BY DEF S
  <2> QED
    BY <1>1, <2>1, <2>2, SeqMonotonic DEF Texts
<1>3. ASSUME NEW s \in Texts, NEW t \in Texts
      PROVE  s \o t \in Texts /\ Text(s \o t) = Text(s) \o Text(t)
  <2>1. s \o t \in Texts
    BY ConcatProperties DEF Texts
  <2>2. s \in Seq(Elements) /\ t \in Seq(Elements)
    BY TextsAreElements
  <2> QED
    BY <1>1, <2>1, <2>2, SelectedConcat
<1>4. Text(<< >>) = << >>
  BY <1>1, SelectedNone
<1>5. Text(<<NL>>) = << >>
  <2>1. PICK l \in Seq(Elements) : l = <<NL>> /\ Len(l) = 1 /\ l[1] = NL
    <3>1. NL \in Elements
      BY DEF Elements, Alphabet
    <3>2. <<NL>> \in Seq(Elements) /\ Len(<<NL>>) = 1 /\ <<NL>>[1] = NL
      BY <3>1
    <3> QED
      BY <3>2
  <2>2. \A i \in 1..Len(l) : l[i] \notin S
    BY <2>1 DEF S
  <2>3. Selected(l, S) = << >>
    BY <2>2, SelectedNothing
  <2> QED
    BY <1>1, <2>1, <2>3
<1> QED
  BY <1>2, <1>3, <1>4, <1>5

LEMMA Newline ==
  /\ <<NL>> \in Texts /\ << >> \in Texts
  /\ Len(<<NL>>) = 1 /\ <<NL>>[1] = NL
<1>1. NL \in Alphabet
  BY DEF Alphabet
<1> QED
  BY <1>1, EmptySeq DEF Texts

\* Messages joined by newlines.
LEMMA JoinedIs ==
  ASSUME NEW ss \in Seq(Texts), NEW m \in Texts
  PROVE  /\ Joined(ss) \in Texts
         /\ Joined(Append(ss, m)) = IF ss = << >> THEN m ELSE Joined(ss) \o (<<NL>> \o m)
<1> DEFINE Marked(s) == [i \in DOMAIN s |-> <<NL>> \o s[i]]
           nm == <<NL>> \o m
           ms == Marked(ss)
           tt == Append(ss, m)
<1>1. nm \in Texts /\ nm # << >> /\ Tail(nm) = m
  <2>1. nm \in Texts /\ Len(nm) = 1 + Len(m)
    BY Newline, ConcatProperties DEF Texts
  <2>2. nm # << >>
    <3>1. Len(m) \in Nat /\ Len(<< >>) = 0
      BY LenProperties DEF Texts
    <3> HIDE DEF nm
    <3> QED
      BY <2>1, <3>1
  <2>3. Tail(nm) = m
    BY DEF Texts
  <2> QED
    BY <2>1, <2>2, <2>3
<1>2. ms \in Seq(Texts) /\ Len(ms) = Len(ss) /\ Len(ss) \in Nat
  <2>1. DOMAIN ss = 1..Len(ss) /\ Len(ss) \in Nat /\ \A i \in 1..Len(ss) : ss[i] \in Texts
    BY LenProperties, ElementOfSeq
  <2>2. \A i \in 1..Len(ss) : <<NL>> \o ss[i] \in Texts
    BY <2>1, Newline, ConcatProperties DEF Texts
  <2>3. ms \in [1..Len(ss) -> Texts]
    BY <2>1, <2>2
  <2>4. ms \in Seq(Texts)
    BY <2>1, <2>3, SeqDef
  <2> HIDE DEF ms
  <2>5. DOMAIN ms = 1..Len(ms) /\ DOMAIN ms = 1..Len(ss) /\ Len(ms) \in Nat
    BY <2>3, <2>4, LenProperties
  <2>6. \A a, b \in Nat : 1..a = 1..b => a = b
    <3> SUFFICES ASSUME NEW a \in Nat, NEW b \in Nat, 1..a = 1..b, a < b PROVE FALSE
      BY SMT
    <3>1. b \in 1..b /\ b \notin 1..a
      OBVIOUS
    <3> QED
      BY <3>1
  <2> QED
    BY <2>1, <2>4, <2>5, <2>6
<1>3. Marked(tt) = Append(ms, nm)
  <2>1. /\ tt \in Seq(Texts) /\ Len(tt) = Len(ss) + 1 /\ DOMAIN tt = 1..Len(ss) + 1
        /\ tt[Len(ss) + 1] = m /\ \A i \in 1..Len(ss) : tt[i] = ss[i]
    BY AppendProperties, LenProperties
  <2>2. DOMAIN ms = 1..Len(ss) /\ \A i \in 1..Len(ss) : ms[i] = <<NL>> \o ss[i]
    BY LenProperties
  <2> HIDE DEF tt, ms
  <2>3. \A i \in 1..Len(ss) + 1 : Marked(tt)[i] = IF i = Len(ss) + 1 THEN nm ELSE ms[i]
    <3> SUFFICES ASSUME NEW i \in 1..Len(ss) + 1
                 PROVE  Marked(tt)[i] = IF i = Len(ss) + 1 THEN nm ELSE ms[i]
      OBVIOUS
    <3>1. Marked(tt)[i] = <<NL>> \o tt[i]
      BY <2>1
    <3>2. i # Len(ss) + 1 => i \in 1..Len(ss)
      BY <1>2
    <3> HIDE DEF Marked
    <3> QED
      BY Zenon, <2>1, <2>2, <3>1, <3>2
  <2>4. DOMAIN Marked(tt) = 1..Len(ss) + 1
    BY <2>1
  <2>5. Marked(tt) = [i \in 1..Len(ss) + 1 |-> Marked(tt)[i]]
    BY <2>4
  <2> HIDE DEF Marked, nm
  <2>6. PICK x, y \in Seq(Texts) : x = ms /\ y = Append(ms, nm) /\ y \in Seq(Texts)
    BY <1>1, <1>2, AppendProperties
  <2>7. /\ Len(y) = Len(ss) + 1 /\ DOMAIN y = 1..Len(ss) + 1 /\ y[Len(ss) + 1] = nm
        /\ \A i \in 1..Len(ss) : y[i] = ms[i]
    BY <1>1, <1>2, <2>6, AppendProperties, LenProperties
  <2>8. y = [i \in 1..Len(ss) + 1 |-> y[i]]
    <3>1. y \in [1..Len(ss) + 1 -> Texts]
      BY <2>7, LenProperties
    <3> QED
      BY <3>1
  <2>9. \A i \in 1..Len(ss) + 1 : y[i] = Marked(tt)[i]
    BY <2>3, <2>7, <1>2
  <2> QED
    BY <2>5, <2>6, <2>8, <2>9
<1>4. FlattenSeq(Append(ms, nm)) = FlattenSeq(ms) \o nm
  <2> HIDE DEF ms, nm
  <2> QED
    BY <1>1, <1>2, FlattenedOneMore
<1>5. FlattenSeq(ms) \in Texts
  <2> HIDE DEF ms
  <2> QED
    BY <1>2, FlattenedType
<1>6. Joined(ss) = IF ss = << >> THEN << >> ELSE Tail(FlattenSeq(ms))
  BY DEF Joined
<1>7. Joined(tt) = Tail(FlattenSeq(ms) \o nm)
  <2>1. tt # << >>
    BY AppendProperties
  <2>2. Joined(tt) = Tail(FlattenSeq(Marked(tt)))
    BY <2>1 DEF Joined
  <2> HIDE DEF Marked, tt, ms, nm
  <2> QED
    BY <1>3, <1>4, <2>2
<1>8. CASE ss = << >>
  <2>1. ms = << >>
    BY <1>2, <1>8, EmptySeq
  <2>2. << >> \o nm = nm
    BY <1>1, ConcatEmptySeq DEF Texts
  <2>3. Joined(tt) = m
    <3> HIDE DEF ms, nm, tt
    <3> QED
      BY <1>1, <1>7, <2>1, <2>2, FlattenedNone
  <2> QED
    BY <1>6, <1>8, <2>3, Newline
<1>9. CASE ss # << >>
  <2>1. FlattenSeq(ms) # << >>
    <3>1. ms # << >>
      <4>1. Len(ss) # 0
        BY <1>9, EmptySeq
      <4>2. Len(<< >>) = 0
        OBVIOUS
      <4> HIDE DEF ms
      <4> QED
        BY <1>2, <4>1, <4>2
    <3>2. PICK u \in Seq(Texts), e \in Texts : ms = Append(u, e)
      <4> HIDE DEF ms
      <4> QED
        BY Zenon, <1>2, <3>1, SequenceEmptyOrAppend
    <3>3. e # << >>
      <4>1. PICK i \in DOMAIN ss : e = <<NL>> \o ss[i] /\ ss[i] \in Texts
        <5>1. ms[Len(u) + 1] = e /\ Len(ms) = Len(u) + 1 /\ Len(u) \in Nat
          <6> HIDE DEF ms
          <6> QED
            BY <3>2, AppendProperties, LenProperties
        <5>2. Len(u) + 1 \in 1..Len(ss) /\ DOMAIN ss = 1..Len(ss)
          BY <1>2, <5>1, LenProperties
        <5>3. ss[Len(u) + 1] \in Texts
          BY <5>2, ElementOfSeq
        <5>4. ms[Len(u) + 1] = <<NL>> \o ss[Len(u) + 1]
          BY <5>2
        <5> HIDE DEF ms
        <5> QED
          BY <5>1, <5>2, <5>3, <5>4
      <4>2. PICK x \in Texts : x = ss[i] /\ Len(x) \in Nat
        BY <4>1, LenProperties DEF Texts
      <4>3. Len(<<NL>> \o x) = 1 + Len(x)
        BY Newline, ConcatProperties DEF Texts
      <4> QED
        BY <4>1, <4>2, <4>3
    <3>4. FlattenSeq(ms) = FlattenSeq(u) \o e /\ FlattenSeq(u) \in Texts
      <4> HIDE DEF ms
      <4> QED
        BY <3>2, FlattenedOneMore, FlattenedType
    <3>5. FlattenSeq(u) \o e # << >>
      BY <3>3, <3>4, ConcatEqualIffEmpty DEF Texts
    <3> QED
      BY <3>4, <3>5
  <2>2. ASSUME NEW x \in Texts, NEW y \in Texts, x # << >>
        PROVE  Tail(x) \in Texts /\ Tail(x \o y) = Tail(x) \o y
    BY <2>2 DEF Texts
  <2> HIDE DEF ms, nm, tt
  <2>3. Tail(FlattenSeq(ms)) \in Texts
        /\ Tail(FlattenSeq(ms) \o nm) = Tail(FlattenSeq(ms)) \o nm
    BY <1>1, <1>5, <2>1, <2>2
  <2> QED
    BY <1>6, <1>7, <1>9, <2>3 DEF nm, tt
<1> QED
  BY <1>8, <1>9

-----------------------------------------------------------------------------
(* What the messages posted so far say of an answer a: ps are they, text is left. *)

Alike(shown, text) == Len(shown) = Len(text) /\ Shows(shown, text)
Left(a, ps, text) ==
  \E x \in Texts : Text(a) = x \o Text(text) /\ Alike(Text(FlattenSeq(ps)), x)
SameLines(a, ps, text) ==
  LinesFit(a) => /\ LinesFit(text) /\ Valid(text)
                 /\ a = IF ps = << >> THEN text ELSE Joined(ps) \o (<<NL>> \o text)
Whole(a, ps) ==
  /\ Alike(Text(FlattenSeq(ps)), Text(a))
  /\ LinesFit(a) => Joined(ps) \in {a, WithoutLast(a)}

LEMMA ThreeTexts ==
  ASSUME NEW x \in Texts, NEW y \in Texts, NEW z \in Texts
  PROVE  (x \o y) \o z = x \o (y \o z)
BY ConcatAssociative DEF Texts

LEMMA TextsConcat ==
  ASSUME NEW x \in Texts, NEW y \in Texts
  PROVE  x \o y \in Texts /\ x \o << >> = x /\ << >> \o x = x
BY ConcatProperties, ConcatEmptySeq DEF Texts

LEMMA AlikeConcat ==
  ASSUME NEW x \in Texts, NEW y \in Texts, NEW u \in Texts, NEW v \in Texts,
         Alike(x, y), Alike(u, v)
  PROVE  Alike(x \o u, y \o v)
<1>1. /\ Len(x) \in Nat /\ Len(u) \in Nat /\ Len(x) = Len(y) /\ Len(u) = Len(v)
      /\ \A i \in 1..Len(x) :
           x[i] = y[i] \/ (x[i] = "lost" /\ y[i] \in {"lead", "trail"})
      /\ \A i \in 1..Len(u) :
           u[i] = v[i] \/ (u[i] = "lost" /\ v[i] \in {"lead", "trail"})
  BY LenProperties DEF Texts, Alike, Shows
<1>2. /\ Len(x \o u) = Len(x) + Len(u) /\ Len(y \o v) = Len(y) + Len(v)
      /\ \A i \in 1..Len(x) + Len(u) :
           (x \o u)[i] = IF i <= Len(x) THEN x[i] ELSE u[i - Len(x)]
      /\ \A i \in 1..Len(y) + Len(v) :
           (y \o v)[i] = IF i <= Len(y) THEN y[i] ELSE v[i - Len(y)]
  BY ConcatProperties DEF Texts
<1>3. ASSUME NEW i \in 1..Len(x) + Len(u)
      PROVE  \/ (x \o u)[i] = (y \o v)[i]
             \/ (x \o u)[i] = "lost" /\ (y \o v)[i] \in {"lead", "trail"}
  <2>1. CASE i <= Len(x)
    <3>1. (x \o u)[i] = x[i] /\ (y \o v)[i] = y[i] /\ i \in 1..Len(x)
      BY <1>1, <1>2, <2>1
    <3> QED
      BY <1>1, <3>1
  <2>2. CASE ~ (i <= Len(x))
    <3>1. /\ (x \o u)[i] = u[i - Len(x)] /\ (y \o v)[i] = v[i - Len(x)]
          /\ i - Len(x) \in 1..Len(u)
      BY <1>1, <1>2, <2>2
    <3> QED
      BY <1>1, <3>1
  <2> QED
    BY <2>1, <2>2
<1>4. Len(x \o u) = Len(y \o v) /\ Len(x \o u) \in Nat
  BY <1>1, <1>2
<1> QED
  BY <1>2, <1>3, <1>4 DEF Alike, Shows

LEMMA EncodedAlike ==
  ASSUME NEW p \in Texts
  PROVE  Encoded(p) \in Texts /\ Len(Encoded(p)) = Len(p) /\ Alike(Encoded(p), p)
<1>1. /\ Encoded(p) \in Texts /\ Len(Encoded(p)) = Len(p) /\ Len(p) \in Nat
      /\ \A i \in 1..Len(p) : Encoded(p)[i] = IF Stray(p, i) THEN "lost" ELSE p[i]
  BY EncodedIs, LenProperties DEF Texts
<1>2. \A i \in 1..Len(p) : Stray(p, i) => p[i] \in {"lead", "trail"}
  BY DEF Stray
<1> QED
  BY <1>1, <1>2 DEF Alike, Shows

\* Bytes that are replaced are none of a newline.
LEMMA TextsAlike ==
  ASSUME NEW s \in Texts, NEW t \in Texts, Alike(s, t)
  PROVE  Alike(Text(s), Text(t))
<1> DEFINE S == Alphabet \ {NL}
           P == {u \in Seq(Elements) : u \in Texts =>
                   \A v \in Texts : Alike(v, u) => Alike(Text(v), Text(u))}
<1>1. << >> \in P
  <2> SUFFICES ASSUME NEW v \in Texts, Alike(v, << >>) PROVE Alike(Text(v), Text(<< >>))
    BY EmptySeq
  <2>1. v = << >>
    BY EmptySeq DEF Texts, Alike
  <2> QED
    BY <2>1, TextIs
<1>2. ASSUME NEW u \in P, NEW e \in Elements PROVE Append(u, e) \in P
  <2>1. PICK ue \in Seq(Elements) : ue = Append(u, e)
    BY AppendProperties
  <2> SUFFICES ASSUME ue \in Texts, NEW v \in Texts, Alike(v, ue)
               PROVE  Alike(Text(v), Text(ue))
    BY <2>1
  <2>2. /\ Len(ue) = Len(u) + 1 /\ ue[Len(u) + 1] = e /\ Len(u) \in Nat
        /\ \A i \in 1..Len(u) : ue[i] = u[i]
    BY <2>1, AppendProperties, LenProperties
  <2>3. u \in Texts /\ e \in Alphabet
    <3>1. \A i \in 1..Len(u) + 1 : ue[i] \in Alphabet
      BY <2>2, ElementOfSeq DEF Texts
    <3>2. e \in Alphabet /\ \A i \in 1..Len(u) : u[i] \in Alphabet
      BY <2>2, <3>1
    <3>3. u \in [1..Len(u) -> Alphabet]
      BY <3>2, LenProperties
    <3>4. u \in Seq(Alphabet)
      BY <2>2, <3>3, SeqDef
    <3> QED
      BY <3>2, <3>4 DEF Texts
  <2>4. PICK w \in Texts, f \in Alphabet : v = Append(w, f)
    <3>1. Len(v) = Len(u) + 1 /\ Len(u) + 1 # 0
      BY <2>2 DEF Alike
    <3>2. v # << >>
      BY <3>1, EmptySeq
    <3> QED
      BY <3>2, SequenceEmptyOrAppend DEF Texts
  <2>5. /\ Len(v) = Len(w) + 1 /\ v[Len(w) + 1] = f /\ Len(w) \in Nat
        /\ \A i \in 1..Len(w) : v[i] = w[i]
    BY <2>4, AppendProperties, LenProperties DEF Texts
  <2>6. /\ Len(w) = Len(u)
        /\ \A i \in 1..Len(u) + 1 :
             v[i] = ue[i] \/ (v[i] = "lost" /\ ue[i] \in {"lead", "trail"})
    BY <2>2, <2>5 DEF Alike, Shows
  <2>7. Alike(w, u)
    <3>1. \A i \in 1..Len(u) : w[i] = u[i] \/ (w[i] = "lost" /\ u[i] \in {"lead", "trail"})
      BY <2>2, <2>5, <2>6
    <3> QED
      BY <2>2, <2>6, <3>1 DEF Alike, Shows
  <2>8. f = e \/ (f = "lost" /\ e \in {"lead", "trail"})
    BY <2>2, <2>5, <2>6
  <2>9. Alike(Text(w), Text(u)) /\ Text(w) \in Texts /\ Text(u) \in Texts
    BY <2>3, <2>7, TextIs
  <2>10. (f \in S <=> e \in S) /\ (f # NL => f \in S)
    BY <2>3, <2>8 DEF Alphabet, NL
  <2>11. /\ Text(v) = IF f \in S THEN Append(Text(w), f) ELSE Text(w)
         /\ Text(ue) = IF e \in S THEN Append(Text(u), e) ELSE Text(u)
    <3>1. w \in Seq(Elements) /\ f \in Elements
      BY TextsAreElements DEF Elements
    <3>2. \A z : Text(z) = Selected(z, S)
      BY DEF Text
    <3> HIDE DEF S
    <3> QED
      BY <2>1, <2>4, <3>1, <3>2, SelectedOneMore
  <2>12. CASE f \notin S
    BY <2>9, <2>10, <2>11, <2>12
  <2>13. CASE f \in S
    <3> HIDE DEF S
    <3>1. PICK x \in Texts, y \in Texts : x = <<f>> /\ y = <<e>> /\ Alike(x, y)
      <4>1. <<f>> \in Texts /\ <<e>> \in Texts
        BY <2>3 DEF Texts
      <4>2. Len(<<f>>) = 1 /\ Len(<<e>>) = 1 /\ <<f>>[1] = f /\ <<e>>[1] = e
        OBVIOUS
      <4>3. Alike(<<f>>, <<e>>)
        BY <2>8, <4>2 DEF Alike, Shows
      <4> QED
        BY <4>1, <4>3
    <3>2. Alike(Text(w) \o x, Text(u) \o y)
      BY <2>9, <3>1, AlikeConcat
    <3>3. Text(v) = Text(w) \o x /\ Text(ue) = Text(u) \o y
      <4>1. Append(Text(w), f) = Text(w) \o <<f>> /\ Append(Text(u), e) = Text(u) \o <<e>>
        BY <2>3, <2>9, AppendIsConcat DEF Texts
      <4> QED
        BY <2>10, <2>11, <2>13, <3>1, <4>1
    <3> QED
      BY <3>2, <3>3
  <2> QED
    BY <2>12, <2>13
<1>3. P = Seq(Elements)
  <2> HIDE DEF P
  <2>1. P \in SUBSET Seq(Elements)
    BY DEF P
  <2> QED
    BY <1>1, <1>2, <2>1, SequenceInduction
<1> QED
  BY <1>3, TextsAreElements

LEMMA ValidIs ==
  ASSUME NEW text \in Texts
  PROVE  Valid(text) <=> \A i \in 1..Len(text) : ~ Stray(text, i)
<1>1. /\ Encoded(text) \in Texts /\ Len(Encoded(text)) = Len(text) /\ Len(text) \in Nat
      /\ \A i \in 1..Len(text) :
           Encoded(text)[i] = IF Stray(text, i) THEN "lost" ELSE text[i]
  BY EncodedIs, LenProperties DEF Texts
<1>2. \A i \in 1..Len(text) : Stray(text, i) => text[i] # "lost"
  BY DEF Stray
<1>3. ASSUME Valid(text), NEW i \in 1..Len(text) PROVE ~ Stray(text, i)
  BY <1>1, <1>2, <1>3 DEF Valid
<1>4. ASSUME \A i \in 1..Len(text) : ~ Stray(text, i) PROVE Valid(text)
  <2>1. \A i \in 1..Len(text) : Encoded(text)[i] = text[i]
    BY <1>1, <1>4
  <2>2. PICK e \in Texts : e = Encoded(text) /\ Len(e) = Len(text)
    BY <1>1
  <2>3. e = text
    BY <2>1, <2>2, SeqEqual DEF Texts
  <2> QED
    BY <2>2, <2>3 DEF Valid
<1> QED
  BY <1>3, <1>4

\* A cut at a newline goes through no character.
LEMMA ValidParts ==
  ASSUME NEW text \in Texts, NEW p \in Texts, NEW r \in Texts,
         text = p \o (<<NL>> \o r), Valid(text)
  PROVE  Valid(p) /\ Valid(r)
<1>1. PICK l \in Texts : /\ l = <<NL>> \o r /\ Len(l) = 1 + Len(r) /\ l[1] = NL
                         /\ \A i \in 1..Len(r) : l[1 + i] = r[i]
  <2>1. PICK n \in Texts : n = <<NL>> /\ Len(n) = 1 /\ n[1] = NL
    BY Newline
  <2>2. PICK l \in Texts : l = n \o r
    BY TextsConcat
  <2>3. /\ Len(l) = Len(n) + Len(r) /\ Len(r) \in Nat
        /\ \A i \in 1..Len(n) + Len(r) : l[i] = IF i <= Len(n) THEN n[i] ELSE r[i - Len(n)]
    BY <2>2, ConcatProperties, LenProperties DEF Texts
  <2>4. Len(l) = 1 + Len(r) /\ l[1] = NL /\ \A i \in 1..Len(r) : l[1 + i] = r[i]
    BY <2>1, <2>3
  <2> QED
    BY <2>1, <2>2, <2>4
<1>2. /\ Len(p) \in Nat /\ Len(r) \in Nat /\ Len(text) = Len(p) + Len(l)
      /\ \A i \in 1..Len(p) : text[i] = p[i]
      /\ \A i \in 1..Len(l) : text[Len(p) + i] = l[i]
  BY <1>1, ConcatProperties, LenProperties DEF Texts
<1>3. /\ Len(text) = Len(p) + 1 + Len(r) /\ text[Len(p) + 1] = NL
      /\ \A i \in 1..Len(r) : text[Len(p) + 1 + i] = r[i]
  <2>1. 1 \in 1..Len(l) /\ \A i \in 1..Len(r) : 1 + i \in 1..Len(l)
                                               /\ Len(p) + (1 + i) = Len(p) + 1 + i
    BY <1>1, <1>2
  <2> QED
    BY <1>1, <1>2, <2>1
<1>4. \A i \in 1..Len(text) : ~ Stray(text, i)
  BY ValidIs
<1>5. NL # "lead" /\ NL # "trail"
  BY DEF NL
<1>6. ASSUME NEW i \in 1..Len(p) PROVE ~ Stray(p, i)
  <2>1. i \in 1..Len(text) /\ i # Len(text) /\ text[i] = p[i] /\ ~ Stray(text, i)
    BY <1>2, <1>3, <1>4
  <2>2. i = Len(p) => text[i + 1] = NL
    BY <1>3
  <2>3. i # Len(p) => text[i + 1] = p[i + 1]
    BY <1>2
  <2>4. i # 1 => text[i - 1] = p[i - 1]
    BY <1>2
  <2> HIDE DEF NL
  <2> QED
    BY <1>5, <2>1, <2>2, <2>3, <2>4 DEF Stray
<1>7. ASSUME NEW i \in 1..Len(r) PROVE ~ Stray(r, i)
  <2> DEFINE j == Len(p) + 1 + i
  <2>1. j \in 1..Len(text) /\ j # 1 /\ text[j] = r[i] /\ ~ Stray(text, j)
        /\ (j = Len(text) <=> i = Len(r))
    <3>1. j \in 1..Len(text) /\ j # 1 /\ (j = Len(text) <=> i = Len(r))
      <4>1. Len(p) \in Nat /\ Len(r) \in Nat /\ Len(text) = Len(p) + 1 + Len(r) /\ i \in Nat
        BY <1>2, <1>3
      <4>2. j \in 1..Len(text) /\ j # 1
        BY <4>1
      <4>3. j = Len(text) => i = Len(r)
        BY <4>1
      <4>4. i = Len(r) => j = Len(text)
        BY <4>1
      <4> QED
        BY <4>2, <4>3, <4>4
    <3>2. text[j] = r[i]
      BY <1>3
    <3>3. ~ Stray(text, j)
      BY <1>4, <3>1
    <3> QED
      BY <3>1, <3>2, <3>3
  <2>2. i = 1 => text[j - 1] = NL
    BY <1>2, <1>3
  <2>3. i # Len(r) => text[j + 1] = r[i + 1]
    <3>1. i # Len(r) => i + 1 \in 1..Len(r) /\ Len(p) + 1 + (i + 1) = j + 1
      BY <1>2
    <3> QED
      BY <1>3, <3>1
  <2>4. i # 1 => text[j - 1] = r[i - 1]
    <3>1. i # 1 => i - 1 \in 1..Len(r) /\ Len(p) + 1 + (i - 1) = j - 1
      BY <1>2
    <3> QED
      BY <1>3, <3>1
  <2> HIDE DEF NL, j
  <2> QED
    BY <1>5, <2>1, <2>2, <2>3, <2>4 DEF Stray
<1> QED
  BY <1>6, <1>7, ValidIs

LEMMA ThreeParts ==
  ASSUME NEW p \in Texts, NEW r \in Texts
  PROVE  \A x \in Texts : /\ x \o Text(p) \in Texts
                          /\ (x \o Text(p)) \o Text(r) = x \o (Text(p) \o Text(r))
<1>1. PICK y, z \in Texts : y = Text(p) /\ z = Text(r)
  BY TextIs
<1>2. \A x \in Texts : x \o y \in Texts /\ (x \o y) \o z = x \o (y \o z)
  BY ThreeTexts, TextsConcat
<1> QED
  BY Zenon, <1>1, <1>2

LEMMA OneMoreLine ==
  ASSUME NEW u \in Texts, NEW v \in Texts, NEW w \in Texts
  PROVE  u \o (<<NL>> \o (v \o (<<NL>> \o w))) = (u \o (<<NL>> \o v)) \o (<<NL>> \o w)
<1>1. PICK n \in Texts, x \in Texts : n = <<NL>> /\ x = <<NL>> \o w
  BY Newline, TextsConcat
<1>2. PICK nv \in Texts : nv = n \o v
  BY TextsConcat
<1>3. (u \o nv) \o x = u \o (nv \o x)
  BY SMTT(30), ThreeTexts
<1>4. (n \o v) \o x = n \o (v \o x)
  BY SMTT(30), ThreeTexts
<1> QED
  BY Zenon, <1>1, <1>2, <1>3, <1>4

LEMMA PartIs ==
  ASSUME NEW s \in Texts, NEW m \in 1..Len(s) + 1, NEW n \in m - 1..Len(s)
  PROVE  /\ SubSeq(s, m, n) \in Texts /\ Len(SubSeq(s, m, n)) = n - m + 1
         /\ \A i \in 1..n - m + 1 : SubSeq(s, m, n)[i] = s[m + i - 1]
<1>1. Len(s) \in Nat /\ \A i \in 1..Len(s) : s[i] \in Alphabet
  BY LenProperties, ElementOfSeq DEF Texts
<1>2. m \in Int /\ n \in Int /\ \A i \in m..n : s[i] \in Alphabet
  BY <1>1
<1>3. SubSeq(s, m, n) \in Seq(Alphabet)
  BY <1>2, SubSeqProperties
<1>4. Len(SubSeq(s, m, n)) = IF m <= n THEN n - m + 1 ELSE 0
  BY <1>2, SubSeqProperties
<1>5. \A i \in 1..n - m + 1 : SubSeq(s, m, n)[i] = s[m + i - 1]
  BY <1>2, SubSeqProperties
<1>6. Len(SubSeq(s, m, n)) = n - m + 1
  BY <1>1, <1>4
<1> QED
  BY <1>3, <1>5, <1>6 DEF Texts

LEMMA LinesFitAfter ==
  ASSUME NEW text \in Texts, LinesFit(text), NEW c \in Nat, c <= Len(text)
  PROVE  LinesFit(SubSeq(text, c + 1, Len(text)))
<1>1. PICK r : r = SubSeq(text, c + 1, Len(text))
  OBVIOUS
<1>2. Len(text) \in Nat /\ MaxLen \in Nat
  BY LenProperties, Bounds DEF Texts
<1>3. Len(r) = Len(text) - c /\ \A k \in 1..Len(r) : r[k] = text[k + c]
  <2>1. c + 1 \in 1..Len(text) + 1 /\ Len(text) \in (c + 1) - 1..Len(text)
    BY <1>2
  <2>2. /\ Len(r) = Len(text) - (c + 1) + 1
        /\ \A k \in 1..Len(text) - (c + 1) + 1 : r[k] = text[(c + 1) + k - 1]
    BY <1>1, <2>1, PartIs
  <2> QED
    BY <1>2, <2>2
<1>4. ASSUME NEW i \in 1..Len(r) - MaxLen + 1
      PROVE  \E k \in i..i + MaxLen - 1 : r[k] = NL
  <2>1. i + c \in 1..Len(text) - MaxLen + 1
    BY <1>2, <1>3
  <2>2. PICK k \in i + c..(i + c) + MaxLen - 1 : text[k] = NL
    BY <2>1 DEF LinesFit
  <2>3. k - c \in i..i + MaxLen - 1 /\ k - c \in 1..Len(r) /\ (k - c) + c = k
    BY <1>2, <1>3
  <2>4. r[k - c] = NL
    BY <1>3, <2>2, <2>3
  <2> QED
    BY <2>3, <2>4
<1> QED
  BY <1>1, <1>4 DEF LinesFit

\* A message and what is left are the text, without a newline where it was cut.
LEMMA CutWhole ==
  ASSUME NEW text \in Texts, Len(text) > MaxLen
  PROVE  \E p, r \in Texts :
           /\ Cut(text).piece = p /\ Cut(text).rest = r /\ Len(p) \in 1..MaxLen
           /\ text = p \o r \/ text = p \o (<<NL>> \o r)
           /\ LinesFit(text) => LinesFit(r) /\ text = p \o (<<NL>> \o r)
<1>1. PICK c \in 1..MaxLen :
        /\ Cut(text).piece = SubSeq(text, 1, c)
        /\ \/ text[c + 1] = NL /\ Cut(text).rest = SubSeq(text, c + 2, Len(text))
           \/ /\ c = MaxLen /\ Cut(text).rest = SubSeq(text, c + 1, Len(text))
              /\ \A i \in 2..MaxLen + 1 : text[i] # NL
  BY CutIs DEF Texts
<1>2. Len(text) \in Nat /\ MaxLen \in Nat \ {0} /\ c \in Nat /\ c < Len(text) /\ c # 0
  BY LenProperties, Bounds DEF Texts
<1>3. PICK p \in Texts : p = SubSeq(text, 1, c) /\ Len(p) = c
  <2>1. 1 \in 1..Len(text) + 1 /\ c \in 1 - 1..Len(text) /\ c - 1 + 1 = c
    BY <1>2
  <2> QED
    BY <2>1, PartIs
<1>4. PICK l \in Texts : l = SubSeq(text, c + 1, Len(text))
  <2>1. c + 1 \in 1..Len(text) + 1 /\ Len(text) \in (c + 1) - 1..Len(text)
    BY <1>2
  <2> QED
    BY <2>1, PartIs
<1>5. text = p \o l
  <2>1. SubSeq(text, 1, Len(text)) = text
    BY SubSeqFull DEF Texts
  <2>2. SubSeq(text, 1, c) \o SubSeq(text, c + 1, Len(text)) = SubSeq(text, 1, Len(text))
    BY <1>2, ConcatAdjacentSubSeq DEF Texts
  <2> QED
    BY <1>3, <1>4, <2>1, <2>2
<1>6. CASE text[c + 1] = NL /\ Cut(text).rest = SubSeq(text, c + 2, Len(text))
  <2>1. PICK r \in Texts : r = SubSeq(text, c + 2, Len(text))
    <3>1. c + 2 \in 1..Len(text) + 1 /\ Len(text) \in (c + 2) - 1..Len(text)
      BY <1>2
    <3> QED
      BY <3>1, PartIs
  <2>4. (c + 1) + 1 = c + 2 /\ c + 1 \in 1..Len(text) /\ Len(text) \in c + 1..Len(text)
    BY <1>2
  <2>5. l = <<NL>> \o r
    <3>1. SubSeq(text, c + 1, Len(text)) = <<text[c + 1]>> \o SubSeq(text, (c + 1) + 1, Len(text))
      BY <2>4, SubSeqRecursiveFirst DEF Texts
    <3> QED
      BY Zenon, <1>4, <1>6, <2>1, <2>4, <3>1
  <2>6. LinesFit(text) => LinesFit(r)
    <3>1. c + 1 \in Nat /\ c + 1 <= Len(text)
      BY <1>2
    <3> QED
      BY <2>1, <2>4, <3>1, LinesFitAfter
  <2> QED
    BY <1>1, <1>3, <1>5, <1>6, <2>1, <2>5, <2>6
<1>7. CASE /\ c = MaxLen /\ Cut(text).rest = SubSeq(text, c + 1, Len(text))
           /\ \A i \in 2..MaxLen + 1 : text[i] # NL
  <2>1. ~ LinesFit(text)
    <3>1. 2 \in 1..Len(text) - MaxLen + 1 /\ 2 + MaxLen - 1 = MaxLen + 1
      BY <1>2
    <3> QED
      BY <1>7, <3>1 DEF LinesFit
  <2> QED
    BY <1>1, <1>3, <1>4, <1>5, <1>7, <2>1
<1> QED
  BY <1>1, <1>6, <1>7

LEMMA PieceSent ==
  ASSUME NEW a \in Texts, NEW ps \in Seq(Texts), NEW text \in Texts, Len(text) > MaxLen,
         Left(a, ps, text), SameLines(a, ps, text)
  PROVE  /\ Left(a, Append(ps, Encoded(Cut(text).piece)), Cut(text).rest)
         /\ SameLines(a, Append(ps, Encoded(Cut(text).piece)), Cut(text).rest)
         /\ Len(Encoded(Cut(text).piece)) \in 1..MaxLen
<1>1. PICK p \in Texts, r \in Texts :
        /\ Cut(text).piece = p /\ Cut(text).rest = r /\ Len(p) \in 1..MaxLen
        /\ text = p \o r \/ text = p \o (<<NL>> \o r)
        /\ LinesFit(text) => LinesFit(r) /\ text = p \o (<<NL>> \o r)
  BY CutWhole
<1>2. PICK e \in Texts : e = Encoded(p) /\ Len(e) = Len(p) /\ Alike(e, p)
  BY EncodedAlike
<1>3. PICK qs \in Seq(Texts) : qs = Append(ps, e) /\ qs # << >>
  BY AppendProperties
<1>4. Left(a, qs, r)
  <2>0. \A x \in Texts : /\ x \o Text(p) \in Texts
                         /\ (x \o Text(p)) \o Text(r) = x \o (Text(p) \o Text(r))
    BY ThreeParts
  <2>1. Text(text) = Text(p) \o Text(r)
    <3>1. <<NL>> \o r \in Texts /\ Text(<<NL>> \o r) = Text(r)
      <4>1. PICK n \in Texts : n = <<NL>> /\ Text(n) = << >>
        BY Newline, TextIs
      <4>2. n \o r \in Texts /\ Text(n \o r) = Text(n) \o Text(r) /\ Text(r) \in Texts
        BY Zenon, TextIs
      <4>3. << >> \o Text(r) = Text(r)
        BY Zenon, <4>2, TextsConcat
      <4> QED
        BY <4>1, <4>2, <4>3
    <3>2. Text(p \o r) = Text(p) \o Text(r)
      BY Zenon, TextIs
    <3>3. Text(p \o (<<NL>> \o r)) = Text(p) \o Text(<<NL>> \o r)
      BY Zenon, <3>1, TextIs
    <3> QED
      BY Zenon, <1>1, <3>1, <3>2, <3>3
  <2>2. PICK f \in Texts : f = FlattenSeq(ps) /\ FlattenSeq(qs) = f \o e
    BY <1>3, FlattenedType, FlattenedOneMore
  <2>3. PICK x \in Texts : Text(a) = x \o Text(text) /\ Alike(Text(f), x)
    BY <2>2 DEF Left
  <2>4. PICK t \in Texts, u \in Texts, y \in Texts, z \in Texts :
          t = Text(f) /\ u = Text(e) /\ y = Text(p) /\ z = Text(r)
    BY TextIs
  <2>5. Alike(t \o u, x \o y)
    <3>1. Alike(t, x) /\ Alike(u, y)
      BY <1>2, <2>3, <2>4, TextsAlike
    <3> QED
      BY <3>1, AlikeConcat
  <2>6. Text(FlattenSeq(qs)) = t \o u
    <3>1. Text(f \o e) = Text(f) \o Text(e)
      BY Zenon, TextIs
    <3> QED
      BY Zenon, <2>2, <2>4, <3>1
  <2>7. Text(a) = x \o (y \o z)
    BY Zenon, <2>1, <2>3, <2>4
  <2>8. x \o y \in Texts /\ (x \o y) \o z = x \o (y \o z)
    BY Zenon, <2>0, <2>4
  <2> QED
    BY Zenon, <2>4, <2>5, <2>6, <2>7, <2>8 DEF Left
<1>5. SameLines(a, qs, r)
  <2> SUFFICES ASSUME LinesFit(a)
               PROVE  LinesFit(r) /\ Valid(r) /\ a = Joined(qs) \o (<<NL>> \o r)
    BY <1>3 DEF SameLines
  <2>1. LinesFit(r) /\ text = p \o (<<NL>> \o r) /\ Valid(text)
    BY <1>1 DEF SameLines
  <2>2. Valid(r) /\ e = p
    BY <1>2, <2>1, ValidParts DEF Valid
  <2>3. Joined(ps) \in Texts
        /\ Joined(qs) = IF ps = << >> THEN p ELSE Joined(ps) \o (<<NL>> \o p)
    BY <1>3, <2>2, JoinedIs
  <2>4. CASE ps = << >>
    BY <2>1, <2>2, <2>3, <2>4 DEF SameLines
  <2>5. CASE ps # << >>
    <3>1. a = Joined(ps) \o (<<NL>> \o (p \o (<<NL>> \o r)))
      BY <2>1, <2>5 DEF SameLines
    <3>2. Joined(qs) = Joined(ps) \o (<<NL>> \o p)
      BY <2>3, <2>5
    <3>3. PICK j \in Texts : j = Joined(ps)
      BY <2>3
    <3>4. j \o (<<NL>> \o (p \o (<<NL>> \o r))) = (j \o (<<NL>> \o p)) \o (<<NL>> \o r)
      BY Zenon, OneMoreLine
    <3> QED
      BY Zenon, <2>1, <2>2, <3>1, <3>2, <3>3, <3>4
  <2> QED
    BY <2>4, <2>5
<1> QED
  BY <1>1, <1>2, <1>3, <1>4, <1>5

LEMMA LastSent ==
  ASSUME NEW a \in Texts, NEW ps \in Seq(Texts), NEW text \in Texts,
         Left(a, ps, text), SameLines(a, ps, text)
  PROVE  Whole(a, IF text = << >> THEN ps ELSE Append(ps, Encoded(text)))
<1>1. FlattenSeq(ps) \in Texts /\ Text(FlattenSeq(ps)) \in Texts /\ Joined(ps) \in Texts
  BY FlattenedType, TextIs, JoinedIs
<1>2. PICK x \in Texts : Text(a) = x \o Text(text) /\ Alike(Text(FlattenSeq(ps)), x)
  BY DEF Left
<1>3. CASE text = << >>
  <2>1. Text(a) = x
    BY <1>2, <1>3, TextIs, TextsConcat
  <2>2. ASSUME LinesFit(a) PROVE Joined(ps) \in {a, WithoutLast(a)}
    <3>1. CASE ps = << >>
      BY <1>3, <2>2, <3>1 DEF SameLines, Joined
    <3>2. CASE ps # << >>
      <4>1. PICK j \in Texts : j = Joined(ps)
        BY <1>1
      <4>2. a = j \o <<NL>>
        BY <1>3, <2>2, <3>2, <4>1, Newline, TextsConcat DEF SameLines
      <4>3. Len(a) = Len(j) + 1 /\ a[Len(j) + 1] = NL /\ Len(j) \in Nat
        BY <4>2, Newline, ConcatProperties, LenProperties DEF Texts
      <4>4. SubSeq(a, 1, Len(j)) = j
        BY <4>2, Newline, ConcatProperties DEF Texts
      <4>5. a # << >> /\ Last(a) = NL /\ Front(a) = j
        <5>1. a # << >>
          BY <4>3, EmptySeq DEF Texts
        <5>2. Len(a) - 1 = Len(j)
          BY <4>3
        <5> QED
          BY <4>3, <4>4, <5>1, <5>2 DEF Last, Front
      <4> QED
        BY <4>1, <4>5 DEF WithoutLast
    <3> QED
      BY <3>1, <3>2
  <2> QED
    BY <1>2, <1>3, <2>1, <2>2 DEF Whole
<1>4. CASE text # << >>
  <2>1. PICK e \in Texts : e = Encoded(text) /\ Alike(e, text)
    BY EncodedAlike
  <2>2. PICK qs \in Seq(Texts) : qs = Append(ps, e)
    BY AppendProperties
  <2>3. PICK f \in Texts : f = FlattenSeq(ps) /\ FlattenSeq(qs) = f \o e
    BY <1>1, <2>2, FlattenedOneMore
  <2>4. PICK t \in Texts, u \in Texts, y \in Texts :
          t = Text(f) /\ u = Text(e) /\ y = Text(text)
    BY TextIs
  <2>5. Alike(t \o u, x \o y)
    <3>1. Alike(t, x) /\ Alike(u, y)
      BY <1>2, <2>1, <2>3, <2>4, TextsAlike
    <3> QED
      BY <3>1, AlikeConcat
  <2>6. Text(FlattenSeq(qs)) = t \o u
    <3>1. Text(f \o e) = Text(f) \o Text(e)
      BY Zenon, TextIs
    <3> QED
      BY Zenon, <2>3, <2>4, <3>1
  <2>7. Joined(qs) = IF ps = << >> THEN e ELSE Joined(ps) \o (<<NL>> \o e)
    BY <2>2, JoinedIs
  <2>8. LinesFit(a) => Joined(qs) = a
    BY <2>1, <2>7 DEF SameLines, Valid
  <2>9. Whole(a, qs)
    BY <1>2, <2>4, <2>5, <2>6, <2>8 DEF Whole
  <2> QED
    BY <1>4, <2>1, <2>2, <2>9
<1> QED
  BY <1>3, <1>4

LEMMA AtStart ==
  ASSUME NEW a \in Texts
  PROVE  Left(a, << >>, a) /\ (Valid(a) => SameLines(a, << >>, a))
<1>1. Text(FlattenSeq(<< >>)) = << >> /\ << >> \in Texts
  BY FlattenedNone, TextIs, Newline
<1>2. << >> \o Text(a) = Text(a)
  BY TextIs, TextsConcat
<1>3. Alike(<< >>, << >>)
  BY DEF Alike, Shows
<1> QED
  BY <1>1, <1>2, <1>3 DEF Left, SameLines

LEMMA AtEnd ==
  ASSUME NEW a \in Texts, NEW ps \in Seq(Texts), Whole(a, ps)
  PROVE  Left(a, ps, << >>)
<1>1. Text(a) \in Texts /\ Text(<< >>) = << >>
  BY TextIs
<1>2. Text(a) \o << >> = Text(a)
  BY <1>1, TextsConcat
<1> QED
  BY <1>1, <1>2 DEF Left, Whole

Answer(t) == turns[t].answer
Fits(ps) == \A i \in DOMAIN ps : Len(ps[i]) \in 1..MaxLen
Posted(t) == \E u \in Texts : Left(Answer(t), pieces[t], u)

\* What a worker that posts has left is what its messages lack of the answer; all other
\* workers that have a turn have posted nothing of it.
WholeInv ==
  /\ complete \subseteq DOMAIN turns
  /\ \A t \in DOMAIN turns : Fits(pieces[t]) /\ Posted(t) /\ Valid(Answer(t))
  /\ \A t \in complete : Whole(Answer(t), pieces[t])
  /\ \A w \in Workers :
       /\ pc[w] # "idle" => turn[w] \notin complete
       /\ pc[w] \in AtMemory \cup AtJob => pieces[turn[w]] = << >>
       /\ pc[w] = "post" => /\ Left(Answer(turn[w]), pieces[turn[w]], rest[w])
                            /\ SameLines(Answer(turn[w]), pieces[turn[w]], rest[w])

LEMMA AnswerIs ==
  ASSUME TurnsTyped, NEW t \in DOMAIN turns
  PROVE  Answer(t) \in Texts /\ pieces[t] \in Seq(Texts)
BY TurnAt DEF TurnRecords, Answer, Texts

LEMMA FitsOneMore ==
  ASSUME NEW ps \in Seq(Texts), NEW p \in Texts, Fits(ps), Len(p) \in 1..MaxLen
  PROVE  Fits(Append(ps, p))
<1>1. PICK qs \in Seq(Texts) : qs = Append(ps, p)
  BY AppendProperties
<1>2. /\ DOMAIN qs = 1..Len(ps) + 1 /\ qs[Len(ps) + 1] = p /\ DOMAIN ps = 1..Len(ps)
      /\ Len(ps) \in Nat /\ \A i \in 1..Len(ps) : qs[i] = ps[i]
  BY <1>1, AppendProperties, LenProperties
<1>3. ASSUME NEW i \in DOMAIN qs PROVE Len(qs[i]) \in 1..MaxLen
  <2>1. CASE i = Len(ps) + 1
    BY <1>2, <2>1
  <2>2. CASE i # Len(ps) + 1
    <3>1. i \in DOMAIN ps /\ qs[i] = ps[i]
      BY <1>2, <2>2
    <3> QED
      BY <3>1 DEF Fits
  <2> QED
    BY <2>1, <2>2
<1> QED
  BY <1>1, <1>3 DEF Fits

LEMMA PieceLeaves ==
  ASSUME IInv, WholeInv, NEW w \in Workers, NEW t, t = turn[w], PostPiece(w)
  PROVE  /\ Left(Answer(t), pieces[t], rest[w])' /\ SameLines(Answer(t), pieces[t], rest[w])'
         /\ rest'[w] \in Texts /\ Fits(pieces[t])' /\ Answer(t)' = Answer(t)
<1>1. /\ t \in DOMAIN turns /\ turns' = turns /\ pieces'[t] = Append(pieces[t], Encoded(Cut(rest[w]).piece))
      /\ rest[w] \in Seq(Alphabet) /\ Len(rest[w]) > MaxLen
      /\ rest' = [rest EXCEPT ![w] = Cut(rest[w]).rest]
  BY PostPieceIs
<1>2. Encoded(Cut(rest[w]).piece) \in Texts /\ Cut(rest[w]).rest \in Texts
  BY <1>1, CutTyped, EncodedIs DEF Texts
<1>3. rest'[w] = Cut(rest[w]).rest
  BY <1>1 DEF IInv, ControlTyped
<1>4. Answer(t) \in Texts /\ pieces[t] \in Seq(Texts) /\ Answer(t)' = Answer(t)
  BY <1>1, AnswerIs DEF IInv, Answer
<1>5. Left(Answer(t), pieces[t], rest[w]) /\ SameLines(Answer(t), pieces[t], rest[w])
  BY DEF WholeInv, PostPiece
<1>6. PICK a \in Texts, ps \in Seq(Texts), text \in Texts :
        a = Answer(t) /\ ps = pieces[t] /\ text = rest[w]
  BY <1>1, <1>4 DEF Texts
<1>7. /\ Left(a, Append(ps, Encoded(Cut(text).piece)), Cut(text).rest)
      /\ SameLines(a, Append(ps, Encoded(Cut(text).piece)), Cut(text).rest)
      /\ Len(Encoded(Cut(text).piece)) \in 1..MaxLen
  BY <1>1, <1>5, <1>6, PieceSent
<1>8. Fits(pieces'[t])
  <2>1. Fits(ps)
    BY <1>1, <1>6 DEF WholeInv
  <2>2. Fits(Append(ps, Encoded(Cut(text).piece)))
    BY <1>2, <1>6, <1>7, <2>1, FitsOneMore
  <2> QED
    BY <1>1, <1>6, <2>2
<1>9. Left(Answer(t)', pieces'[t], rest'[w]) /\ SameLines(Answer(t)', pieces'[t], rest'[w])
  BY <1>1, <1>3, <1>4, <1>6, <1>7
<1> QED
  BY <1>2, <1>3, <1>4, <1>8, <1>9 DEF Left, SameLines, Fits, Text, LinesFit, Joined, Cut, Alike, Shows,
                                       Valid, Encoded, Stray

LEMMA LastLeaves ==
  ASSUME IInv, WholeInv, NEW w \in Workers, NEW t, t = turn[w], PostLast(w)
  PROVE  /\ Whole(Answer(t), pieces[t])' /\ Fits(pieces[t])' /\ Answer(t)' = Answer(t)
         /\ pieces'[t] \in Seq(Texts)
<1>1. /\ t \in DOMAIN turns /\ turns' = turns /\ TurnsTyped'
      /\ rest[w] \in Seq(Alphabet) /\ Len(rest[w]) <= MaxLen
      /\ IF rest[w] = << >> THEN pieces' = pieces
         ELSE pieces'[t] = Append(pieces[t], Encoded(rest[w]))
  BY PostLastIs
<1>2. Answer(t) \in Texts /\ pieces[t] \in Seq(Texts) /\ Answer(t)' = Answer(t)
  BY <1>1, AnswerIs DEF IInv, Answer
<1>3. Left(Answer(t), pieces[t], rest[w]) /\ SameLines(Answer(t), pieces[t], rest[w])
  BY DEF WholeInv, PostLast
<1>4. PICK a \in Texts, ps \in Seq(Texts), text \in Texts :
        a = Answer(t) /\ ps = pieces[t] /\ text = rest[w]
  BY <1>1, <1>2 DEF Texts
<1>5. Whole(a, IF text = << >> THEN ps ELSE Append(ps, Encoded(text)))
  BY <1>3, <1>4, LastSent
<1>6. pieces'[t] = IF text = << >> THEN ps ELSE Append(ps, Encoded(text))
  BY <1>1, <1>4
<1>7. Fits(pieces'[t]) /\ pieces'[t] \in Seq(Texts)
  <2>1. Fits(ps)
    BY <1>1, <1>4 DEF WholeInv
  <2>2. CASE text = << >>
    BY <1>6, <2>1, <2>2
  <2>3. CASE text # << >>
    <3>1. Encoded(text) \in Texts /\ Len(Encoded(text)) \in 1..MaxLen
      <4>1. Len(text) \in Nat /\ Len(text) # 0 /\ Len(text) <= MaxLen
        BY <1>1, <1>4, <2>3, EmptySeq, LenProperties DEF Texts
      <4>2. Encoded(text) \in Texts /\ Len(Encoded(text)) = Len(text)
        BY EncodedIs DEF Texts
      <4> QED
        BY <4>1, <4>2, Bounds
    <3>2. Fits(Append(ps, Encoded(text))) /\ Append(ps, Encoded(text)) \in Seq(Texts)
      BY <2>1, <3>1, FitsOneMore, AppendProperties
    <3> QED
      BY <1>6, <2>3, <3>2
  <2> QED
    BY <2>2, <2>3
<1>8. Whole(Answer(t)', pieces'[t])
  BY <1>2, <1>4, <1>5, <1>6
<1> QED
  BY <1>2, <1>7, <1>8 DEF Whole, Fits, Text, LinesFit, Joined, WithoutLast, Alike, Shows

LEMMA CompleteFrame ==
  ASSUME [Next]_vars
  PROVE  \/ complete' = complete
         \/ \E w \in Workers : PostLast(w) /\ complete' = complete \cup {turn[w]}
<1>1. CASE UNCHANGED vars \/ Die \/ Tick
  BY <1>1 DEF vars, Die, Tick, ghosts
<1>2. ASSUME NEW w \in Workers, Handle(w)
      PROVE  complete' = complete \/ (PostLast(w) /\ complete' = complete \cup {turn[w]})
  BY <1>2 DEF Handle, Answered, Stat, Open, WriteDaily, DailyFails, ReadCurrent, Truncate, Write,
              PostPiece, PostLast, PostFails, ghosts
<1>3. ASSUME NEW w \in Workers, Run(w)
      PROVE  complete' = complete
  BY <1>3 DEF Run, StartJob, JobAnswered, JobFails, Check, Deliver, ghosts
<1> QED
  BY <1>1, <1>2, <1>3 DEF Next

LEMMA WholeStep ==
  ASSUME IInv, WholeInv, [Next]_vars
  PROVE  WholeInv'
<1>1. \A v, w \in Workers : pc[w] # "idle" /\ turn[v] = turn[w] => v = w
  BY DEF IInv, Apart, ControlTyped
<1>2. ASSUME NEW w \in Workers, JobAnswered(w) \/ Check(w)
      PROVE  pc[w] \in AtJob
  BY <1>2 DEF JobAnswered, Check, AtJob
<1>3. ASSUME NEW w \in Workers, PostPiece(w) \/ PostLast(w)
      PROVE  pc[w] = "post"
  BY <1>3 DEF PostPiece, PostLast
<1>4. ASSUME NEW w \in Workers, PostLast(w)
      PROVE  pc'[w] = "idle"
  <2>1. pc \in [Workers -> PcValues]
    BY DEF IInv, ControlTyped
  <2> QED
    BY <1>4, <2>1 DEF PostLast, Reset, Go
<1>5. ASSUME NEW w \in Workers, pc[w] # "idle"
      PROVE  /\ turn[w] \in DOMAIN turns
             /\ turns'[turn[w]].answer = turns[turn[w]].answer \/ pc[w] \in AtJob
             /\ pieces'[turn[w]] = pieces[turn[w]] \/ PostPiece(w) \/ PostLast(w)
  <2>1. turn[w] \in DOMAIN turns
    BY <1>5, TurnOf DEF IInv
  <2>2. PICK t : t = turn[w] /\ t \in DOMAIN turns
    BY <2>1
  <2>3. turns'[t].answer = turns[t].answer \/ pc[w] \in AtJob
    BY <1>1, <1>2, <1>5, <2>2, TurnStep
  <2>4. pieces'[t] = pieces[t] \/ PostPiece(w) \/ PostLast(w)
    BY <1>1, <1>5, <2>2, TurnStep
  <2> QED
    BY <2>1, <2>2, <2>3, <2>4
<1>6. TurnsTyped' /\ TurnsTyped
  BY TurnsStep DEF IInv
<1>7. ASSUME NEW t \in DOMAIN turns' PROVE (Fits(pieces[t]) /\ Posted(t))'
  <2>1. Answer(t)' \in Texts /\ pieces'[t] \in Seq(Texts)
    <3>1. turns'[t] \in TurnRecords /\ pieces'[t] \in Seq(Seq(Alphabet))
      <4>1. /\ turns' \in Seq(TurnRecords) /\ pieces' \in Seq(Seq(Seq(Alphabet)))
            /\ Len(pieces') = Len(turns')
        BY <1>6 DEF TurnsTyped, TurnRecords, Chat, Alphabet
      <4>2. t \in 1..Len(turns')
        BY <4>1, LenProperties
      <4> QED
        BY <4>1, <4>2, ElementOfSeq
    <3> QED
      BY <3>1 DEF TurnRecords, Answer, Texts
  <2>2. ASSUME pieces'[t] = << >> PROVE (Fits(pieces[t]) /\ Posted(t))'
    <3>1. Left(Answer(t)', pieces'[t], Answer(t)')
      BY <2>1, <2>2, AtStart
    <3> QED
      BY <2>1, <2>2, <3>1 DEF Fits, Posted
  <2>3. CASE t \notin DOMAIN turns
    BY <2>2, <2>3, NewTurn
  <2>4. CASE t \in DOMAIN turns /\ pieces'[t] = pieces[t]
    <3>1. CASE turns'[t] = turns[t]
      BY <2>4, <3>1 DEF WholeInv, Fits, Posted, Answer
    <3>2. CASE turns'[t] # turns[t]
      <4>1. PICK w \in Workers : turn[w] = t /\ pc[w] \in AtJob
        BY <1>2, <2>4, <3>2, TurnStep
      <4> QED
        BY <2>2, <2>4, <4>1 DEF WholeInv
    <3> QED
      BY <3>1, <3>2
  <2>5. CASE t \in DOMAIN turns /\ pieces'[t] # pieces[t]
    <3>1. PICK w \in Workers : turn[w] = t /\ (PostPiece(w) \/ PostLast(w))
      BY <2>5, TurnStep
    <3>2. CASE PostPiece(w)
      <4>1. Left(Answer(t)', pieces'[t], rest'[w]) /\ rest'[w] \in Texts /\ Fits(pieces'[t])
        BY <3>1, <3>2, PieceLeaves
      <4> QED
        BY <4>1 DEF Posted
    <3>3. CASE PostLast(w)
      <4>1. Whole(Answer(t)', pieces'[t]) /\ Fits(pieces'[t])
        BY <3>1, <3>3, LastLeaves
      <4>2. Left(Answer(t)', pieces'[t], << >>)
        BY <2>1, <4>1, AtEnd
      <4> QED
        BY <4>1, <4>2, Newline DEF Posted
    <3> QED
      BY <3>1, <3>2, <3>3
  <2> QED
    BY <2>3, <2>4, <2>5
<1>8. complete' \subseteq DOMAIN turns'
  BY CompleteFrame, PostLastIs, TurnsStep DEF WholeInv
<1>9. ASSUME NEW t \in complete' PROVE Whole(Answer(t), pieces[t])'
  <2>1. CASE t \in complete
    <3>1. t \in DOMAIN turns /\ \A w \in Workers : pc[w] # "idle" => turn[w] # t
      BY <2>1 DEF WholeInv
    <3>2. turns'[t] = turns[t] /\ pieces'[t] = pieces[t]
      BY <1>2, <1>3, <3>1, TurnStep DEF AtJob
    <3> QED
      BY <2>1, <3>2 DEF WholeInv, Answer
  <2>2. CASE t \notin complete
    <3>1. PICK w \in Workers : PostLast(w) /\ t = turn[w]
      BY <1>9, <2>2, CompleteFrame
    <3> QED
      BY <3>1, LastLeaves
  <2> QED
    BY <2>1, <2>2
<1>10. ASSUME NEW w \in Workers, pc'[w] # "idle" PROVE turn'[w] \notin complete'
  <2>1. CASE turn'[w] = turn[w] /\ pc[w] # "idle"
    <3>1. turn[w] \notin complete
      BY <2>1 DEF WholeInv
    <3>2. \A v \in Workers : PostLast(v) => turn[v] # turn[w]
      BY <1>1, <1>4, <1>10, <2>1
    <3> QED
      BY <2>1, <3>1, <3>2, CompleteFrame
  <2>2. CASE turn'[w] = Len(turns) + 1
    <3>1. Len(turns) \in Nat /\ DOMAIN turns = 1..Len(turns)
      BY TurnsStep
    <3>2. complete' \subseteq DOMAIN turns
      BY CompleteFrame, PostLastIs DEF WholeInv
    <3> QED
      BY <2>2, <3>1, <3>2
  <2> QED
    BY <1>10, <2>1, <2>2, WorkerStep DEF OneStep
<1>11. ASSUME NEW w \in Workers, pc'[w] \in AtMemory \cup AtJob PROVE pieces'[turn'[w]] = << >>
  <2>1. CASE turn'[w] = turn[w] /\ pc[w] \in AtMemory \cup AtJob
    <3>1. pieces[turn[w]] = << >> /\ pc[w] \notin {"idle", "post"}
      BY <2>1 DEF WholeInv, AtMemory, AtJob
    <3> QED
      BY <1>3, <1>5, <2>1, <3>1
  <2>2. CASE (Answered(w) \/ StartJob(w)) /\ turn'[w] = Len(turns) + 1
    BY <2>2, AnsweredIs, StartJobIs
  <2> QED
    BY <1>11, <2>1, <2>2, WorkerStep DEF OneStep, AtMemory, AtJob
<1>12. ASSUME NEW w \in Workers, pc'[w] = "post"
       PROVE  (/\ Left(Answer(turn[w]), pieces[turn[w]], rest[w])
               /\ SameLines(Answer(turn[w]), pieces[turn[w]], rest[w]))'
  <2>1. CASE PostPiece(w)
    <3>1. turn'[w] = turn[w]
      BY <2>1 DEF PostPiece
    <3>2. PICK t : t = turn[w]
      OBVIOUS
    <3>3. Left(Answer(t), pieces[t], rest[w])' /\ SameLines(Answer(t), pieces[t], rest[w])'
      BY <2>1, <3>2, PieceLeaves
    <3> QED
      BY <3>1, <3>2, <3>3 DEF Answer
  <2>2. CASE pc[w] = "post" /\ turn'[w] = turn[w] /\ rest'[w] = rest[w] /\ ~ PostPiece(w)
    <3>1. pieces'[turn[w]] = pieces[turn[w]]
      BY <1>4, <1>5, <1>12, <2>2
    <3>2. turns'[turn[w]].answer = turns[turn[w]].answer
      BY <1>5, <2>2 DEF AtJob
    <3> QED
      BY <2>2, <3>1, <3>2 DEF WholeInv, Answer
  <2>3. CASE /\ turn'[w] = turn[w] /\ pc[w] \in AtMemory \cup AtJob
             /\ Truncate(w) \/ Write(w) \/ Deliver(w)
    <3>1. turns' = turns /\ pieces' = pieces
      BY <2>3 DEF Truncate, Write, Deliver, ghosts
    <3>2. rest'[w] = turns[turn[w]].answer
      <4>1. pc \in [Workers -> PcValues] /\ rest \in [Workers -> Seq(Alphabet)]
        BY DEF IInv, ControlTyped
      <4> QED
        BY <1>12, <2>3, <4>1 DEF Truncate, Write, Deliver, Send, Reset, Go
    <3>3. pieces[turn[w]] = << >> /\ turn[w] \in DOMAIN turns
      BY <1>5, <2>3 DEF WholeInv, AtMemory, AtJob
    <3>4. PICK a \in Texts : a = turns[turn[w]].answer
      BY <1>6, <3>3, AnswerIs DEF Answer
    <3>5. Valid(a)
      BY <3>3, <3>4 DEF WholeInv, Answer
    <3>6. Left(a, << >>, a) /\ SameLines(a, << >>, a)
      BY <3>5, AtStart
    <3> QED
      BY <2>3, <3>1, <3>2, <3>3, <3>4, <3>6 DEF Answer
  <2> QED
    BY <1>12, <2>1, <2>2, <2>3, WorkerStep DEF OneStep, AtMemory, AtJob
<1>13. ASSUME NEW t \in DOMAIN turns' PROVE Valid(turns'[t].answer)
  <2>1. CASE t \notin DOMAIN turns
    BY <2>1, NewTurn
  <2>2. CASE t \in DOMAIN turns /\ turns'[t].answer = turns[t].answer
    BY <2>2 DEF WholeInv, Answer
  <2>3. CASE t \in DOMAIN turns /\ turns'[t].answer # turns[t].answer
    <3>1. PICK w \in Workers : turn[w] = t /\ (JobAnswered(w) \/ Check(w))
      BY <2>3, TurnStep
    <3>2. CASE JobAnswered(w)
      BY <3>1, <3>2, JobAnsweredIs
    <3>3. CASE Check(w)
      BY <2>3, <3>1, <3>3, CheckIs
    <3> QED
      BY <3>1, <3>2, <3>3
  <2> QED
    BY <2>1, <2>2, <2>3
<1>14. \A t \in DOMAIN turns' : Valid(Answer(t))'
  BY <1>13 DEF Valid, Encoded, Stray, Answer
<1> QED
  BY <1>7, <1>8, <1>9, <1>10, <1>11, <1>12, <1>14 DEF WholeInv

(* Every message of an answer fits Discord, the messages together show the *)
(* answer but for newlines where it was cut and for bytes of characters    *)
(* that a cut went through, and where its lines fit too no line is cut nor *)
(* any character (sendChunked): for every answer and message length, and   *)
(* for any number of workers posting at once.                              *)
THEOREM WholeCorrect == Spec => []AnswersWhole
<1>1. Init => WholeInv
  <2> SUFFICES ASSUME Init PROVE WholeInv
    OBVIOUS
  <2>1. DOMAIN turns = {} /\ complete = {} /\ \A w \in Workers : pc[w] = "idle"
    BY DEF Init
  <2> QED
    BY <2>1 DEF WholeInv, AtMemory, AtJob
<1>2. IInv /\ WholeInv /\ [Next]_vars => WholeInv'
  BY WholeStep
<1>3. IInv /\ WholeInv => AnswersWhole
  <2> SUFFICES ASSUME IInv, WholeInv, NEW t \in DOMAIN turns
               PROVE  /\ \A i \in DOMAIN pieces[t] : Len(pieces[t][i]) \in 1..MaxLen
                      /\ Shows(Text(FlattenSeq(pieces[t])), Text(turns[t].answer))
                      /\ t \in complete =>
                           /\ Len(Text(FlattenSeq(pieces[t]))) = Len(Text(turns[t].answer))
                           /\ LinesFit(turns[t].answer) =>
                                Joined(pieces[t]) \in {turns[t].answer,
                                                       WithoutLast(turns[t].answer)}
    BY DEF AnswersWhole
  <2>1. PICK u \in Texts : Left(Answer(t), pieces[t], u)
    BY DEF WholeInv, Posted
  <2>2. pieces[t] \in Seq(Texts)
    BY AnswerIs DEF IInv
  <2>3. PICK x \in Texts : /\ Text(turns[t].answer) = x \o Text(u)
                           /\ Alike(Text(FlattenSeq(pieces[t])), x)
    BY <2>1 DEF Left, Answer
  <2>4. PICK f \in Texts, y \in Texts : f = Text(FlattenSeq(pieces[t])) /\ y = Text(u)
    BY <2>2, FlattenedType, TextIs
  <2>5. Shows(f, x \o y)
    <3>1. /\ Len(x \o y) = Len(x) + Len(y) /\ Len(x) \in Nat /\ Len(y) \in Nat
          /\ \A i \in 1..Len(x) : (x \o y)[i] = x[i]
      BY ConcatProperties, LenProperties DEF Texts
    <3>2. /\ Len(f) = Len(x)
          /\ \A i \in 1..Len(f) : f[i] = x[i] \/ (f[i] = "lost" /\ x[i] \in {"lead", "trail"})
      BY <2>3, <2>4 DEF Alike, Shows
    <3>3. Len(f) <= Len(x \o y)
      BY <3>1, <3>2
    <3>4. \A i \in 1..Len(f) : \/ f[i] = (x \o y)[i]
                               \/ f[i] = "lost" /\ (x \o y)[i] \in {"lead", "trail"}
      BY <3>1, <3>2
    <3> QED
      BY <3>3, <3>4 DEF Shows
  <2> QED
    BY <2>3, <2>4, <2>5 DEF WholeInv, Fits, Whole, Answer, Alike
<1> QED
  BY <1>1, <1>2, <1>3, Typed, PTL DEF Spec
=============================================================================
