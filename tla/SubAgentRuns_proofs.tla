------------------------ MODULE SubAgentRuns_proofs ------------------------
(***************************************************************************)
(* Proofs about SubAgentRuns, and the VirtualMail it runs on, for any      *)
(* messages, helpers, calls, plans, scenarios and limits.                  *)
(***************************************************************************)
EXTENDS SubAgentRuns, FiniteSetTheorems, TLAPS

-----------------------------------------------------------------------------
(* The inductive invariant: the mail *)

SameMail(a, b) ==
  /\ a.kind = b.kind /\ a.to = b.to /\ a.thread = b.thread
  /\ a.parent = b.parent /\ a.revision = b.revision

\* The delivery has been leased once, or is over without that.
Taken(row) == row.status \in {"leased", "consumed", "stale", "blocked"}

\* What the ledger has of a message, and what the tables have: the tables lag
\* behind after a torn write, and know a blocked delivery the ledger does not;
\* after a torn rebuild they are anywhere behind.
RowOK(l, t) ==
  /\ l \in MailRow \union {NoMail} /\ t \in MailRow \union {NoMail}
  /\ l.status # "blocked"
  /\ t # NoMail => SameMail(t, l)
  /\ \/ t = l
     \/ t.status = "blocked" /\ l.status \in {"leased", "stale"}
     \/ May("torn_write") /\ t.status \in {"none", "queued", "leased"}
     \/ May("torn_rebuild")
  /\ Taken(t) => Taken(l)
  /\ t.status = "blocked" => t.to \in Agents
  /\ l.kind = "task" => l.to \in Helpers
  /\ l.kind = "report" => l.to = Desk

MailOK(L, T) ==
  /\ L \in [Messages -> MailRow \union {NoMail}]
  /\ T \in [Messages -> MailRow \union {NoMail}]
  /\ \A m \in Messages : RowOK(L[m], T[m])
  /\ \A m \in Messages : L[m] # NoMail => L[L[m].thread] # NoMail

\* What a replay may end with is behind the ledger.
ReplaysOK(P, L) == \A p \in P : May("torn_rebuild") /\ MailOK(L, p)

\* Messages stay what they are, what is taken stays taken, what is consumed or
\* stale in the tables stays as it is.
Kept(L, T, L2, T2) ==
  \A m \in Messages :
    /\ L[m] # NoMail => SameMail(L2[m], L[m]) /\ L2[m] # NoMail
    /\ T[m] # NoMail => T2[m] # NoMail
    /\ Taken(L[m]) => Taken(L2[m])
    /\ Taken(T[m]) => Taken(T2[m])
    /\ ~ May("torn_rebuild") /\ T[m].status \in {"consumed", "stale"} => T2[m] = T[m]

-----------------------------------------------------------------------------
(* The inductive invariant: the calls and the runs *)

\* The tasks a call has in hand.
InHand(call) == call.batch \union (IF call.at = "next" THEN {} ELSE {call.task})

Working(call, T) == call.at # "next" /\ Mode[T[call.task].to] # "worker"

\* Those it alone may lease, run and settle.
Held(call, T) == call.batch \union (IF Working(call, T) THEN {call.task} ELSE {})

\* Those of them that have not been run.
Unrun(call) == call.batch \union (IF call.at = "spawning" THEN {call.task} ELSE {})

\* No run is of the task, unless a torn rebuild has forgotten it.
NotRun(m, R) == ~ May("torn_rebuild") => \A i \in DOMAIN R : R[i].task # m

IsTask(m, T) == m \in Messages /\ T[m].kind = "task"

AnswersTurn(m, by, L, T) ==
  /\ T[m].kind = "report" /\ L[m].revision >= by
  /\ L[m].parent \in Messages
  /\ L[L[m].parent].kind = "task" /\ L[L[m].parent].revision = by

CallOK(call, L, T, R) ==
  /\ call.at # "next" => IsTask(call.task, T)
  /\ call.at = "spawning" => Mode[T[call.task].to] = "burst"
  /\ call.by = 0 =>
       /\ call.own = 0 /\ call.reports = {} /\ call.todo = <<>>
       /\ call.at # "next" => Mode[T[call.task].to] # "worker" /\ call.task \notin call.batch
       /\ \A m \in call.batch : Mode[T[m].to] # "worker"
  /\ call.by # 0 /\ call.batch # {} =>
       /\ call.at = "working" /\ call.batch = {call.task}
       /\ Mode[T[call.task].to] = "worker"
  /\ call.own # 0 => IsTask(call.own, T) /\ L[call.own].revision = call.by
  /\ \A m \in call.reports : AnswersTurn(m, call.by, L, T)
  /\ \A m \in Held(call, T) : IsTask(m, T) /\ T[m] = L[m] /\ T[m].status = "leased"
  /\ \A m \in Unrun(call) : NotRun(m, R)

CallsOK(C, L, T, R) ==
  /\ \A c \in Calls : C[c] # NoCall => CallOK(C[c], L, T, R)
  /\ \A c, d \in Calls :
       c # d /\ C[c] # NoCall /\ C[d] # NoCall => InHand(C[c]) \intersect InHand(C[d]) = {}

\* A run is of a task that was leased, in whose thread it runs.
RunOK(run, L, T) ==
  /\ run.task \in Messages /\ (~ May("torn_rebuild") => Taken(T[run.task]))
  /\ L[run.task].kind = "task"
  /\ run.thread = L[run.task].thread /\ run.target = L[run.task].to

RunsOK(L, T, R) ==
  /\ \A i \in DOMAIN R : RunOK(R[i], L, T)
  /\ ~ May("torn_rebuild") => \A i, j \in DOMAIN R : R[i].task = R[j].task => i = j

IInv ==
  /\ TypeOK
  /\ MailOK(ledger, tables)
  /\ ReplaysOK(replays, ledger)
  /\ CallsOK(calls, ledger, tables, runs)
  /\ RunsOK(ledger, tables, runs)

-----------------------------------------------------------------------------
(* Waves *)

After(rows, w) == [m \in Messages |-> IF m \in DOMAIN w THEN w[m] ELSE rows[m]]

\* A row that may be written over what the ledger and the tables have.
GoodWrite(l, t, r) ==
  /\ r \in MailRow /\ r.status # "blocked"
  /\ r.kind = "task" => r.to \in Helpers
  /\ r.kind = "report" => r.to = Desk
  /\ \/ l = NoMail /\ t = NoMail
     \/ t # NoMail /\ SameMail(r, t)
  /\ Taken(l) => Taken(r)
  /\ \/ t.status \in {"none", "queued", "leased"}
     \/ t.status = "blocked" /\ r.status \in {"leased", "stale"}

GoodWave(w, L, T) ==
  /\ DOMAIN w \subseteq Messages
  /\ \A m \in DOMAIN w : GoodWrite(L[m], T[m], w[m]) /\ (w[m].thread = m \/ L[w[m].thread] # NoMail)

\* A set of positions has a last one: the natural numbers are well founded.
LEMMA MaxExists ==
  ASSUME NEW n \in Nat, NEW S \in SUBSET (1 .. n), S # {}
  PROVE  Max(S) \in S /\ \A i \in S : i <= Max(S)
<1>0. \A i \in S : i \in Nat /\ n - i \in Nat
  OBVIOUS
<1> DEFINE T == {n - i : i \in S}
<1>1. T \subseteq Nat /\ T # {}
  BY <1>0
<1>2. PICK x \in T : \A y \in T : ~ y < x
  <2> DEFINE R == OpToRel(<, Nat)
  <2>1. IsWellFoundedOn(R, Nat)
    BY NatLessThanWellFounded
  <2>2. PICK x \in T : \A y \in T : ~ (<<y, x>> \in R)
    <3> HIDE DEF T, R
    <3> QED
      BY <1>1, <2>1, WFMin
  <2> QED
    BY <1>1, <2>2 DEF OpToRel
<1>3. PICK i \in S : x = n - i
  OBVIOUS
<1>4. \A j \in S : ~ n - j < n - i
  BY <1>2, <1>3
<1>5. \A j \in S : j <= i
  <2> HIDE DEF T
  <2> QED
    BY <1>4, <1>0
<1> QED
  BY <1>5 DEF Max

\* A greatest element is the maximum.
LEMMA MaxIs ==
  ASSUME NEW S, NEW n \in S, \A i \in S : i <= n, S \subseteq Nat
  PROVE  Max(S) = n
<1> DEFINE P(x) == \A y \in S : x >= y
<1>1. n \in S /\ P(n)
  OBVIOUS
<1>2. \A x \in S : P(x) => x = n
  OBVIOUS
<1> QED
  BY <1>1, <1>2 DEF Max

\* No waves, nothing written.
LEMMA WrittenNone ==
  ASSUME NEW rows \in [Messages -> MailRow \union {NoMail}]
  PROVE  Written(rows, <<>>) = rows
<1>1. \A m \in Messages : {i \in DOMAIN <<>> : m \in DOMAIN <<>>[i]} = {}
  OBVIOUS
<1> QED
  BY <1>1 DEF Written

\* The last wave overwrites the rows it has.
LEMMA WrittenAppend ==
  ASSUME NEW rows, NEW S, NEW waves \in Seq(S), NEW w
  PROVE  Written(rows, Append(waves, w)) = After(Written(rows, waves), w)
<1> DEFINE more == Append(waves, w)
           n == Len(waves) + 1
           W(ws, m) == {i \in DOMAIN ws : m \in DOMAIN ws[i]}
<1>1. /\ DOMAIN waves = 1 .. n - 1 /\ DOMAIN more = 1 .. n /\ n \in Nat \ {0}
      /\ more[n] = w /\ \A i \in 1 .. n - 1 : more[i] = waves[i]
  OBVIOUS
<1>2. ASSUME NEW m \in Messages
      PROVE  Written(rows, more)[m] = After(Written(rows, waves), w)[m]
  <2>1. CASE m \in DOMAIN w
    <3>1. n \in W(more, m) /\ W(more, m) \subseteq Nat /\ \A i \in W(more, m) : i <= n
      BY <1>1, <2>1
    <3>2. Max(W(more, m)) = n
      BY <3>1, MaxIs
    <3> QED
      BY <2>1, <3>1, <3>2, <1>1 DEF Written, After
  <2>2. CASE m \notin DOMAIN w
    <3>1. W(more, m) = W(waves, m)
      BY <1>1, <2>2
    <3>2. \A i \in W(waves, m) : more[i] = waves[i]
      BY <1>1
    <3>3. CASE W(waves, m) = {}
      BY <2>2, <3>1, <3>3 DEF Written, After
    <3>4. CASE W(waves, m) # {}
      <4>1. Max(W(waves, m)) \in W(waves, m)
        <5> DEFINE X == W(waves, m)
        <5>1. X \in SUBSET (1 .. n - 1) /\ X # {} /\ n - 1 \in Nat
          BY <1>1, <3>4
        <5> HIDE DEF X
        <5>2. Max(X) \in X
          BY <5>1, MaxExists
        <5> QED
          BY <5>2 DEF X
      <4> QED
        BY <2>2, <3>1, <3>2, <3>4, <4>1 DEF Written, After
    <3> QED
      BY <3>3, <3>4
  <2> QED
    BY <2>1, <2>2
<1> QED
  BY <1>2 DEF Written, After

\* One good write.
LEMMA WriteOK ==
  ASSUME NEW l, NEW t, NEW r, RowOK(l, t), GoodWrite(l, t, r)
  PROVE  /\ RowOK(r, r)
         /\ May("torn_write") => RowOK(r, t)
         /\ r # NoMail
         /\ l # NoMail => SameMail(r, l)
         /\ Taken(l) => Taken(r)
         /\ Taken(t) => Taken(r)
<1>1. r # NoMail
  BY DEF GoodWrite, MailRow, NoMail
<1>2. l # NoMail => SameMail(r, l)
  BY DEF GoodWrite, RowOK, SameMail, NoMail
<1>3. Taken(t) => Taken(r)
  BY DEF GoodWrite, RowOK
<1>4. RowOK(r, r)
  <2>1. r \in MailRow /\ r.status # "blocked" /\ SameMail(r, r)
    BY DEF GoodWrite, SameMail
  <2> QED
    BY <2>1 DEF GoodWrite, RowOK
<1>5. ASSUME May("torn_write") PROVE RowOK(r, t)
  <2>1. /\ r \in MailRow /\ r.status # "blocked" /\ t \in MailRow \union {NoMail}
        /\ t # NoMail => SameMail(t, r)
        /\ t.status = "blocked" => t.to \in Agents
    BY DEF GoodWrite, RowOK, SameMail
  <2>2. \/ t.status = "blocked" /\ r.status \in {"leased", "stale"}
        \/ May("torn_write") /\ t.status \in {"none", "queued", "leased"}
    BY <1>5 DEF GoodWrite
  <2> QED
    BY <2>1, <2>2, <1>3 DEF GoodWrite, RowOK
<1> QED
  BY <1>1, <1>2, <1>3, <1>4, <1>5 DEF GoodWrite

\* A good wave, or a part of it, of which the last event may be appended only.
LEMMA WaveOK ==
  ASSUME NEW L, NEW T, NEW w, NEW S, NEW S2, MailOK(L, T), GoodWave(w, L, T),
         S \subseteq S2, S2 \subseteq DOMAIN w,
         S = S2 \/ May("torn_write")
  PROVE  /\ MailOK(After(L, Restrict(w, S2)), After(T, Restrict(w, S)))
         /\ Kept(L, T, After(L, Restrict(w, S2)), After(T, Restrict(w, S)))
<1> DEFINE L2 == After(L, Restrict(w, S2))
           T2 == After(T, Restrict(w, S))
<1>1. /\ \A m \in Messages : L2[m] = IF m \in S2 THEN w[m] ELSE L[m]
      /\ \A m \in Messages : T2[m] = IF m \in S THEN w[m] ELSE T[m]
      /\ DOMAIN L2 = Messages /\ L2 = [m \in Messages |-> L2[m]]
      /\ DOMAIN T2 = Messages /\ T2 = [m \in Messages |-> T2[m]]
  BY DEF After, Restrict
<1>2. \A m \in S2 : /\ m \in Messages /\ RowOK(L[m], T[m]) /\ GoodWrite(L[m], T[m], w[m])
                    /\ w[m].thread = m \/ L[w[m].thread] # NoMail
  BY DEF GoodWave, MailOK
<1>3. \A m \in S2 :
        /\ RowOK(w[m], w[m])
        /\ May("torn_write") => RowOK(w[m], T[m])
        /\ w[m] # NoMail
        /\ L[m] # NoMail => SameMail(w[m], L[m])
        /\ Taken(L[m]) => Taken(w[m])
        /\ Taken(T[m]) => Taken(w[m])
        /\ T[m].status \notin {"consumed", "stale"}
  BY <1>2, WriteOK DEF GoodWrite
<1>4. \A m \in Messages : RowOK(L2[m], T2[m])
  <2> TAKE m \in Messages
  <2>1. CASE m \in S
    BY <1>1, <1>3, <2>1
  <2>2. CASE m \in S2 \ S
    BY <1>1, <1>3, <2>2
  <2>3. CASE m \notin S2
    BY <1>1, <2>3 DEF MailOK
  <2> QED
    BY <2>1, <2>2, <2>3
<1>5. \A m \in Messages : L2[m] \in MailRow \union {NoMail} /\ T2[m] \in MailRow \union {NoMail}
  BY <1>4 DEF RowOK
<1>6. \A m \in Messages : L[m] # NoMail => SameMail(L2[m], L[m]) /\ L2[m] # NoMail
  BY <1>1, <1>3 DEF SameMail
<1>7. \A m \in Messages : L2[m] # NoMail => L2[L2[m].thread] # NoMail
  <2> TAKE m \in Messages
  <2>1. HAVE L2[m] # NoMail
  <2>2. L2[m].thread \in Messages
    BY <2>1, <1>5 DEF MailRow
  <2>3. CASE m \in S2
    BY <1>1, <1>2, <1>6, <2>1, <2>2, <2>3
  <2>4. CASE m \notin S2
    BY <1>1, <1>6, <2>1, <2>2, <2>4 DEF MailOK
  <2> QED
    BY <2>3, <2>4
<1>8. MailOK(L2, T2)
  <2>1. L2 \in [Messages -> MailRow \union {NoMail}] /\ T2 \in [Messages -> MailRow \union {NoMail}]
    BY <1>1, <1>5
  <2> HIDE DEF L2, T2
  <2> QED
    BY <2>1, <1>4, <1>7 DEF MailOK
<1>9. Kept(L, T, L2, T2)
  <2>1. \A m \in Messages : T[m] # NoMail => T2[m] # NoMail
    BY <1>1, <1>3
  <2>2. \A m \in Messages : /\ Taken(L[m]) => Taken(L2[m])
                            /\ Taken(T[m]) => Taken(T2[m])
                            /\ T[m].status \in {"consumed", "stale"} => T2[m] = T[m]
    BY <1>1, <1>3
  <2> HIDE DEF L2, T2
  <2> QED
    BY <2>1, <2>2, <1>6 DEF Kept
<1> QED
  BY <1>8, <1>9

\* What is kept by one wave and by the next is kept by both.
LEMMA KeptTwice ==
  ASSUME NEW L, NEW T, NEW L1, NEW T1, NEW L2, NEW T2, Kept(L, T, L1, T1), Kept(L1, T1, L2, T2)
  PROVE  Kept(L, T, L2, T2)
BY DEF Kept, SameMail

\* Nothing written, nothing lost.
LEMMA KeptSame ==
  ASSUME NEW L, NEW T
  PROVE  Kept(L, T, L, T)
BY DEF Kept, SameMail

Prefix(waves, n) == SubSeq(waves, 1, n)

\* Each wave may be written after the ones before it.
GoodWaves(waves, L, T) ==
  \A n \in DOMAIN waves :
    GoodWave(waves[n], Written(L, Prefix(waves, n - 1)), Written(T, Prefix(waves, n - 1)))

\* A prefix is the one before it and one wave more.
LEMMA NextPrefix ==
  ASSUME NEW S, NEW waves \in Seq(S), NEW n \in 1 .. Len(waves)
  PROVE  /\ Prefix(waves, n - 1) \in Seq(S)
         /\ Prefix(waves, n) = Append(Prefix(waves, n - 1), waves[n])
<1>1. Prefix(waves, n - 1) \in Seq(S) /\ Len(Prefix(waves, n - 1)) = n - 1
  BY DEF Prefix
<1>2. Prefix(waves, n) \in Seq(S) /\ Len(Prefix(waves, n)) = n
  BY DEF Prefix
<1>3. Len(Append(Prefix(waves, n - 1), waves[n])) = n
  BY <1>1
<1>4. \A i \in 1 .. n : Prefix(waves, n)[i] = Append(Prefix(waves, n - 1), waves[n])[i]
  BY <1>1 DEF Prefix
<1> QED
  BY <1>1, <1>2, <1>3, <1>4

\* Any number of good waves.
LEMMA PrefixOK ==
  ASSUME NEW S, NEW waves \in Seq(S), NEW L, NEW T, MailOK(L, T), GoodWaves(waves, L, T),
         NEW n \in 0 .. Len(waves)
  PROVE  /\ MailOK(Written(L, Prefix(waves, n)), Written(T, Prefix(waves, n)))
         /\ Kept(L, T, Written(L, Prefix(waves, n)), Written(T, Prefix(waves, n)))
         /\ \A j \in 0 .. n :
              Kept(Written(L, Prefix(waves, j)), Written(T, Prefix(waves, j)),
                   Written(L, Prefix(waves, n)), Written(T, Prefix(waves, n)))
<1> DEFINE From(j, i) == Kept(Written(L, Prefix(waves, j)), Written(T, Prefix(waves, j)),
                              Written(L, Prefix(waves, i)), Written(T, Prefix(waves, i)))
           OK(i) == /\ MailOK(Written(L, Prefix(waves, i)), Written(T, Prefix(waves, i)))
                    /\ Kept(L, T, Written(L, Prefix(waves, i)), Written(T, Prefix(waves, i)))
                    /\ \A j \in 0 .. i : From(j, i)
<1>1. OK(0)
  <2>1. Prefix(waves, 0) = <<>>
    BY DEF Prefix
  <2>2. Written(L, <<>>) = L /\ Written(T, <<>>) = T
    BY WrittenNone DEF MailOK
  <2>3. From(0, 0)
    BY KeptSame
  <2> HIDE DEF From
  <2>4. \A j \in 0 .. 0 : From(j, 0)
    BY <2>3
  <2> QED
    BY <2>1, <2>2, <2>4, KeptSame
<1>2. ASSUME NEW i \in 1 .. Len(waves), OK(i - 1)
      PROVE  OK(i)
  <2> DEFINE w == waves[i]
             D == DOMAIN w
             L1 == Written(L, Prefix(waves, i - 1))
             T1 == Written(T, Prefix(waves, i - 1))
  <2>1. GoodWave(w, L1, T1)
    BY DEF GoodWaves
  <2>2. Written(L, Prefix(waves, i)) = After(L1, w) /\ Written(T, Prefix(waves, i)) = After(T1, w)
    <3>1. Prefix(waves, i - 1) \in Seq(S) /\ Prefix(waves, i) = Append(Prefix(waves, i - 1), w)
      BY NextPrefix
    <3>2. \A rows : Written(rows, Append(Prefix(waves, i - 1), w)) = After(Written(rows, Prefix(waves, i - 1)), w)
      BY <3>1, WrittenAppend
    <3> QED
      BY <3>1, <3>2
  <2>3. After(L1, Restrict(w, D)) = After(L1, w) /\ After(T1, Restrict(w, D)) = After(T1, w)
    BY DEF After, Restrict
  <2>4. MailOK(L1, T1) /\ Kept(L, T, L1, T1)
    BY <1>2
  <2> HIDE DEF L1, T1, w
  <2>5. MailOK(After(L1, w), After(T1, w)) /\ Kept(L1, T1, After(L1, w), After(T1, w))
    BY <2>1, <2>3, <2>4, WaveOK, D \subseteq D
  <2>6. Kept(L, T, After(L1, w), After(T1, w))
    BY <2>4, <2>5, KeptTwice
  <2>7. \A j \in 0 .. i - 1 : From(j, i - 1)
    BY <1>2
  <2>8. From(i - 1, i)
    BY <2>2, <2>5 DEF L1, T1
  <2>9. From(i, i)
    BY KeptSame
  <2>10. \A j \in 0 .. i - 1 : From(j, i)
    BY <2>7, <2>8, KeptTwice
  <2> HIDE DEF From
  <2>11. \A j \in 0 .. i : From(j, i)
    <3>1. \A j \in 0 .. i : j = i \/ j \in 0 .. i - 1
      OBVIOUS
    <3> QED
      BY <2>9, <2>10, <3>1
  <2> QED
    BY <2>2, <2>5, <2>6, <2>11
<1> DEFINE Bad == {i \in 0 .. Len(waves) : ~ OK(i)}
<1> HIDE DEF OK
<1>3. CASE Bad = {}
  BY <1>3 DEF OK
<1>4. CASE Bad # {}
  <2> DEFINE R == OpToRel(<, Nat)
  <2>1. PICK i \in Bad : \A j \in Bad : ~ j < i
    <3>1. IsWellFoundedOn(R, Nat)
      BY NatLessThanWellFounded
    <3>2. Bad \subseteq Nat
      OBVIOUS
    <3>3. PICK i \in Bad : \A j \in Bad : ~ (<<j, i>> \in R)
      <4> HIDE DEF Bad, R
      <4> QED
        BY <1>4, <3>1, <3>2, WFMin
    <3> QED
      BY <3>2, <3>3 DEF OpToRel
  <2> HIDE DEF R
  <2>2. i \in 1 .. Len(waves) /\ i - 1 \in 0 .. Len(waves) /\ i - 1 < i
    BY <1>1
  <2>3. OK(i - 1)
    BY <2>1, <2>2
  <2> QED
    BY <1>2, <2>2, <2>3, <2>1
<1> QED
  BY <1>3, <1>4

\* A part of a good wave is good, and so are good waves of which the last is
\* broken off.
LEMMA BrokenOK ==
  ASSUME NEW S, NEW waves \in Seq(S), NEW L, NEW T, GoodWaves(waves, L, T),
         NEW n \in 1 .. Len(waves), NEW D \in SUBSET DOMAIN waves[n]
  PROVE  /\ Broken(waves, n, D) \in Seq(S \union {Restrict(waves[n], D)})
         /\ Len(Broken(waves, n, D)) = n
         /\ \A i \in 1 .. n : Prefix(Broken(waves, n, D), i - 1) = Prefix(waves, i - 1)
         /\ \A i \in 1 .. n - 1 : Broken(waves, n, D)[i] = waves[i]
         /\ Broken(waves, n, D)[n] = Restrict(waves[n], D)
         /\ GoodWaves(Broken(waves, n, D), L, T)
<1> DEFINE w == Restrict(waves[n], D)
           ws == Broken(waves, n, D)
<1>0. Prefix(waves, n - 1) \in Seq(S) /\ Len(Prefix(waves, n - 1)) = n - 1
  BY DEF Prefix
<1>1. ws = Append(Prefix(waves, n - 1), w)
  BY DEF Broken, Prefix
<1>2. \A i \in 1 .. n - 1 : Prefix(waves, n - 1)[i] = waves[i]
  BY DEF Prefix
<1> HIDE DEF w
<1>3. /\ ws \in Seq(S \union {w}) /\ Len(ws) = n /\ ws[n] = w
      /\ \A i \in 1 .. n - 1 : ws[i] = waves[i]
  BY <1>0, <1>1, <1>2
<1> HIDE DEF ws
<1>4. ASSUME NEW i \in 1 .. n PROVE Prefix(ws, i - 1) = Prefix(waves, i - 1)
  <2>1. /\ Prefix(ws, i - 1) \in Seq(S \union {w}) /\ Len(Prefix(ws, i - 1)) = i - 1
        /\ Prefix(waves, i - 1) \in Seq(S) /\ Len(Prefix(waves, i - 1)) = i - 1
    BY <1>3 DEF Prefix
  <2>2. \A j \in 1 .. i - 1 : Prefix(ws, i - 1)[j] = ws[j] /\ Prefix(waves, i - 1)[j] = waves[j]
    BY <1>3 DEF Prefix
  <2>3. \A j \in 1 .. i - 1 : ws[j] = waves[j]
    BY <1>3
  <2> QED
    BY <2>1, <2>2, <2>3
<1>5. GoodWaves(ws, L, T)
  <2>1. ASSUME NEW i \in 1 .. n
        PROVE  GoodWave(ws[i], Written(L, Prefix(ws, i - 1)), Written(T, Prefix(ws, i - 1)))
    <3>1. GoodWave(waves[i], Written(L, Prefix(waves, i - 1)), Written(T, Prefix(waves, i - 1)))
      BY DEF GoodWaves
    <3>2. CASE i # n
      BY <1>3, <1>4, <3>1, <3>2
    <3>3. CASE i = n
      <4>1. ws[i] = Restrict(waves[n], D)
        BY <1>3, <3>3 DEF w
      <4> QED
        BY <1>4, <3>1, <3>3, <4>1 DEF GoodWave, Restrict
    <3> QED
      BY <3>2, <3>3
  <2> QED
    BY <1>3, <2>1 DEF GoodWaves
<1> QED
  BY <1>3, <1>4, <1>5 DEF ws, w

\* Good waves are appended: what a replay may end with stays behind the ledger.
LEMMA AppendedOK ==
  ASSUME NEW S, NEW waves \in Seq(S), MailOK(ledger, tables), GoodWaves(waves, ledger, tables),
         ReplaysOK(replays, ledger), Appended(waves)
  PROVE  ReplaysOK(replays', ledger')
<1> DEFINE L(i) == Written(ledger, Prefix(waves, i))
           T(i) == Written(tables, Prefix(waves, i))
           N == Len(waves)
<1>1. CASE replays = {}
  BY <1>1 DEF Appended, Replays, ReplaysOK
<1>2. CASE replays # {}
  <2>0. May("torn_rebuild")
    BY <1>2 DEF ReplaysOK
  <2>1. ledger' = L(N)
    <3>1. Prefix(waves, N) = waves
      BY DEF Prefix
    <3> QED
      BY <3>1 DEF Appended
  <2>2. \A i \in 0 .. N : /\ MailOK(L(i), T(i)) /\ Kept(ledger, tables, L(i), T(i))
                           /\ Kept(L(i), T(i), L(N), T(N))
    BY PrefixOK
  <2> HIDE DEF L, T
  <2>3. ASSUME NEW p \in [Messages -> MailRow \union {NoMail}],
               \A m \in Messages : \/ RowOK(ledger[m], p[m])
                                    \/ \E i \in 0 .. N : p[m] = L(i)[m]
        PROVE  MailOK(L(N), p)
    <3>1. MailOK(L(N), T(N)) /\ Kept(ledger, tables, L(N), T(N)) /\ N \in 0 .. N
      BY <2>2
    <3>2. ASSUME NEW m \in Messages PROVE RowOK(L(N)[m], p[m])
      <4>1. RowOK(L(N)[m], T(N)[m]) /\ p[m] \in MailRow \union {NoMail}
        BY <3>1 DEF MailOK
      <4>2. CASE RowOK(ledger[m], p[m])
        <5>1. /\ ledger[m] # NoMail => SameMail(L(N)[m], ledger[m])
              /\ Taken(ledger[m]) => Taken(L(N)[m])
          BY <3>1 DEF Kept
        <5>2. p[m] # NoMail => SameMail(p[m], ledger[m]) /\ ledger[m] # NoMail
          BY <4>2 DEF RowOK, SameMail, MailRow, NoMail
        <5>3. p[m] # NoMail => SameMail(p[m], L(N)[m])
          BY <5>1, <5>2 DEF SameMail
        <5> QED
          BY <2>0, <4>1, <4>2, <5>1, <5>3 DEF RowOK
      <4>3. CASE \E i \in 0 .. N : p[m] = L(i)[m]
        <5>1. PICK i \in 0 .. N : p[m] = L(i)[m]
          BY <4>3
        <5>2. /\ L(i)[m] # NoMail => SameMail(L(N)[m], L(i)[m])
              /\ Taken(L(i)[m]) => Taken(L(N)[m])
          BY <2>2 DEF Kept
        <5>3. RowOK(L(i)[m], T(i)[m])
          BY <2>2 DEF MailOK
        <5>4. p[m] # NoMail => SameMail(p[m], L(N)[m])
          BY <5>1, <5>2 DEF SameMail
        <5>5. p[m].status # "blocked"
          BY <5>1, <5>3 DEF RowOK
        <5> QED
          BY <2>0, <4>1, <5>1, <5>2, <5>4, <5>5 DEF RowOK
      <4> QED
        BY <2>3, <4>2, <4>3
    <3> QED
      BY <3>1, <3>2 DEF MailOK
  <2>4. ASSUME NEW p \in replays PROVE MailOK(L(N), p)
    <3>1. MailOK(ledger, p)
      BY DEF ReplaysOK
    <3> QED
      BY <2>3, <3>1 DEF MailOK
  <2>5. ASSUME NEW n \in DOMAIN waves, NEW m \in DOMAIN waves[n]
        PROVE  MailOK(L(N), Written(ledger, Broken(waves, n, {l \in DOMAIN waves[n] : l <= m})))
    <3> DEFINE D == {l \in DOMAIN waves[n] : l <= m}
               p == Written(ledger, Broken(waves, n, D))
    <3>1. n \in 1 .. N /\ n - 1 \in 0 .. N /\ n \in 0 .. N /\ D \in SUBSET DOMAIN waves[n]
      OBVIOUS
    <3>2. L(n) = After(L(n - 1), waves[n]) /\ p = After(L(n - 1), Restrict(waves[n], D))
      <4>1. Prefix(waves, n - 1) \in Seq(S) /\ Prefix(waves, n) = Append(Prefix(waves, n - 1), waves[n])
        BY <3>1, NextPrefix
      <4>2. \A v : Written(ledger, Append(Prefix(waves, n - 1), v)) = After(L(n - 1), v)
        BY <4>1, WrittenAppend DEF L
      <4> QED
        BY <4>1, <4>2 DEF L, Broken, Prefix
    <3>3. L(n - 1) \in [Messages -> MailRow \union {NoMail}] /\ L(n) \in [Messages -> MailRow \union {NoMail}]
      BY <2>2, <3>1 DEF MailOK
    <3> HIDE DEF D, p
    <3>4. ASSUME NEW l \in Messages PROVE p[l] = L(n)[l] \/ p[l] = L(n - 1)[l]
      <4> DEFINE L1 == L(n - 1)
                 w == waves[n]
      <4>1. L(n) = After(L1, w) /\ p = After(L1, Restrict(w, D)) /\ D \subseteq DOMAIN w
        BY <3>1, <3>2
      <4> HIDE DEF L1, w
      <4>2. L(n)[l] = IF l \in DOMAIN w THEN w[l] ELSE L1[l]
        BY <4>1 DEF After
      <4>3. p[l] = IF l \in D THEN w[l] ELSE L1[l]
        BY <4>1 DEF After, Restrict
      <4> QED
        BY <4>1, <4>2, <4>3 DEF L1
    <3>5. p \in [Messages -> MailRow \union {NoMail}]
      <4>1. p = [l \in Messages |-> p[l]]
        BY <3>2 DEF After
      <4> QED
        BY <3>3, <3>4, <4>1
    <3>6. MailOK(L(N), p)
      BY <2>3, <3>1, <3>4, <3>5
    <3> QED
      BY <3>6 DEF p, D
  <2>6. ASSUME NEW p \in replays' PROVE MailOK(ledger', p)
    <3>1. replays' = replays \union
            UNION {{Written(ledger, Broken(waves, n, {l \in DOMAIN waves[n] : l <= m})) :
                      m \in DOMAIN waves[n]} : n \in DOMAIN waves}
      BY <1>2 DEF Appended, Replays
    <3>2. CASE p \in replays
      BY <2>1, <2>4, <3>2
    <3>3. CASE p \notin replays
      <4>1. PICK n \in DOMAIN waves : p \in
              {Written(ledger, Broken(waves, n, {l \in DOMAIN waves[n] : l <= m})) : m \in DOMAIN waves[n]}
        BY <3>1, <3>3
      <4>2. PICK m \in DOMAIN waves[n] :
              p = Written(ledger, Broken(waves, n, {l \in DOMAIN waves[n] : l <= m}))
        BY <4>1
      <4> QED
        BY <2>1, <2>5, <4>2
    <3> QED
      BY <3>2, <3>3
  <2> QED
    BY <2>0, <2>6 DEF ReplaysOK
<1> QED
  BY <1>1, <1>2

\* A block that is completed.
LEMMA RecordOK ==
  ASSUME NEW S, NEW waves \in Seq(S), MailOK(ledger, tables), GoodWaves(waves, ledger, tables),
         Record(waves), ReplaysOK(replays, ledger)
  PROVE  /\ MailOK(ledger', tables') /\ Kept(ledger, tables, ledger', tables')
         /\ ReplaysOK(replays', ledger')
<1>1. Prefix(waves, Len(waves)) = waves
  BY DEF Prefix
<1>2. MailOK(ledger', tables') /\ Kept(ledger, tables, ledger', tables')
  BY <1>1, PrefixOK, Len(waves) \in 0 .. Len(waves) DEF Record, Appended
<1> QED
  BY <1>2, AppendedOK DEF Record

\* A block that is torn.
LEMMA TornOK ==
  ASSUME NEW S, NEW waves \in Seq(S), MailOK(ledger, tables), GoodWaves(waves, ledger, tables),
         RecordTorn(waves), May("torn_write"), ReplaysOK(replays, ledger)
  PROVE  /\ MailOK(ledger', tables') /\ Kept(ledger, tables, ledger', tables')
         /\ ReplaysOK(replays', ledger')
<1>0. PICK n \in DOMAIN waves : \E m \in DOMAIN waves[n], applied \in BOOLEAN :
        LET before == {l \in DOMAIN waves[n] : l < m}
        IN  /\ Appended(Broken(waves, n, before \union {m}))
            /\ tables' = Written(tables, Broken(waves, n, IF applied THEN before \union {m} ELSE before))
  BY DEF RecordTorn
<1>1. PICK m \in DOMAIN waves[n], applied \in BOOLEAN :
        LET before == {l \in DOMAIN waves[n] : l < m}
        IN  /\ Appended(Broken(waves, n, before \union {m}))
            /\ tables' = Written(tables, Broken(waves, n, IF applied THEN before \union {m} ELSE before))
  BY <1>0
<1> DEFINE w == waves[n]
           S2 == {l \in DOMAIN w : l < m} \union {m}
           S1 == IF applied THEN S2 ELSE {l \in DOMAIN w : l < m}
           L1 == Written(ledger, Prefix(waves, n - 1))
           T1 == Written(tables, Prefix(waves, n - 1))
<1>2. n \in 1 .. Len(waves) /\ n - 1 \in 0 .. Len(waves)
  OBVIOUS
<1>3. MailOK(L1, T1) /\ Kept(ledger, tables, L1, T1)
  BY <1>2, PrefixOK
<1>4. GoodWave(w, L1, T1)
  BY DEF GoodWaves
<1>5. S1 \subseteq S2 /\ S2 \subseteq DOMAIN w
  OBVIOUS
<1>6. ledger' = After(L1, Restrict(w, S2)) /\ tables' = After(T1, Restrict(w, S1))
  <2>1. Prefix(waves, n - 1) \in Seq(S)
    BY <1>2, NextPrefix
  <2>2. \A rows, v : Written(rows, Append(Prefix(waves, n - 1), v)) = After(Written(rows, Prefix(waves, n - 1)), v)
    BY <2>1, WrittenAppend
  <2> QED
    BY <1>1, <2>2 DEF Broken, Prefix, Appended
<1>8. ReplaysOK(replays', ledger')
  <2>1. Appended(Broken(waves, n, S2))
    BY <1>1
  <2> DEFINE ws == Broken(waves, n, S2)
  <2>2. ws \in Seq(S \union {Restrict(w, S2)}) /\ GoodWaves(ws, ledger, tables)
    BY <1>2, <1>5, BrokenOK
  <2> HIDE DEF ws
  <2>3. Appended(ws)
    BY <2>1 DEF ws
  <2> QED
    BY <2>2, <2>3, AppendedOK
<1> HIDE DEF L1, T1, S1, S2, w
<1>7. MailOK(ledger', tables') /\ Kept(L1, T1, ledger', tables')
  BY <1>3, <1>4, <1>5, <1>6, WaveOK
<1> QED
  BY <1>3, <1>7, <1>8, KeptTwice

MailStep ==
  /\ MailOK(ledger', tables') /\ Kept(ledger, tables, ledger', tables')
  /\ ReplaysOK(replays', ledger')

\* One wave, two, three.
LEMMA OneWave ==
  ASSUME NEW w1, NEW L, NEW T, MailOK(L, T), GoodWave(w1, L, T)
  PROVE  /\ <<w1>> \in Seq({w1})
         /\ GoodWaves(<<w1>>, L, T)
         /\ Written(L, <<w1>>) = After(L, w1) /\ Written(T, <<w1>>) = After(T, w1)
<1>1. <<>> \in Seq({w1}) /\ <<w1>> \in Seq({w1}) /\ <<w1>> = Append(<<>>, w1)
  OBVIOUS
<1>2. Written(L, <<>>) = L /\ Written(T, <<>>) = T
  BY WrittenNone DEF MailOK
<1>3. \A rows : Written(rows, Append(<<>>, w1)) = After(Written(rows, <<>>), w1)
  BY <1>1, WrittenAppend
<1>4. DOMAIN <<w1>> = {1} /\ <<w1>>[1] = w1 /\ Prefix(<<w1>>, 0) = <<>>
  BY DEF Prefix
<1> HIDE DEF Prefix
<1> QED
  BY <1>1, <1>2, <1>3, <1>4 DEF GoodWaves

\* Two waves, each good where the one before it leaves the mail, are good.
LEMMA TwoWaves ==
  ASSUME NEW w1, NEW w2, NEW L, NEW T, MailOK(L, T), GoodWave(w1, L, T),
         GoodWave(w2, After(L, w1), After(T, w1))
  PROVE  /\ <<w1, w2>> \in Seq({w1, w2})
         /\ GoodWaves(<<w1, w2>>, L, T)
         /\ Written(L, <<w1, w2>>) = After(After(L, w1), w2)
         /\ Written(T, <<w1, w2>>) = After(After(T, w1), w2)
<1>1. /\ <<w1>> \in Seq({w1, w2}) /\ <<w1, w2>> \in Seq({w1, w2})
      /\ <<w1, w2>> = Append(<<w1>>, w2)
  OBVIOUS
<1>2. Written(L, <<>>) = L /\ Written(T, <<>>) = T
  BY WrittenNone DEF MailOK
<1>3. Written(L, <<w1>>) = After(L, w1) /\ Written(T, <<w1>>) = After(T, w1)
  BY OneWave
<1>4. \A rows : Written(rows, Append(<<w1>>, w2)) = After(Written(rows, <<w1>>), w2)
  BY <1>1, WrittenAppend
<1>5. DOMAIN <<w1, w2>> = {1, 2} /\ <<w1, w2>>[1] = w1 /\ <<w1, w2>>[2] = w2
  OBVIOUS
<1>6. Prefix(<<w1, w2>>, 0) = <<>>
  BY DEF Prefix
<1>7. Prefix(<<w1, w2>>, 1) = <<w1>>
  <2>1. Prefix(<<w1, w2>>, 1) \in Seq({w1, w2}) /\ Len(Prefix(<<w1, w2>>, 1)) = 1
    BY <1>1, <1>5 DEF Prefix
  <2>2. Prefix(<<w1, w2>>, 1)[1] = w1
    BY <1>1, <1>5 DEF Prefix
  <2> QED
    BY <2>1, <2>2
<1>8. /\ Written(L, <<w1, w2>>) = After(After(L, w1), w2)
      /\ Written(T, <<w1, w2>>) = After(After(T, w1), w2)
  BY <1>1, <1>3, <1>4
<1> DEFINE ws == <<w1, w2>>
<1>9. /\ GoodWave(ws[1], Written(L, Prefix(ws, 0)), Written(T, Prefix(ws, 0)))
      /\ GoodWave(ws[2], Written(L, Prefix(ws, 1)), Written(T, Prefix(ws, 1)))
  BY <1>2, <1>3, <1>5, <1>6, <1>7
<1> HIDE DEF ws
<1>10. GoodWaves(ws, L, T)
  <2>1. DOMAIN ws = {1, 2} /\ 1 - 1 = 0 /\ 2 - 1 = 1
    BY <1>5 DEF ws
  <2> QED
    BY <1>9, <2>1 DEF GoodWaves
<1> QED
  BY <1>1, <1>8, <1>10 DEF ws

\* And so are three.
LEMMA ThreeWaves ==
  ASSUME NEW w1, NEW w2, NEW w3, NEW L, NEW T, MailOK(L, T), GoodWave(w1, L, T),
         GoodWave(w2, After(L, w1), After(T, w1)),
         GoodWave(w3, After(After(L, w1), w2), After(After(T, w1), w2))
  PROVE  /\ <<w1, w2, w3>> \in Seq({w1, w2, w3})
         /\ GoodWaves(<<w1, w2, w3>>, L, T)
         /\ Written(L, <<w1, w2, w3>>) = After(After(After(L, w1), w2), w3)
         /\ Written(T, <<w1, w2, w3>>) = After(After(After(T, w1), w2), w3)
<1>1. /\ <<w1, w2>> \in Seq({w1, w2, w3}) /\ <<w1, w2, w3>> \in Seq({w1, w2, w3})
      /\ <<w1, w2, w3>> = Append(<<w1, w2>>, w3)
  OBVIOUS
<1>2. Written(L, <<>>) = L /\ Written(T, <<>>) = T
  BY WrittenNone DEF MailOK
<1>3. Written(L, <<w1>>) = After(L, w1) /\ Written(T, <<w1>>) = After(T, w1)
  BY OneWave
<1>4. /\ Written(L, <<w1, w2>>) = After(After(L, w1), w2)
      /\ Written(T, <<w1, w2>>) = After(After(T, w1), w2)
  BY TwoWaves
<1>5. \A rows : Written(rows, Append(<<w1, w2>>, w3)) = After(Written(rows, <<w1, w2>>), w3)
  BY <1>1, WrittenAppend
<1> DEFINE ws == <<w1, w2, w3>>
<1>6. DOMAIN ws = {1, 2, 3} /\ ws[1] = w1 /\ ws[2] = w2 /\ ws[3] = w3
  OBVIOUS
<1>7. Prefix(ws, 0) = <<>>
  BY DEF Prefix
<1>8. Prefix(ws, 1) = <<w1>>
  <2>1. Prefix(ws, 1) \in Seq({w1, w2, w3}) /\ Len(Prefix(ws, 1)) = 1
    BY <1>1, <1>6 DEF Prefix
  <2>2. Prefix(ws, 1)[1] = w1
    BY <1>1, <1>6 DEF Prefix
  <2> QED
    BY <2>1, <2>2
<1>9. Prefix(ws, 2) = <<w1, w2>>
  <2>1. Prefix(ws, 2) \in Seq({w1, w2, w3}) /\ Len(Prefix(ws, 2)) = 2
    BY <1>1, <1>6 DEF Prefix
  <2>2. Prefix(ws, 2)[1] = w1 /\ Prefix(ws, 2)[2] = w2
    BY <1>1, <1>6 DEF Prefix
  <2> QED
    BY <2>1, <2>2
<1>10. /\ Written(L, ws) = After(After(After(L, w1), w2), w3)
       /\ Written(T, ws) = After(After(After(T, w1), w2), w3)
  BY <1>1, <1>4, <1>5
<1>11. /\ GoodWave(ws[1], Written(L, Prefix(ws, 0)), Written(T, Prefix(ws, 0)))
       /\ GoodWave(ws[2], Written(L, Prefix(ws, 1)), Written(T, Prefix(ws, 1)))
       /\ GoodWave(ws[3], Written(L, Prefix(ws, 2)), Written(T, Prefix(ws, 2)))
  BY <1>2, <1>3, <1>4, <1>6, <1>7, <1>8, <1>9
<1> HIDE DEF ws
<1>12. GoodWaves(ws, L, T)
  <2>1. DOMAIN ws = {1, 2, 3} /\ 1 - 1 = 0 /\ 2 - 1 = 1 /\ 3 - 1 = 2
    BY <1>6 DEF ws
  <2> QED
    BY <1>11, <2>1 DEF GoodWaves
<1> QED
  BY <1>1, <1>10, <1>12 DEF ws

\* Short sequences put together.
LEMMA Cat ==
  ASSUME NEW a, NEW b, NEW c
  PROVE  /\ <<a, b>> \o <<c>> = <<a, b, c>> /\ <<a>> \o <<b, c>> = <<a, b, c>>
         /\ <<a, b>> \o <<>> = <<a, b>> /\ <<>> \o <<a, b>> = <<a, b>>
         /\ <<a>> \o <<b>> = <<a, b>>
<1>1. <<a, b>> \o <<c>> = <<a, b, c>>
  <2> DEFINE s == <<a, b>> \o <<c>>
  <2>1. s \in Seq({a, b, c}) /\ Len(s) = 3 /\ s[1] = a /\ s[2] = b /\ s[3] = c
    OBVIOUS
  <2> DEFINE u == <<a, b, c>>
  <2>2. u \in Seq({a, b, c}) /\ Len(u) = 3 /\ u[1] = a /\ u[2] = b /\ u[3] = c
    OBVIOUS
  <2> HIDE DEF s, u
  <2>3. \A i \in 1 .. 3 : i = 1 \/ i = 2 \/ i = 3
    OBVIOUS
  <2>4. s = u
    BY <2>1, <2>2, <2>3
  <2> QED
    BY <2>4 DEF s, u
<1>2. <<a>> \o <<b, c>> = <<a, b, c>>
  <2> DEFINE s == <<a>> \o <<b, c>>
  <2>1. s \in Seq({a, b, c}) /\ Len(s) = 3 /\ s[1] = a /\ s[2] = b /\ s[3] = c
    OBVIOUS
  <2> DEFINE u == <<a, b, c>>
  <2>2. u \in Seq({a, b, c}) /\ Len(u) = 3 /\ u[1] = a /\ u[2] = b /\ u[3] = c
    OBVIOUS
  <2> HIDE DEF s, u
  <2>3. \A i \in 1 .. 3 : i = 1 \/ i = 2 \/ i = 3
    OBVIOUS
  <2>4. s = u
    BY <2>1, <2>2, <2>3
  <2> QED
    BY <2>4 DEF s, u
<1>3. <<a, b>> \o <<>> = <<a, b>>
  OBVIOUS
<1>4. <<>> \o <<a, b>> = <<a, b>>
  OBVIOUS
<1>5. <<a>> \o <<b>> = <<a, b>>
  <2> DEFINE s == <<a>> \o <<b>>
  <2>1. s \in Seq({a, b}) /\ Len(s) = 2 /\ s[1] = a /\ s[2] = b
    OBVIOUS
  <2> DEFINE u == <<a, b>>
  <2>2. u \in Seq({a, b}) /\ Len(u) = 2 /\ u[1] = a /\ u[2] = b
    OBVIOUS
  <2> HIDE DEF s, u
  <2>3. \A i \in 1 .. 2 : i = 1 \/ i = 2
    OBVIOUS
  <2>4. s = u
    BY <2>1, <2>2, <2>3
  <2> QED
    BY <2>4 DEF s, u
<1> QED
  BY <1>1, <1>2, <1>3, <1>4, <1>5

\* A block with good waves, completed or torn.
LEMMA BlockOK ==
  ASSUME NEW S, NEW waves \in Seq(S), MailOK(ledger, tables), GoodWaves(waves, ledger, tables),
         ReplaysOK(replays, ledger), Record(waves) \/ (May("torn_write") /\ RecordTorn(waves))
  PROVE  MailStep
BY RecordOK, TornOK DEF MailStep

-----------------------------------------------------------------------------
(* What the steps of one call do to the others *)

\* A message in the tables is the one in the ledger, and stays it.
LEMMA RowKept ==
  ASSUME NEW L, NEW T, NEW L2, NEW T2, MailOK(L, T), MailOK(L2, T2), Kept(L, T, L2, T2),
         NEW m \in Messages
  PROVE  /\ L[m] # NoMail => SameMail(L2[m], L[m])
         /\ T[m] # NoMail => SameMail(T[m], L[m]) /\ L[m] # NoMail /\ SameMail(T2[m], T[m])
         /\ T[m].kind # "none" => T[m] # NoMail
         /\ L[m].kind # "none" => L[m] # NoMail
         /\ Taken(T[m]) => Taken(T2[m])
<1>1. RowOK(L[m], T[m]) /\ RowOK(L2[m], T2[m])
  BY DEF MailOK
<1>2. T[m] # NoMail => SameMail(T[m], L[m]) /\ L[m] # NoMail
  BY <1>1 DEF RowOK, SameMail, MailRow, NoMail
<1>3. T[m] # NoMail => SameMail(T2[m], L2[m]) /\ SameMail(L2[m], L[m])
  BY <1>1, <1>2 DEF RowOK, Kept
<1>4. T[m] # NoMail => SameMail(T2[m], T[m])
  BY <1>2, <1>3 DEF SameMail
<1> QED
  BY <1>2, <1>4 DEF Kept, NoMail

\* A run stays that of its task.
LEMMA RunKept ==
  ASSUME NEW L, NEW T, NEW L2, NEW T2, MailOK(L, T), MailOK(L2, T2), Kept(L, T, L2, T2),
         NEW run, RunOK(run, L, T)
  PROVE  RunOK(run, L2, T2)
<1>1. SameMail(L2[run.task], L[run.task]) /\ (~ May("torn_rebuild") => Taken(T2[run.task]))
  BY RowKept DEF RunOK
<1> QED
  BY <1>1 DEF RunOK, SameMail

\* A call is not disturbed if what it holds is left alone and is not run.
LEMMA CallKept ==
  ASSUME NEW L, NEW T, NEW R, NEW L2, NEW T2, NEW R2,
         MailOK(L, T), MailOK(L2, T2), Kept(L, T, L2, T2),
         NEW call \in Call, CallOK(call, L, T, R),
         \A m \in Held(call, T) : T2[m] = T[m] /\ L2[m] = L[m],
         \A m \in Unrun(call) : NotRun(m, R2)
  PROVE  CallOK(call, L2, T2, R2) /\ Held(call, T2) = Held(call, T)
<1>0. /\ call.at \in {"next", "spawning", "working"} /\ call.own \in Messages \union {0}
      /\ call.batch \subseteq Messages /\ call.reports \subseteq Messages
  BY DEF Call
<1>1. \A m : IsTask(m, T) => IsTask(m, T2) /\ T2[m].to = T[m].to /\ SameMail(L2[m], L[m])
  BY RowKept DEF IsTask, SameMail
<1>2. call.at # "next" => IsTask(call.task, T2) /\ T2[call.task].to = T[call.task].to
  BY <1>1 DEF CallOK
<1>3. Held(call, T2) = Held(call, T)
  BY <1>2 DEF Held, Working
<1>4. \A m \in Held(call, T2) : IsTask(m, T2) /\ T2[m] = L2[m] /\ T2[m].status = "leased"
  BY <1>1, <1>3 DEF CallOK
<1>5. \A m \in call.batch : T2[m] = T[m]
  BY DEF Held
<1>6. call.own # 0 => IsTask(call.own, T2) /\ L2[call.own].revision = call.by
  BY <1>1 DEF CallOK, SameMail
<1>7. ASSUME NEW m \in call.reports PROVE AnswersTurn(m, call.by, L2, T2)
  <2>1. AnswersTurn(m, call.by, L, T)
    BY DEF CallOK
  <2>2. T2[m].kind = T[m].kind /\ L2[m].revision = L[m].revision /\ L2[m].parent = L[m].parent
    BY <1>0, <2>1, RowKept DEF AnswersTurn, SameMail
  <2>3. SameMail(L2[L[m].parent], L[L[m].parent])
    BY <2>1, RowKept DEF AnswersTurn
  <2> QED
    BY <2>1, <2>2, <2>3 DEF AnswersTurn, SameMail
<1> HIDE DEF Held, IsTask, AnswersTurn
<1>8. CallOK(call, L2, T2, R2)
  <2> USE <1>2, <1>4, <1>5, <1>6, <1>7
  <2> QED
    BY DEF CallOK
<1> QED
  BY <1>3, <1>8

\* The messages a step may write: new ones, queued ones, reports, and the tasks
\* its call has in hand.
Mine(c, m) == calls[c] # NoCall /\ m \in InHand(calls[c])

Writable(c, m) ==
  \/ ledger[m] = NoMail
  \/ tables[m].status = "queued"
  \/ tables[m].kind = "report"
  \/ Mine(c, m)

\* The tasks it may take in hand, or run.
Takeable(c, m) ==
  \/ ledger[m] = NoMail
  \/ tables[m].status = "queued" /\ Mode[tables[m].to] # "worker"
  \/ Mine(c, m)

\* Nobody else holds what a step may write.
LEMMA HeldApart ==
  ASSUME MailOK(ledger, tables), CallsOK(calls, ledger, tables, runs),
         calls \in [Calls -> Call \union {NoCall}],
         NEW c \in Calls, NEW d \in Calls, c # d, calls[d] # NoCall
  PROVE  /\ \A m \in Held(calls[d], tables) : ~ Writable(c, m)
         /\ \A m \in InHand(calls[d]) : ~ Takeable(c, m)
         /\ Unrun(calls[d]) \subseteq Held(calls[d], tables)
         /\ Held(calls[d], tables) \subseteq InHand(calls[d])
         /\ InHand(calls[d]) \subseteq Messages
<1> DEFINE call == calls[d]
<1>1. CallOK(call, ledger, tables, runs) /\ call \in Call
  BY DEF CallsOK
<1>2. Held(call, tables) \subseteq InHand(call) /\ Unrun(call) \subseteq Held(call, tables)
  BY <1>1 DEF Held, InHand, Unrun, Working, CallOK
<1>3. \A l \in Held(call, tables) : IsTask(l, tables) /\ tables[l].status = "leased"
  BY <1>1 DEF CallOK
<1>4. \A l \in InHand(call) : IsTask(l, tables)
  BY <1>1, <1>3 DEF CallOK, Held, InHand
<1>5. \A l \in InHand(call) : l \in Held(call, tables) \/ Mode[tables[l].to] = "worker"
  BY DEF Held, InHand, Working
<1>6. \A l \in InHand(call) : tables[l] # NoMail /\ ledger[l] # NoMail
  BY <1>4, RowKept, KeptSame DEF IsTask
<1>7. \A m \in InHand(call) : ~ Mine(c, m)
  BY DEF CallsOK, Mine
<1> HIDE DEF call
<1> QED
  <2>1. \A m \in Held(call, tables) : ~ Writable(c, m)
    BY <1>2, <1>3, <1>6, <1>7 DEF Writable, IsTask
  <2>2. \A m \in InHand(call) : ~ Takeable(c, m)
    BY <1>3, <1>5, <1>6, <1>7 DEF Takeable
  <2>3. InHand(call) \subseteq Messages
    BY <1>4 DEF IsTask
  <2> QED
    BY <2>1, <2>2, <2>3, <1>2 DEF call

\* A step of one call, which goes on as new, disturbs no other.
LEMMA OthersOK ==
  ASSUME MailOK(ledger, tables), MailStep, CallsOK(calls, ledger, tables, runs),
         calls \in [Calls -> Call \union {NoCall}],
         NEW c \in Calls, NEW new, calls' = [calls EXCEPT ![c] = new],
         \A m \in Messages : Writable(c, m) \/ (tables'[m] = tables[m] /\ ledger'[m] = ledger[m]),
         \A i \in DOMAIN runs' : \/ \E j \in DOMAIN runs : runs[j].task = runs'[i].task
                                 \/ runs'[i].task \in Messages /\ Takeable(c, runs'[i].task),
         new # NoCall =>
           /\ CallOK(new, ledger', tables', runs')
           /\ InHand(new) \subseteq {m \in Messages : Takeable(c, m)}
  PROVE  CallsOK(calls', ledger', tables', runs')
<1>1. ASSUME NEW d \in Calls, d # c, calls[d] # NoCall
      PROVE  CallOK(calls[d], ledger', tables', runs')
  <2>1. CallOK(calls[d], ledger, tables, runs) /\ calls[d] \in Call
    BY <1>1 DEF CallsOK
  <2>2. Held(calls[d], tables) \subseteq Messages
    BY <1>1, HeldApart
  <2>3. \A m \in Held(calls[d], tables) : tables'[m] = tables[m] /\ ledger'[m] = ledger[m]
    BY <1>1, <2>2, HeldApart
  <2>4. \A m \in Unrun(calls[d]) : NotRun(m, runs')
    <3> SUFFICES ASSUME ~ May("torn_rebuild"),
                        NEW m \in Unrun(calls[d]), NEW i \in DOMAIN runs', runs'[i].task = m
                 PROVE  FALSE
      BY DEF NotRun
    <3>1. \A j \in DOMAIN runs : runs[j].task # m
      BY <2>1 DEF CallOK, NotRun
    <3>2. m \in InHand(calls[d]) /\ m \in Messages
      BY <1>1, <2>2, HeldApart
    <3>3. ~ Takeable(c, m)
      BY <1>1, <3>2, HeldApart
    <3> QED
      BY <3>1, <3>3
  <2>5. MailOK(ledger', tables') /\ Kept(ledger, tables, ledger', tables')
    BY DEF MailStep
  <2> QED
    BY <2>1, <2>3, <2>4, <2>5, CallKept
<1>2. \A d \in Calls : calls'[d] = IF d = c THEN new ELSE calls[d]
  OBVIOUS
<1>3. \A d \in Calls : calls'[d] # NoCall => CallOK(calls'[d], ledger', tables', runs')
  BY <1>1, <1>2
<1>4. ASSUME NEW d \in Calls, d # c, calls[d] # NoCall, new # NoCall
      PROVE  InHand(new) \intersect InHand(calls[d]) = {}
  BY <1>4, HeldApart
<1>5. ASSUME NEW d \in Calls, NEW e \in Calls, d # e, calls'[d] # NoCall, calls'[e] # NoCall
      PROVE  InHand(calls'[d]) \intersect InHand(calls'[e]) = {}
  <2>1. CASE d = c
    BY <1>2, <1>4, <1>5, <2>1
  <2>2. CASE e = c
    BY <1>2, <1>4, <1>5, <2>2
  <2>3. CASE d # c /\ e # c
    BY <1>2, <1>5, <2>3 DEF CallsOK
  <2> QED
    BY <2>1, <2>2, <2>3
<1> QED
  BY <1>3, <1>5 DEF CallsOK

\* When all calls have died nothing is claimed of any.
LEMMA NobodyOK ==
  ASSUME calls' = [d \in Calls |-> NoCall]
  PROVE  CallsOK(calls', ledger', tables', runs')
BY DEF CallsOK

-----------------------------------------------------------------------------
(* The events *)

\* A wave of one event.
LEMMA Single ==
  ASSUME NEW m \in Messages, NEW row, NEW rows
  PROVE  /\ DOMAIN (Event(m, row)) = {m} /\ (Event(m, row))[m] = row
         /\ \A l \in Messages : After(rows, Event(m, row))[l] = IF l = m THEN row ELSE rows[l]
         /\ After(rows, Event(m, row)) = [l \in Messages |-> IF l = m THEN row ELSE rows[l]]
BY DEF After, Event

\* A good wave, whole.
LEMMA WholeWave ==
  ASSUME NEW L, NEW T, NEW w, MailOK(L, T), GoodWave(w, L, T)
  PROVE  MailOK(After(L, w), After(T, w)) /\ Kept(L, T, After(L, w), After(T, w))
<1> DEFINE D == DOMAIN w
<1>1. After(L, Restrict(w, D)) = After(L, w) /\ After(T, Restrict(w, D)) = After(T, w)
  BY DEF After, Restrict
<1> QED
  BY <1>1, WaveOK, D \subseteq D

\* An agent is a helper; a helper has a mailbox, which is not the desk.
LEMMA HelpersOK ==
  /\ Desk \notin Helpers /\ Desk \in Mailboxes /\ Helpers \subseteq Mailboxes
  /\ Agents = {h \in Helpers : Mode[h] # "worker"}
  /\ \A h \in Helpers : Mode[h] \in {"worker", "bound", "burst"}
BY SubAgentRunsAssumption DEF Helpers, Agents

\* The row of a delivery that moves on.
Move(row, s, o) == [row EXCEPT !.status = s, !.owner = o]

\* A delivery is leased, consumed or goes stale.
LEMMA MoveOK ==
  ASSUME NEW L, NEW T, MailOK(L, T), NEW m \in Messages, T[m].kind # "none",
         NEW s \in {"leased", "consumed", "stale"}, NEW o \in 0 .. MaxRevision,
         \/ T[m].status \in {"none", "queued", "leased"}
         \/ T[m].status = "blocked" /\ s \in {"leased", "stale"}
  PROVE  /\ GoodWrite(L[m], T[m], Move(T[m], s, o)) /\ L[Move(T[m], s, o).thread] # NoMail
         /\ Move(T[m], s, o).status = s /\ Move(T[m], s, o).owner = o
         /\ SameMail(Move(T[m], s, o), T[m])
<1> DEFINE r == Move(T[m], s, o)
<1>1. T[m] \in MailRow /\ RowOK(L[m], T[m]) /\ T[m] # NoMail
  BY DEF MailOK, NoMail
<1>2. r \in MailRow /\ SameMail(r, T[m]) /\ r.status = s /\ r.owner = o
  BY <1>1 DEF MailRow, SameMail, Move
<1>3. SameMail(T[m], L[m]) /\ L[m] # NoMail
  BY <1>1, RowKept, KeptSame
<1>4. L[r.thread] # NoMail
  BY <1>2, <1>3 DEF MailOK, SameMail
<1> HIDE DEF r
<1>5. GoodWrite(L[m], T[m], r)
  <2>1. r.status \in {"leased", "consumed", "stale"} /\ Taken(r)
    BY <1>2 DEF Taken
  <2>2. (r.kind = "task" => r.to \in Helpers) /\ (r.kind = "report" => r.to = Desk)
    BY <1>1, <1>2, <1>3 DEF RowOK, SameMail
  <2> QED
    BY <1>1, <1>2, <2>1, <2>2 DEF GoodWrite
<1> QED
  BY <1>2, <1>4, <1>5 DEF r

\* Before it is delivered, and as a wave, and with both waves written.
Coming(m, row) == Event(m, [row EXCEPT !.status = "none"])
Submitted(rows, m, row) == After(rows, Event(m, row))

\* A message is submitted: its row comes in, and then its delivery.
LEMMA SubmitOK ==
  ASSUME NEW L, NEW T, MailOK(L, T), NEW m \in Messages, L[m] = NoMail,
         NEW row \in MailRow, row.status = "queued",
         \/ row.kind = "task" /\ row.to \in Helpers
         \/ row.kind = "report" /\ row.to = Desk,
         row.thread = m \/ L[row.thread] # NoMail
  PROVE  /\ Submit(m, row) = <<Coming(m, row), Event(m, row)>>
         /\ GoodWave(Coming(m, row), L, T)
         /\ GoodWave(Event(m, row), After(L, Coming(m, row)), After(T, Coming(m, row)))
         /\ MailOK(Submitted(L, m, row), Submitted(T, m, row))
         /\ After(After(L, Coming(m, row)), Event(m, row)) = Submitted(L, m, row)
         /\ After(After(T, Coming(m, row)), Event(m, row)) = Submitted(T, m, row)
         /\ Submitted(L, m, row)[m] = row /\ Submitted(T, m, row)[m] = row
         /\ \A l \in Messages \ {m} : /\ Submitted(L, m, row)[l] = L[l]
                                    /\ Submitted(T, m, row)[l] = T[l]
<1> DEFINE r1 == [row EXCEPT !.status = "none"]
           w1 == Event(m, r1)
           w2 == Event(m, row)
           L1 == After(L, w1)
           T1 == After(T, w1)
<1>0. DOMAIN w1 = {m} /\ w1[m] = r1 /\ DOMAIN w2 = {m} /\ w2[m] = row
  BY DEF Event
<1>1. T[m] = NoMail
  BY DEF MailOK, RowOK, SameMail, MailRow, NoMail
<1>2. r1 \in MailRow /\ r1.status = "none" /\ SameMail(r1, row)
  BY DEF MailRow, SameMail
<1>3. GoodWrite(L[m], T[m], r1)
  <2>1. (r1.kind = "task" => r1.to \in Helpers) /\ (r1.kind = "report" => r1.to = Desk)
    BY <1>2 DEF SameMail
  <2>2. ~ Taken(NoMail) /\ NoMail.status = "none"
    BY DEF Taken, NoMail
  <2> HIDE DEF r1
  <2> QED
    BY <1>1, <1>2, <2>1, <2>2 DEF GoodWrite
<1>4. GoodWave(w1, L, T)
  <2>1. r1.thread = m \/ L[r1.thread] # NoMail
    BY <1>2 DEF SameMail
  <2> HIDE DEF r1, w1
  <2> QED
    BY <1>0, <1>3, <2>1 DEF GoodWave
<1>5. MailOK(L1, T1) /\ Kept(L, T, L1, T1)
  BY <1>4, WholeWave
<1>6. L1[m] = r1 /\ T1[m] = r1 /\ \A l \in Messages \ {m} : L1[l] = L[l] /\ T1[l] = T[l]
  BY DEF After, Event
<1>7. GoodWrite(L1[m], T1[m], row)
  <2>1. r1 # NoMail /\ SameMail(row, r1) /\ ~ Taken(r1)
    BY <1>2 DEF MailRow, NoMail, SameMail, Taken
  <2>2. (row.kind = "task" => row.to \in Helpers) /\ (row.kind = "report" => row.to = Desk)
    OBVIOUS
  <2> HIDE DEF r1, L1, T1
  <2> QED
    BY <1>2, <1>6, <2>1, <2>2 DEF GoodWrite
<1>8. GoodWave(w2, L1, T1)
  <2>1. row.thread = m \/ L1[row.thread] # NoMail
    BY <1>5 DEF Kept, MailRow
  <2> HIDE DEF L1, T1, r1, w2
  <2> QED
    BY <1>0, <1>7, <2>1 DEF GoodWave
<1>9. MailOK(After(L1, w2), After(T1, w2))
  <2> HIDE DEF L1, T1, w2
  <2> QED
    BY <1>5, <1>8, WholeWave
<1>10. After(L1, w2) = After(L, w2) /\ After(T1, w2) = After(T, w2)
  BY DEF After, Event
<1>11. Submit(m, row) = <<w1, w2>> /\ Coming(m, row) = w1
  BY DEF Submit, Coming
<1>12. /\ After(L, w2)[m] = row /\ After(T, w2)[m] = row
       /\ \A l \in Messages \ {m} : After(L, w2)[l] = L[l] /\ After(T, w2)[l] = T[l]
  BY DEF After, Event
<1> HIDE DEF L1, T1, w1
<1>13. L1 = After(L, Coming(m, row)) /\ T1 = After(T, Coming(m, row))
  BY <1>11 DEF L1, T1
<1> QED
  BY <1>4, <1>8, <1>9, <1>10, <1>11, <1>12, <1>13 DEF Submitted

-----------------------------------------------------------------------------
(* Steps that keep the invariant *)

\* What a step has to show of the mail, the calls and the runs.
Step ==
  /\ MailStep
  /\ CallsOK(calls', ledger', tables', runs')
  /\ RunsOK(ledger', tables', runs')
  /\ calls' \in [Calls -> Call \union {NoCall}]
  /\ runs' \in Seq(Run)

\* What the step of a call, or of the mail alone, keeps is the inductive invariant.
LEMMA StepOK ==
  ASSUME IInv, Step, UNCHANGED scenario, revision' \in 1 .. MaxRevision,
         turns' \in 0 .. scenario.maxTurns,
         used' \subseteq [turn : 1 .. MaxRevision, room : 1 .. MaxRevision, report : Messages]
  PROVE  IInv'
<1>1. MailOK(ledger, tables)'
  BY DEF Step, MailStep, MailOK, RowOK, May
<1>2. CallsOK(calls, ledger, tables, runs)' /\ RunsOK(ledger, tables, runs)'
  BY DEF Step, CallsOK, CallOK, RunsOK, RunOK, NotRun, May
<1>3. ReplaysOK(replays, ledger)'
  BY DEF Step, MailStep, ReplaysOK, MailOK, RowOK, May
<1>4. replays' \subseteq [Messages -> MailRow \union {NoMail}]
  BY DEF Step, MailStep, ReplaysOK, MailOK
<1>5. TypeOK'
  BY <1>1, <1>4 DEF TypeOK, MailTypeOK, MailOK, Step, IInv
<1> QED
  BY <1>1, <1>2, <1>3, <1>5 DEF IInv

\* Runs keep their tasks, whatever becomes of them.
LEMMA RunsKept ==
  ASSUME MailOK(ledger, tables), MailStep, RunsOK(ledger, tables, runs), runs \in Seq(Run),
         DOMAIN runs' = DOMAIN runs,
         \A i \in DOMAIN runs : /\ runs'[i].task = runs[i].task
                               /\ runs'[i].thread = runs[i].thread
                               /\ runs'[i].target = runs[i].target
  PROVE  RunsOK(ledger', tables', runs')
<1>1. ASSUME NEW i \in DOMAIN runs PROVE RunOK(runs'[i], ledger', tables')
  <2>1. RunOK(runs[i], ledger', tables')
    BY RunKept DEF RunsOK, MailStep
  <2> QED
    BY <2>1 DEF RunOK
<1> QED
  BY <1>1 DEF RunsOK

\* A run is inserted for a task that has none.
LEMMA RunsGrow ==
  ASSUME MailOK(ledger, tables), MailStep, RunsOK(ledger, tables, runs), runs \in Seq(Run),
         NEW run, runs' = Append(runs, run), RunOK(run, ledger', tables'),
         NotRun(run.task, runs)
  PROVE  RunsOK(ledger', tables', runs')
<1> DEFINE n == Len(runs) + 1
<1>1. /\ DOMAIN runs' = DOMAIN runs \union {n} /\ n \notin DOMAIN runs /\ runs'[n] = run
      /\ \A i \in DOMAIN runs : runs'[i] = runs[i]
  OBVIOUS
<1>2. \A i \in DOMAIN runs : RunOK(runs[i], ledger', tables')
  BY RunKept DEF RunsOK, MailStep
<1> HIDE DEF n
<1>3. ~ May("torn_rebuild") =>
        \A i, j \in DOMAIN runs' : runs'[i].task = runs'[j].task => i = j
  BY <1>1 DEF RunsOK, NotRun
<1> QED
  BY <1>1, <1>2, <1>3 DEF RunsOK

\* The process dies in the middle of good waves.
LEMMA TornStep ==
  ASSUME IInv, NEW S, NEW waves \in Seq(S), GoodWaves(waves, ledger, tables),
         NEW newRuns, Torn(waves, newRuns),
         newRuns \in Seq(Run), DOMAIN newRuns = DOMAIN runs,
         \A i \in DOMAIN runs : /\ newRuns[i].task = runs[i].task
                               /\ newRuns[i].thread = runs[i].thread
                               /\ newRuns[i].target = runs[i].target
  PROVE  Step
<1> USE DEF IInv, TypeOK
<1>1. MailStep
  BY BlockOK DEF Torn
<1>2. runs' = newRuns /\ calls' = [d \in Calls |-> NoCall]
  BY DEF Torn
<1>3. RunsOK(ledger', tables', runs')
  BY <1>1, <1>2, RunsKept
<1> QED
  BY <1>1, <1>2, <1>3, NobodyOK DEF Step

\* What dispatching a task finds before it: the waves that lease it, if any,
\* the task and the call that takes it, and what the call has besides.
Leases(c, call, waves, t, L2, T2) ==
  /\ L2 = Written(ledger, waves) /\ T2 = Written(tables, waves)
  /\ GoodWaves(waves, ledger, tables)
  /\ \A m \in Messages : Writable(c, m) \/ (T2[m] = tables[m] /\ L2[m] = ledger[m])
  /\ t \in Messages /\ Takeable(c, t) /\ t \notin call.batch
  /\ T2[t] = L2[t] /\ T2[t].status = "leased" /\ T2[t].kind = "task" /\ T2[t].to \in Agents
  /\ NotRun(t, runs)
  /\ call \in Call /\ call.at = "next" /\ CallOK(call, L2, T2, runs)
  /\ call.by # 0 => call.batch = {}
  /\ call.batch \subseteq {m \in Messages : Takeable(c, m)}

\* A call leases a task, and refuses it, answers it or begins to work on it.
LEMMA ProcessOK ==
  ASSUME IInv, NEW c \in Calls, NEW call, NEW S, NEW waves \in Seq(S), NEW t, NEW row,
         NEW L2, NEW T2, Leases(c, call, waves, t, L2, T2),
         row.to = T2[t].to, row.thread = T2[t].thread,
         Process(c, call, waves, t, row)
  PROVE  Step
<1> USE DEF IInv, TypeOK
<1>0. GoodWaves(waves, ledger, tables)
  BY DEF Leases
<1>1. CASE Torn(waves, runs)
  BY <1>0, <1>1, TornStep
<1>2. ASSUME NEW newRuns, NEW new,
             Record(waves), runs' = newRuns, Continue(c, new),
             \/ newRuns = runs
             \/ newRuns = Accepted(t, row),
             \/ new = NoCall
             \/ /\ new \in Call /\ CallOK(new, L2, T2, newRuns)
                /\ InHand(new) \subseteq call.batch \union {t}
      PROVE  Step
  <2>1. ledger' = L2 /\ tables' = T2
    BY <1>2 DEF Record, Appended, Leases
  <2>2. MailStep
    BY <1>0, <1>2, BlockOK
  <2>3. t \in Messages /\ NotRun(t, runs)
    BY DEF Leases
  <2>4. runs' \in Seq(Run) /\ RunsOK(ledger', tables', runs')
    <3>1. CASE newRuns = runs
      BY <1>2, <2>2, <3>1, RunsKept
    <3>2. CASE newRuns = Accepted(t, row)
      <4> DEFINE run == [task |-> t, thread |-> row.thread, target |-> row.to, status |-> "running"]
      <4>1. RunOK(run, ledger', tables')
        BY <2>1, <2>3 DEF Leases, RunOK, Taken
      <4>2. T2[t] \in MailRow
        BY <2>1, <2>2, <2>3 DEF MailStep, MailOK, Leases, NoMail
      <4>3. run \in Run
        BY <4>2, <2>3 DEF Run, Leases, MailRow
      <4>4. runs' = Append(runs, run) /\ run.task = t
        BY <1>2, <3>2 DEF Accepted
      <4> HIDE DEF run
      <4> QED
        BY <2>2, <2>3, <4>1, <4>3, <4>4, RunsGrow
    <3> QED
      BY <1>2, <3>1, <3>2
  <2>5. \A i \in DOMAIN runs' : \/ \E j \in DOMAIN runs : runs[j].task = runs'[i].task
                                \/ runs'[i].task \in Messages /\ Takeable(c, runs'[i].task)
    <3>1. CASE newRuns = runs
      BY <1>2, <3>1
    <3>2. CASE newRuns = Accepted(t, row)
      <4>1. \A i \in DOMAIN runs' : (i \in DOMAIN runs /\ runs'[i] = runs[i]) \/ runs'[i].task = t
        BY <1>2, <3>2 DEF Accepted
      <4>2. t \in Messages /\ Takeable(c, t)
        BY DEF Leases
      <4> QED
        BY <4>1, <4>2
    <3> QED
      BY <1>2, <3>1, <3>2
  <2>6. new # NoCall =>
          /\ CallOK(new, ledger', tables', runs')
          /\ InHand(new) \subseteq {m \in Messages : Takeable(c, m)}
    BY <1>2, <2>1 DEF Leases
  <2>7. \A m \in Messages : Writable(c, m) \/ (tables'[m] = tables[m] /\ ledger'[m] = ledger[m])
    BY <2>1 DEF Leases
  <2>8. calls' = [calls EXCEPT ![c] = new] /\ calls' \in [Calls -> Call \union {NoCall}]
    BY <1>2 DEF Continue
  <2>9. CallsOK(calls', ledger', tables', runs')
    BY <2>2, <2>5, <2>6, <2>7, <2>8, OthersOK
  <2> QED
    BY <2>2, <2>4, <2>8, <2>9 DEF Step
<1>3. CASE Record(waves) /\ runs' = runs /\ Continue(c, Thrown(call))
  <2>1. call = [call EXCEPT !.at = "next"]
    BY DEF Leases, Call
  <2>2. Thrown(call) = NoCall \/ Thrown(call) = call
    BY <2>1 DEF Thrown
  <2>3. InHand(call) \subseteq call.batch
    BY DEF Leases, InHand
  <2>4. call \in Call /\ CallOK(call, L2, T2, runs)
    BY DEF Leases
  <2>5. CASE Thrown(call) = NoCall
    <3>1. Record(waves) /\ runs' = runs /\ Continue(c, NoCall)
      BY <1>3, <2>5
    <3> QED
      BY <1>2, <3>1
  <2>6. CASE Thrown(call) = call
    <3>1. Record(waves) /\ runs' = runs /\ Continue(c, call)
      BY <1>3, <2>6
    <3> QED
      BY <1>2, <2>3, <2>4, <3>1
  <2> QED
    BY <2>2, <2>5, <2>6
<1> DEFINE bound == [call EXCEPT !.task = t, !.at = "working"]
           burst == [call EXCEPT !.task = t, !.at = "spawning"]
<1>4. /\ bound \in Call /\ burst \in Call
      /\ InHand(bound) \subseteq call.batch \union {t} /\ InHand(burst) \subseteq call.batch \union {t}
  BY DEF Leases, Call, InHand
<1>5. /\ call.at = "next" /\ call \in Call /\ Mode[T2[t].to] # "worker" /\ IsTask(t, T2)
      /\ t \notin call.batch /\ (call.by # 0 => call.batch = {})
  BY DEF Leases, Agents, IsTask
<1>6. Held(call, T2) = call.batch /\ Unrun(call) = call.batch
  BY <1>5 DEF Held, Unrun, Working
<1>7. ASSUME Mode[T2[t].to] = "bound"
      PROVE  CallOK(bound, L2, T2, Accepted(t, row))
  <2>1. /\ bound.task = t /\ bound.at = "working" /\ bound.by = call.by /\ bound.batch = call.batch
        /\ bound.own = call.own /\ bound.reports = call.reports /\ bound.todo = call.todo
    BY <1>5 DEF Call
  <2>2. \A i \in DOMAIN Accepted(t, row) :
          \/ i \in DOMAIN runs /\ Accepted(t, row)[i] = runs[i]
          \/ Accepted(t, row)[i].task = t
    BY DEF Accepted
  <2>3. Held(bound, T2) = call.batch \union {t} /\ Unrun(bound) = call.batch
    BY <1>5, <2>1 DEF Held, Unrun, Working
  <2>4. CallOK(call, L2, T2, runs) /\ T2[t] = L2[t] /\ T2[t].status = "leased"
    BY DEF Leases
  <2> HIDE DEF bound
  <2> QED
    BY <1>5, <1>6, <1>7, <2>1, <2>2, <2>3, <2>4 DEF CallOK, NotRun
<1>8. ASSUME Mode[T2[t].to] = "burst"
      PROVE  CallOK(burst, L2, T2, runs)
  <2>1. /\ burst.task = t /\ burst.at = "spawning" /\ burst.by = call.by /\ burst.batch = call.batch
        /\ burst.own = call.own /\ burst.reports = call.reports /\ burst.todo = call.todo
    BY <1>5 DEF Call
  <2>2. Held(burst, T2) = call.batch \union {t} /\ Unrun(burst) = call.batch \union {t}
    BY <1>5, <2>1 DEF Held, Unrun, Working
  <2>3. /\ CallOK(call, L2, T2, runs) /\ T2[t] = L2[t] /\ T2[t].status = "leased"
        /\ NotRun(t, runs)
    BY DEF Leases
  <2> HIDE DEF burst
  <2> QED
    BY <1>5, <1>6, <1>8, <2>1, <2>2, <2>3 DEF CallOK
<1> HIDE DEF bound, burst
<1>9. \/ Record(waves) /\ runs' = runs /\ Continue(c, Thrown(call))
      \/ Mode[T2[t].to] = "bound" /\ Record(waves) /\ runs' = Accepted(t, row) /\ Continue(c, bound)
      \/ Mode[T2[t].to] = "burst" /\ Record(waves) /\ runs' = runs /\ Continue(c, burst)
      \/ Torn(waves, runs)
  BY DEF Process, Commit, bound, burst
<1> QED
  BY <1>1, <1>2, <1>3, <1>4, <1>7, <1>8, <1>9

\* A step that writes nothing and goes on as new, or not at all.
LEMMA QuietStep ==
  ASSUME IInv, NEW c \in Calls, NEW new, UNCHANGED <<mail, runs>>, Continue(c, new),
         \/ new = NoCall
         \/ /\ new \in Call /\ CallOK(new, ledger, tables, runs)
            /\ InHand(new) \subseteq {m \in Messages : Takeable(c, m)}
  PROVE  Step
<1> USE DEF IInv, TypeOK
<1>1. MailStep
  BY KeptSame DEF MailStep, mail
<1>2. ledger' = ledger /\ tables' = tables /\ runs' = runs
  BY DEF mail
<1>3. calls' = [calls EXCEPT ![c] = new] /\ calls' \in [Calls -> Call \union {NoCall}]
  BY DEF Continue
<1>4. CallsOK(calls', ledger', tables', runs')
  <2>1. \A i \in DOMAIN runs' : \E j \in DOMAIN runs : runs[j].task = runs'[i].task
    BY <1>2
  <2>2. new # NoCall =>
          /\ CallOK(new, ledger', tables', runs')
          /\ InHand(new) \subseteq {m \in Messages : Takeable(c, m)}
    BY <1>2
  <2> QED
    BY <1>1, <1>2, <1>3, <2>1, <2>2, OthersOK
<1> QED
  BY <1>1, <1>2, <1>3, <1>4 DEF Step

\* What good waves lead to.
LEMMA WavesOK ==
  ASSUME NEW S, NEW waves \in Seq(S), NEW L, NEW T, MailOK(L, T), GoodWaves(waves, L, T)
  PROVE  /\ MailOK(Written(L, waves), Written(T, waves))
         /\ Kept(L, T, Written(L, waves), Written(T, waves))
<1>1. Prefix(waves, Len(waves)) = waves
  BY DEF Prefix
<1> QED
  BY <1>1, PrefixOK, Len(waves) \in 0 .. Len(waves)

\* The deliveries of a helper's mailbox are of tasks.
LEMMA HelpersTasks ==
  ASSUME MailOK(ledger, tables), NEW h \in Helpers, NEW t \in Addressed(h)
  PROVE  t \in Messages /\ tables[t] \in MailRow /\ tables[t].kind = "task" /\ tables[t].to = h
<1>1. t \in Messages /\ tables[t].to = h
  BY DEF Addressed
<1>2. tables[t] # NoMail /\ tables[t] \in MailRow
  BY <1>1, HelpersOK, VirtualMailAssumption DEF MailOK, NoMail
<1>3. SameMail(tables[t], ledger[t]) /\ ledger[t] # NoMail
  BY <1>1, <1>2, RowKept, KeptSame
<1>4. tables[t].kind = "report" => tables[t].to = Desk
  BY <1>1, <1>3 DEF MailOK, RowOK, SameMail
<1>5. tables[t].kind \in {"task", "report"}
  BY <1>2 DEF MailRow
<1> QED
  BY <1>1, <1>2, <1>4, <1>5, HelpersOK

-----------------------------------------------------------------------------
(* A turn's delegation *)

\* The task, the delivery, its row and the waves of a delegation.
Delegation(target, m, by, task, t, row, waves) ==
  /\ task = Posted("task", target, m, 0, by)
  /\ t \in QueuedFor(target) \union {m}
  /\ row = IF t = m THEN task ELSE tables[t]
  /\ waves = Submit(m, task) \o Lease(t, row, 0)

\* The task is submitted, and a delivery of the same mailbox leased.
LEMMA DelegateWaves ==
  ASSUME IInv, NEW target \in Helpers, NEW m \in Messages, ledger[m] = NoMail,
         NEW by \in 1 .. MaxRevision,
         NEW task, NEW t, NEW row, NEW waves, Delegation(target, m, by, task, t, row, waves)
  PROVE  /\ \E S : waves \in Seq(S)
         /\ GoodWaves(waves, ledger, tables)
         /\ t \in Messages /\ row \in MailRow /\ row.kind = "task" /\ row.to = target /\ row.status = "queued"
         /\ Written(ledger, waves)[t] = Leased(row, 0) /\ Written(tables, waves)[t] = Leased(row, 0)
         /\ m # t => Written(ledger, waves)[m] = task /\ Written(tables, waves)[m] = task
         /\ \A l \in Messages \ {m, t} : /\ Written(ledger, waves)[l] = ledger[l]
                                       /\ Written(tables, waves)[l] = tables[l]
<1> USE DEF IInv, Delegation
<1>0. 0 \in 0 .. MaxRevision /\ target \in Mailboxes
  BY HelpersOK, VirtualMailAssumption
<1>1. /\ task \in MailRow /\ task.status = "queued" /\ task.kind = "task" /\ task.to = target
      /\ task.thread = m
  BY <1>0 DEF Posted, MailRow
<1> DEFINE L1 == Submitted(ledger, m, task)
           T1 == Submitted(tables, m, task)
           w1 == Coming(m, task)
           w2 == Event(m, task)
           r == Leased(row, 0)
           w3 == Event(t, r)
<1>2. /\ Submit(m, task) = <<w1, w2>>
      /\ GoodWave(w1, ledger, tables)
      /\ GoodWave(w2, After(ledger, w1), After(tables, w1))
      /\ MailOK(L1, T1)
      /\ After(After(ledger, w1), w2) = L1 /\ After(After(tables, w1), w2) = T1
      /\ L1[m] = task /\ T1[m] = task
      /\ \A l \in Messages \ {m} : L1[l] = ledger[l] /\ T1[l] = tables[l]
  BY <1>1, SubmitOK
<1>3. waves = <<w1, w2, w3>>
  <2>1. Lease(t, row, 0) = <<w3>>
    BY DEF Lease
  <2> HIDE DEF w1, w2, w3
  <2> QED
    BY <1>2, <2>1, Cat
<1>4. DOMAIN w3 = {t} /\ w3[t] = r
  BY DEF Event
<1>5. t \in Messages /\ row \in MailRow /\ row.kind = "task" /\ row.to = target /\ row.status = "queued"
  BY <1>1, HelpersTasks DEF QueuedFor
<1>6. T1[t] = row
  BY <1>2, <1>5
<1>7. r = Move(T1[t], "leased", 0)
  BY <1>6 DEF Leased, Move
<1> HIDE DEF L1, T1, w1, w2, w3, r
<1>8. 0 \in 0 .. MaxRevision
  BY VirtualMailAssumption
<1>9. GoodWrite(L1[t], T1[t], r) /\ L1[r.thread] # NoMail
  BY <1>2, <1>5, <1>6, <1>7, <1>8, MoveOK
<1>10. GoodWave(w3, L1, T1)
  BY <1>4, <1>5, <1>9 DEF GoodWave
<1>11. /\ Written(ledger, waves) = After(L1, w3) /\ Written(tables, waves) = After(T1, w3)
       /\ GoodWaves(waves, ledger, tables) /\ waves \in Seq({w1, w2, w3})
  <2>1. GoodWave(w3, After(After(ledger, w1), w2), After(After(tables, w1), w2))
    BY <1>2, <1>10
  <2>2. MailOK(ledger, tables)
    OBVIOUS
  <2> HIDE DEF IInv
  <2>3. /\ <<w1, w2, w3>> \in Seq({w1, w2, w3})
        /\ GoodWaves(<<w1, w2, w3>>, ledger, tables)
        /\ Written(ledger, <<w1, w2, w3>>) = After(After(After(ledger, w1), w2), w3)
        /\ Written(tables, <<w1, w2, w3>>) = After(After(After(tables, w1), w2), w3)
    BY <1>2, <2>1, <2>2, ThreeWaves
  <2> QED
    BY <1>2, <1>3, <2>3
<1>12. \A l \in Messages : /\ Written(ledger, waves)[l] = IF l = t THEN r ELSE L1[l]
                           /\ Written(tables, waves)[l] = IF l = t THEN r ELSE T1[l]
  BY <1>4, <1>11 DEF After
<1> QED
  BY <1>2, <1>5, <1>11, <1>12 DEF r

\* A turn hands a task to the plan's next helper.
LEMMA DelegateStep ==
  ASSUME IInv, NEW c \in Calls, Delegate(c)
  PROVE  Step
<1> USE DEF IInv, TypeOK
<1>1. /\ calls[c] # NoCall /\ calls[c] \in Call /\ calls[c].by \in 1 .. MaxRevision
      /\ calls[c].at = "next" /\ calls[c].todo # <<>> /\ calls[c].todo \in Seq(Helpers)
  BY DEF Delegate, ByTurn, At, Free, Call
<1>2. PICK m \in Messages :
        LET target == Head(calls[c].todo)
            task == Posted("task", target, m, 0, calls[c].by)
            call == [calls[c] EXCEPT !.todo = Tail(@), !.own = m]
        IN  /\ MayTask(m)
            /\ \E t \in QueuedFor(target) \union {m} :
                 LET row == IF t = m THEN task ELSE tables[t]
                     waves == Submit(m, task) \o Lease(t, row, 0)
                 IN  IF Mode[target] = "worker"
                     THEN Commit(waves, runs, c,
                            [call EXCEPT !.task = m, !.at = "working", !.batch = {m} \intersect {t}])
                     ELSE Process(c, call, waves, t, row)
  BY DEF Delegate
<1> DEFINE target == Head(calls[c].todo)
           task == Posted("task", target, m, 0, calls[c].by)
           call == [calls[c] EXCEPT !.todo = Tail(@), !.own = m]
<1>3. target \in Helpers /\ Tail(calls[c].todo) \in Seq(Helpers) /\ ledger[m] = NoMail
  BY <1>1, <1>2 DEF MayTask, NextMessage
<1>4. PICK t \in QueuedFor(target) \union {m} :
        LET row == IF t = m THEN task ELSE tables[t]
            waves == Submit(m, task) \o Lease(t, row, 0)
        IN  IF Mode[target] = "worker"
            THEN Commit(waves, runs, c,
                   [call EXCEPT !.task = m, !.at = "working", !.batch = {m} \intersect {t}])
            ELSE Process(c, call, waves, t, row)
  BY <1>2
<1> DEFINE row == IF t = m THEN task ELSE tables[t]
           waves == Submit(m, task) \o Lease(t, row, 0)
           L2 == Written(ledger, waves)
           T2 == Written(tables, waves)
<1>5. /\ calls[c].batch = {} /\ InHand(calls[c]) = {} /\ Held(calls[c], tables) = {} /\ Unrun(calls[c]) = {}
      /\ CallOK(calls[c], ledger, tables, runs)
  BY <1>1 DEF CallsOK, CallOK, InHand, Held, Unrun, Working
<1>6. /\ call \in Call /\ call.at = "next" /\ call.by = calls[c].by /\ call.batch = {}
      /\ call.own = m /\ call.reports = calls[c].reports
  BY <1>1, <1>3, <1>5 DEF Call
<1>0. calls[c].by \in 1 .. MaxRevision /\ m \in Messages /\ t \in QueuedFor(target) \union {m}
  BY <1>1
<1>7. /\ \E S : waves \in Seq(S)
      /\ GoodWaves(waves, ledger, tables)
      /\ t \in Messages /\ row \in MailRow /\ row.kind = "task" /\ row.to = target /\ row.status = "queued"
      /\ L2[t] = Leased(row, 0) /\ T2[t] = Leased(row, 0)
      /\ m # t => L2[m] = task /\ T2[m] = task
      /\ \A l \in Messages \ {m, t} : L2[l] = ledger[l] /\ T2[l] = tables[l]
  <2> DEFINE by == calls[c].by
             tk == task
             rw == row
             ws == waves
  <2>1. Delegation(target, m, by, tk, t, rw, ws)
    BY DEF Delegation
  <2>0. IInv
    OBVIOUS
  <2> HIDE DEF tk, rw, ws, by, target, IInv, TypeOK
  <2>2. /\ \E S : ws \in Seq(S)
        /\ GoodWaves(ws, ledger, tables)
        /\ t \in Messages /\ rw \in MailRow /\ rw.kind = "task" /\ rw.to = target /\ rw.status = "queued"
        /\ Written(ledger, ws)[t] = Leased(rw, 0) /\ Written(tables, ws)[t] = Leased(rw, 0)
        /\ m # t => Written(ledger, ws)[m] = tk /\ Written(tables, ws)[m] = tk
        /\ \A l \in Messages \ {m, t} : /\ Written(ledger, ws)[l] = ledger[l]
                                      /\ Written(tables, ws)[l] = tables[l]
    BY <1>0, <1>3, <2>0, <2>1, DelegateWaves DEF by
  <2> QED
    BY <2>2 DEF tk, rw, ws
<1> HIDE DEF waves, L2, T2
<1>8. MailOK(L2, T2) /\ Kept(ledger, tables, L2, T2)
  BY <1>7, WavesOK DEF L2, T2
<1>9. CallOK(calls[c], L2, T2, runs)
  BY <1>1, <1>5, <1>8, CallKept
<1>10. /\ Leased(row, 0).status = "leased" /\ Leased(row, 0).kind = "task" /\ Leased(row, 0).to = target
       /\ Leased(row, 0).revision = row.revision /\ Leased(row, 0).thread = row.thread
  BY <1>7 DEF Leased, MailRow
<1>11. task.kind = "task" /\ task.to = target /\ task.revision = calls[c].by
  BY DEF Posted
<1>12. IsTask(m, T2) /\ L2[m].revision = calls[c].by /\ T2[m].to = target
  BY <1>7, <1>10, <1>11 DEF IsTask
<1>13. CallOK(call, L2, T2, runs)
  <2>1. \A l \in call.reports : AnswersTurn(l, call.by, L2, T2)
    BY <1>6, <1>9 DEF CallOK
  <2>2. Held(call, T2) = {} /\ Unrun(call) = {}
    BY <1>6 DEF Held, Unrun, Working
  <2> HIDE DEF call
  <2> QED
    BY <1>1, <1>6, <1>12, <2>1, <2>2 DEF CallOK
<1>14. Takeable(c, m) /\ Writable(c, m) /\ Writable(c, t)
  BY <1>3, <1>7 DEF Takeable, Writable, QueuedFor
<1>15. \A l \in Messages : Writable(c, l) \/ (T2[l] = tables[l] /\ L2[l] = ledger[l])
  BY <1>7, <1>14
<1>16. CASE Mode[target] # "worker"
  <2>1. Takeable(c, t)
    <3>1. t # m => tables[t].status = "queued" /\ tables[t].to = target
      BY <1>7
    <3> QED
      BY <1>14, <1>16, <3>1 DEF Takeable
  <2>2. NotRun(t, runs)
    <3>1. t # m => ~ Taken(tables[t])
      BY <1>7 DEF Taken
    <3>2. ~ Taken(tables[m])
      BY <1>3 DEF MailOK, RowOK, Taken, NoMail
    <3> QED
      BY <3>1, <3>2 DEF RunsOK, RunOK, NotRun
  <2>3. Leases(c, call, waves, t, L2, T2)
    <3>1. L2 = Written(ledger, waves) /\ T2 = Written(tables, waves)
      BY DEF L2, T2
    <3>2. target \in Agents
      BY <1>3, <1>16, HelpersOK
    <3>3. T2[t] = L2[t] /\ T2[t].status = "leased" /\ T2[t].kind = "task" /\ T2[t].to \in Agents
      BY <1>7, <1>10, <3>2
    <3>4. t \notin call.batch /\ call.batch \subseteq {l \in Messages : Takeable(c, l)}
      BY <1>6
    <3> HIDE DEF call
    <3> QED
      BY <1>6, <1>7, <1>13, <1>15, <2>1, <2>2, <3>1, <3>3, <3>4 DEF Leases
  <2>4. Process(c, call, waves, t, row)
    BY <1>4, <1>16 DEF waves
  <2>5. row.to = T2[t].to /\ row.thread = T2[t].thread
    BY <1>7, <1>10
  <2> HIDE DEF call, row
  <2> QED
    BY <1>7, <2>3, <2>4, <2>5, ProcessOK
<1>17. CASE Mode[target] = "worker"
  <2> DEFINE new == [call EXCEPT !.task = m, !.at = "working", !.batch = {m} \intersect {t}]
  <2>1. Commit(waves, runs, c, new)
    BY <1>4, <1>17 DEF waves
  <2>2. CASE Torn(waves, runs)
    BY <1>7, <2>2, TornStep
  <2>3. CASE Record(waves) /\ runs' = runs /\ Continue(c, new)
    <3>1. ledger' = L2 /\ tables' = T2
      BY <2>3 DEF Record, Appended, L2, T2
    <3>2. MailStep
      BY <1>7, <2>3, BlockOK DEF IInv
    <3>3. /\ new \in Call /\ new.at = "working" /\ new.task = m /\ new.batch = {m} \intersect {t}
          /\ new.by = call.by /\ new.own = m /\ new.reports = call.reports
      BY <1>6 DEF Call
    <3>4. new.batch # {} => t = m
      BY <3>3
    <3> HIDE DEF new, call, task, row
    <3>5. Held(new, T2) = new.batch /\ Unrun(new) = new.batch /\ InHand(new) = {m}
      BY <1>12, <1>17, <3>3 DEF Held, Unrun, InHand, Working
    <3>6. \A l \in new.batch : IsTask(l, T2) /\ T2[l] = L2[l] /\ T2[l].status = "leased"
      BY <1>7, <1>10, <1>12, <3>3, <3>4
    <3>7. NotRun(m, runs)
      BY <1>3 DEF RunsOK, RunOK, MailOK, RowOK, Taken, NoMail, NotRun
    <3>8. CallOK(new, L2, T2, runs)
      <4>1. \A l \in new.reports : AnswersTurn(l, new.by, L2, T2)
        BY <1>13, <3>3 DEF CallOK
      <4> QED
        BY <1>1, <1>6, <1>12, <1>17, <3>3, <3>4, <3>5, <3>6, <3>7, <4>1 DEF CallOK
    <3>9. calls' = [calls EXCEPT ![c] = new] /\ calls' \in [Calls -> Call \union {NoCall}]
      BY <2>3, <3>3 DEF Continue
    <3>10. RunsOK(ledger', tables', runs')
      BY <2>3, <3>2, RunsKept
    <3>11. CallsOK(calls', ledger', tables', runs')
      <4>1. \A i \in DOMAIN runs' : \E j \in DOMAIN runs : runs[j].task = runs'[i].task
        BY <2>3
      <4>2. CallOK(new, ledger', tables', runs') /\ InHand(new) \subseteq {l \in Messages : Takeable(c, l)}
        BY <1>14, <2>3, <3>1, <3>5, <3>8
      <4> QED
        BY <1>15, <3>1, <3>2, <3>9, <4>1, <4>2, OthersOK
    <3> QED
      BY <2>3, <3>2, <3>9, <3>10, <3>11 DEF Step
  <2> QED
    BY <2>1, <2>2, <2>3 DEF Commit
<1> QED
  BY <1>16, <1>17
-----------------------------------------------------------------------------
(* Steps of a call that has nothing to write *)

\* A turn is started.
LEMMA StartTurnStep ==
  ASSUME IInv, NEW c \in Calls, StartTurn(c)
  PROVE  Step
<1>1. PICK plan \in Plans :
        Continue(c, [by |-> revision, at |-> "next", todo |-> plan, batch |-> {},
                     task |-> 0, own |-> 0, reports |-> {}])
  BY DEF StartTurn
<1> DEFINE new == [by |-> revision, at |-> "next", todo |-> plan, batch |-> {},
                   task |-> 0, own |-> 0, reports |-> {}]
<1>2. revision \in 1 .. MaxRevision /\ MaxRevision \in Nat
  BY VirtualMailAssumption DEF IInv, TypeOK, MailTypeOK
<1>3. plan \in Seq(Helpers)
  BY SubAgentRunsAssumption
<1>4. new \in Call
  BY <1>2, <1>3 DEF Call
<1>5. /\ new.at = "next" /\ new.by # 0 /\ new.batch = {} /\ new.own = 0 /\ new.reports = {}
  BY <1>2
<1> HIDE DEF new
<1>6. Held(new, tables) = {} /\ Unrun(new) = {} /\ InHand(new) = {}
  BY <1>5 DEF Held, Unrun, InHand, Working
<1>7. CallOK(new, ledger, tables, runs)
  BY <1>5, <1>6 DEF CallOK
<1>8. UNCHANGED <<mail, runs>> /\ Continue(c, new)
  BY <1>1 DEF StartTurn, new
<1> QED
  BY <1>4, <1>6, <1>7, <1>8, QuietStep

\* A turn or a worker gives up.
LEMMA LeaveStep ==
  ASSUME IInv, NEW c \in Calls, DelegateRefused(c) \/ WorkerFails(c)
  PROVE  Step
BY QuietStep DEF DelegateRefused, WorkerFails, Leave

-----------------------------------------------------------------------------
(* Steps that are no call's *)

\* A step that leaves the calls, their deliveries and the runs alone.
LEMMA AloneStep ==
  ASSUME IInv, MailStep, UNCHANGED <<calls, runs>>,
         \A c \in Calls : calls[c] # NoCall =>
           \A m \in Held(calls[c], tables) : tables'[m] = tables[m] /\ ledger'[m] = ledger[m]
  PROVE  Step
<1> USE DEF IInv, TypeOK
<1>1. RunsOK(ledger', tables', runs')
  BY RunsKept
<1>2. ASSUME NEW c \in Calls, calls[c] # NoCall
      PROVE  CallOK(calls[c], ledger', tables', runs)
  <2>1. CallOK(calls[c], ledger, tables, runs) /\ calls[c] \in Call
    BY <1>2 DEF CallsOK
  <2>2. \A m \in Unrun(calls[c]) : NotRun(m, runs)
    BY <2>1 DEF CallOK
  <2>3. MailOK(ledger', tables') /\ Kept(ledger, tables, ledger', tables')
    BY DEF MailStep
  <2> QED
    BY <1>2, <2>1, <2>2, <2>3, CallKept
<1>3. CallsOK(calls', ledger', tables', runs')
  BY <1>2 DEF CallsOK
<1> QED
  BY <1>1, <1>3 DEF Step

\* What a call holds is in the ledger, leased.
LEMMA HeldOK ==
  ASSUME IInv, NEW c \in Calls, calls[c] # NoCall, NEW m \in Held(calls[c], tables)
  PROVE  /\ IsTask(m, tables) /\ tables[m] = ledger[m] /\ tables[m].status = "leased"
         /\ tables[m] \in MailRow /\ tables[m].to \in Helpers /\ ledger[tables[m].thread] # NoMail
<1>1. IsTask(m, tables) /\ tables[m] = ledger[m] /\ tables[m].status = "leased"
  BY DEF IInv, CallsOK, CallOK
<1>2. tables[m] \in MailRow /\ tables[m] # NoMail
  BY <1>1 DEF IInv, MailOK, IsTask, NoMail
<1> QED
  BY <1>1, <1>2 DEF IInv, MailOK, RowOK, IsTask

\* The room moves and the mail does not.
LEMMA RoomStep ==
  ASSUME IInv, UNCHANGED <<mail, calls, runs>>
  PROVE  Step
<1>1. MailStep
  BY KeptSame DEF MailStep, mail, IInv
<1> QED
  BY <1>1, AloneStep DEF mail

\* The tables are rebuilt.
LEMMA RebuildStep ==
  ASSUME IInv, RebuildTables
  PROVE  Step
<1>1. tables' = ledger /\ ledger' = ledger /\ UNCHANGED <<calls, runs>>
  BY DEF RebuildTables, Rebuild
<1>2. MailOK(ledger, ledger)
  <2>1. \A m \in Messages : RowOK(ledger[m], ledger[m])
    BY DEF IInv, MailOK, RowOK, SameMail
  <2> QED
    BY <2>1 DEF IInv, MailOK
<1>3. Kept(ledger, tables, ledger, ledger)
  <2>1. \A m \in Messages : /\ SameMail(ledger[m], ledger[m])
                            /\ Taken(tables[m]) => Taken(ledger[m])
                            /\ tables[m] # NoMail => ledger[m] # NoMail
                            /\ ~ May("torn_rebuild") /\ tables[m].status \in {"consumed", "stale"} =>
                                 ledger[m] = tables[m]
    <3> TAKE m \in Messages
    <3>1. tables[m] # NoMail => ledger[m] # NoMail
      BY RowKept, KeptSame DEF IInv
    <3>2. Taken(tables[m]) => Taken(ledger[m])
      BY DEF IInv, MailOK, RowOK
    <3>3. ~ May("torn_rebuild") /\ tables[m].status \in {"consumed", "stale"} =>
            ledger[m] = tables[m]
      BY DEF IInv, MailOK, RowOK
    <3> QED
      BY <3>1, <3>2, <3>3 DEF SameMail
  <2> QED
    BY <2>1 DEF Kept
<1>4. MailStep
  <2>1. replays' = replays
    BY DEF RebuildTables, Rebuild
  <2> QED
    BY <1>1, <1>2, <1>3, <2>1 DEF MailStep, IInv
<1>5. \A c \in Calls : calls[c] # NoCall =>
        \A m \in Held(calls[c], tables) : tables'[m] = tables[m] /\ ledger'[m] = ledger[m]
  BY <1>1, HeldOK
<1> QED
  BY <1>1, <1>4, <1>5, AloneStep

\* The process dies while nothing is written.
LEMMA CrashStep ==
  ASSUME IInv, Crash
  PROVE  Step
<1> USE DEF IInv, TypeOK
<1>1. /\ UNCHANGED <<mail, runs>> /\ calls' = [d \in Calls |-> NoCall]
  BY DEF Crash
<1>2. MailStep
  BY <1>1, KeptSame DEF MailStep, mail
<1>3. RunsOK(ledger', tables', runs')
  BY <1>1, <1>2, RunsKept
<1> QED
  BY <1>1, <1>2, <1>3, NobodyOK DEF Step

\* The API submits a task.
LEMMA ApiSubmitStep ==
  ASSUME IInv, ApiSubmit
  PROVE  Step
<1>1. PICK m \in Messages, target \in Agents :
        /\ MayTask(m)
        /\ \/ Record(Submit(m, Posted("task", target, m, 0, revision)))
           \/ \E t \in Addressed(target) :
                Record(Submit(m, Posted("task", target, tables[t].thread, t, revision)))
  BY DEF ApiSubmit
<1>2. PICK thread, parent :
        /\ Record(Submit(m, Posted("task", target, thread, parent, revision)))
        /\ \/ thread = m /\ parent = 0
           \/ parent \in Addressed(target) /\ thread = tables[parent].thread
  BY <1>1
<1> DEFINE row == Posted("task", target, thread, parent, revision)
<1>3. MailOK(ledger, tables) /\ revision \in 1 .. MaxRevision /\ MaxRevision \in Nat
  BY VirtualMailAssumption DEF IInv, TypeOK, MailTypeOK
<1>4. target \in Helpers /\ target \in Mailboxes
  BY HelpersOK
<1>5. /\ thread \in Messages /\ parent \in Messages \union {0}
      /\ thread = m \/ ledger[thread] # NoMail
  <2>1. CASE parent \in Addressed(target) /\ thread = tables[parent].thread
    <3>1. parent \in Messages /\ tables[parent] \in MailRow /\ tables[parent].kind = "task"
      BY <1>3, <1>4, <2>1, HelpersTasks
    <3>2. SameMail(tables[parent], ledger[parent]) /\ ledger[parent] # NoMail
      BY <1>3, <3>1, RowKept, KeptSame
    <3> QED
      BY <1>3, <2>1, <3>1, <3>2 DEF MailOK, SameMail, MailRow
  <2> QED
    BY <1>2, <2>1
<1>6. /\ row \in MailRow /\ row.status = "queued" /\ row.kind = "task" /\ row.to = target
      /\ row.thread = thread
  <2>1. 0 \in 0 .. MaxRevision
    BY <1>3
  <2> QED
    BY <1>3, <1>4, <1>5, <2>1 DEF Posted, MailRow
<1>7. ledger[m] = NoMail
  BY <1>1 DEF MayTask, NextMessage
<1>8. Record(Submit(m, row))
  BY <1>2
<1> HIDE DEF row
<1>9. /\ Submit(m, row) = <<Coming(m, row), Event(m, row)>>
      /\ GoodWave(Coming(m, row), ledger, tables)
      /\ GoodWave(Event(m, row), After(ledger, Coming(m, row)), After(tables, Coming(m, row)))
      /\ After(After(ledger, Coming(m, row)), Event(m, row)) = Submitted(ledger, m, row)
      /\ After(After(tables, Coming(m, row)), Event(m, row)) = Submitted(tables, m, row)
      /\ \A l \in Messages \ {m} : /\ Submitted(ledger, m, row)[l] = ledger[l]
                                 /\ Submitted(tables, m, row)[l] = tables[l]
  BY <1>3, <1>4, <1>5, <1>6, <1>7, SubmitOK
<1> DEFINE w1 == Coming(m, row)
           w2 == Event(m, row)
<1> HIDE DEF w1, w2
<1>10. /\ <<w1, w2>> \in Seq({w1, w2}) /\ GoodWaves(<<w1, w2>>, ledger, tables)
       /\ Written(ledger, <<w1, w2>>) = Submitted(ledger, m, row)
       /\ Written(tables, <<w1, w2>>) = Submitted(tables, m, row)
  BY <1>3, <1>9, TwoWaves DEF w1, w2
<1>11. Record(<<w1, w2>>)
  BY <1>8, <1>9 DEF w1, w2
<1>12. MailStep
  BY <1>3, <1>10, <1>11, BlockOK DEF IInv
<1>13. \A l \in Messages \ {m} : ledger'[l] = ledger[l] /\ tables'[l] = tables[l]
  BY <1>9, <1>10, <1>11 DEF Record, Appended
<1>14. tables[m] = NoMail
  BY <1>3, <1>7, RowKept, KeptSame
<1>15. \A c \in Calls : calls[c] # NoCall =>
         \A l \in Held(calls[c], tables) : tables'[l] = tables[l] /\ ledger'[l] = ledger[l]
  <2>1. \A c \in Calls : calls[c] # NoCall =>
          \A l \in Held(calls[c], tables) : l \in Messages \ {m}
    BY <1>14, HeldOK DEF IsTask, NoMail
  <2> QED
    BY <1>13, <2>1
<1>16. UNCHANGED <<calls, runs>>
  BY DEF ApiSubmit
<1> QED
  BY <1>12, <1>15, <1>16, AloneStep
-----------------------------------------------------------------------------
(* Dispatching through the API *)

\* A task that is queued for a helper has not been run.
LEMMA QueuedOK ==
  ASSUME IInv, NEW h \in Helpers, NEW t \in QueuedFor(h)
  PROVE  /\ t \in Messages /\ tables[t] \in MailRow /\ tables[t].kind = "task"
         /\ tables[t].to = h /\ tables[t].status = "queued"
         /\ NotRun(t, runs)
<1>1. t \in Addressed(h) /\ tables[t].status = "queued"
  BY DEF QueuedFor
<1>2. NotRun(t, runs)
  BY <1>1 DEF IInv, RunsOK, RunOK, Taken, NotRun
<1> QED
  BY <1>1, <1>2, HelpersTasks DEF IInv

\* A batch of queued deliveries is leased.
LEMMA BatchOK ==
  ASSUME IInv, NEW h \in Helpers, NEW batch \in SUBSET QueuedFor(h),
         NEW w, w = [l \in batch |-> Leased(tables[l], 0)]
  PROVE  /\ GoodWaves(<<w>>, ledger, tables) /\ <<w>> \in Seq({w})
         /\ batch \subseteq Messages
         /\ \A l \in batch : /\ Written(ledger, <<w>>)[l] = Leased(tables[l], 0)
                             /\ Written(tables, <<w>>)[l] = Leased(tables[l], 0)
                             /\ Leased(tables[l], 0).status = "leased"
                             /\ SameMail(Leased(tables[l], 0), tables[l])
         /\ \A l \in Messages \ batch : /\ Written(ledger, <<w>>)[l] = ledger[l]
                                        /\ Written(tables, <<w>>)[l] = tables[l]
<1>1. DOMAIN w = batch /\ \A l \in batch : w[l] = Leased(tables[l], 0)
  OBVIOUS
<1>2. \A l \in batch : /\ l \in Messages /\ tables[l].kind = "task" /\ tables[l].status = "queued"
                       /\ Leased(tables[l], 0) = Move(tables[l], "leased", 0)
  BY QueuedOK DEF Leased, Move
<1>3. MailOK(ledger, tables) /\ 0 \in 0 .. MaxRevision
  BY VirtualMailAssumption DEF IInv
<1>4. ASSUME NEW l \in batch
      PROVE  /\ GoodWrite(ledger[l], tables[l], w[l]) /\ ledger[w[l].thread] # NoMail
             /\ w[l].status = "leased" /\ SameMail(w[l], tables[l])
  <2>1. l \in Messages /\ tables[l].kind # "none" /\ tables[l].status \in {"none", "queued", "leased"}
    BY <1>2
  <2>2. /\ GoodWrite(ledger[l], tables[l], Move(tables[l], "leased", 0))
        /\ ledger[Move(tables[l], "leased", 0).thread] # NoMail
        /\ Move(tables[l], "leased", 0).status = "leased"
        /\ SameMail(Move(tables[l], "leased", 0), tables[l])
    BY <1>3, <2>1, MoveOK
  <2> QED
    BY <1>1, <1>2, <2>2
<1>5. GoodWave(w, ledger, tables)
  BY <1>1, <1>2, <1>4 DEF GoodWave
<1>6. /\ <<w>> \in Seq({w}) /\ GoodWaves(<<w>>, ledger, tables)
      /\ Written(ledger, <<w>>) = After(ledger, w) /\ Written(tables, <<w>>) = After(tables, w)
  BY <1>3, <1>5, OneWave
<1>7. \A l \in Messages : /\ After(ledger, w)[l] = IF l \in batch THEN w[l] ELSE ledger[l]
                          /\ After(tables, w)[l] = IF l \in batch THEN w[l] ELSE tables[l]
  BY <1>1 DEF After
<1>8. batch \subseteq Messages
  BY <1>2
<1> QED
  BY <1>1, <1>4, <1>6, <1>7, <1>8

\* The API dispatches a batch, and processes the first of it.
LEMMA ApiDispatchStep ==
  ASSUME IInv, NEW c \in Calls, ApiDispatch(c)
  PROVE  Step
<1>0. PICK target \in Agents : \E batch \in SUBSET QueuedFor(target) : \E t \in batch :
        Process(c,
          [by |-> 0, at |-> "next", todo |-> <<>>, batch |-> batch \ {t},
           task |-> 0, own |-> 0, reports |-> {}],
          <<[l \in batch |-> Leased(tables[l], 0)]>>, t, tables[t])
  BY DEF ApiDispatch
<1>1. PICK batch \in SUBSET QueuedFor(target) : \E t \in batch :
        Process(c,
          [by |-> 0, at |-> "next", todo |-> <<>>, batch |-> batch \ {t},
           task |-> 0, own |-> 0, reports |-> {}],
          <<[l \in batch |-> Leased(tables[l], 0)]>>, t, tables[t])
  BY <1>0
<1>2. PICK t \in batch :
        Process(c,
          [by |-> 0, at |-> "next", todo |-> <<>>, batch |-> batch \ {t},
           task |-> 0, own |-> 0, reports |-> {}],
          <<[l \in batch |-> Leased(tables[l], 0)]>>, t, tables[t])
  BY <1>1
<1> DEFINE call == [by |-> 0, at |-> "next", todo |-> <<>>, batch |-> batch \ {t},
                    task |-> 0, own |-> 0, reports |-> {}]
           w == [l \in batch |-> Leased(tables[l], 0)]
           L2 == Written(ledger, <<w>>)
           T2 == Written(tables, <<w>>)
<1>3. target \in Helpers /\ Mode[target] # "worker"
  BY HelpersOK
<1>4. /\ GoodWaves(<<w>>, ledger, tables) /\ <<w>> \in Seq({w})
      /\ batch \subseteq Messages
      /\ \A l \in batch : /\ L2[l] = Leased(tables[l], 0) /\ T2[l] = Leased(tables[l], 0)
                          /\ Leased(tables[l], 0).status = "leased"
                          /\ SameMail(Leased(tables[l], 0), tables[l])
      /\ \A l \in Messages \ batch : L2[l] = ledger[l] /\ T2[l] = tables[l]
  BY <1>3, BatchOK
<1>5. Process(c, call, <<w>>, t, tables[t])
  BY <1>2
<1>6. \A l \in batch : /\ tables[l].kind = "task" /\ tables[l].to = target
                       /\ tables[l].status = "queued" /\ tables[l] \in MailRow
                       /\ NotRun(l, runs)
  BY <1>3, QueuedOK
<1>7. call \in Call
  BY <1>4, VirtualMailAssumption DEF Call
<1>8. /\ call.by = 0 /\ call.at = "next" /\ call.todo = <<>> /\ call.batch = batch \ {t}
      /\ call.own = 0 /\ call.reports = {}
  OBVIOUS
<1> HIDE DEF call, w, L2, T2
<1>9. \A l \in batch : Takeable(c, l) /\ Writable(c, l)
  BY <1>3, <1>6 DEF Takeable, Writable
<1>10. \A l \in batch : /\ IsTask(l, T2) /\ T2[l] = L2[l] /\ T2[l].status = "leased"
                        /\ T2[l].to = target /\ T2[l].kind = "task" /\ T2[l].thread = tables[l].thread
  BY <1>4, <1>6 DEF IsTask, SameMail
<1>11. Held(call, T2) = batch \ {t} /\ Unrun(call) = batch \ {t}
  BY <1>8 DEF Held, Unrun, Working
<1>12. CallOK(call, L2, T2, runs)
  BY <1>3, <1>6, <1>8, <1>10, <1>11 DEF CallOK
<1>13. Leases(c, call, <<w>>, t, L2, T2)
  <2>1. L2 = Written(ledger, <<w>>) /\ T2 = Written(tables, <<w>>)
    BY DEF L2, T2
  <2>2. \A m \in Messages : Writable(c, m) \/ (T2[m] = tables[m] /\ L2[m] = ledger[m])
    BY <1>4, <1>9
  <2>3. call.batch \subseteq {m \in Messages : Takeable(c, m)}
    BY <1>4, <1>8, <1>9
  <2> QED
    BY <1>4, <1>6, <1>7, <1>8, <1>9, <1>10, <1>12, <2>1, <2>2, <2>3 DEF Leases
<1>14. tables[t].to = T2[t].to /\ tables[t].thread = T2[t].thread
  BY <1>6, <1>10
<1> QED
  BY <1>4, <1>5, <1>13, <1>14, ProcessOK

\* It processes the next of its batch, which is leased already.
LEMMA ApiContinuesStep ==
  ASSUME IInv, NEW c \in Calls, ApiContinues(c)
  PROVE  Step
<1>1. PICK t \in calls[c].batch : Process(c, [calls[c] EXCEPT !.batch = @ \ {t}], <<>>, t, tables[t])
  BY DEF ApiContinues
<1>2. calls[c] # NoCall /\ calls[c].at = "next" /\ calls[c].by = 0
  BY DEF ApiContinues, At, ByTurn, Free
<1>3. calls[c] \in Call /\ CallOK(calls[c], ledger, tables, runs) /\ MailOK(ledger, tables)
  BY <1>2 DEF IInv, TypeOK, CallsOK
<1> DEFINE call == [calls[c] EXCEPT !.batch = @ \ {t}]
<1>4. /\ call \in Call /\ call.by = 0 /\ call.at = "next" /\ call.todo = calls[c].todo
      /\ call.batch = calls[c].batch \ {t} /\ call.own = calls[c].own /\ call.reports = calls[c].reports
  BY <1>2, <1>3 DEF Call
<1>5. Process(c, call, <<>>, t, tables[t])
  BY <1>1
<1> HIDE DEF call
<1>6. t \in Held(calls[c], tables) /\ t \in InHand(calls[c]) /\ t \in Unrun(calls[c])
  BY DEF Held, InHand, Unrun
<1>7. /\ t \in Messages /\ tables[t] = ledger[t] /\ tables[t].status = "leased"
      /\ tables[t].kind = "task" /\ tables[t].to \in Agents
  <2>1. Mode[tables[t].to] # "worker"
    BY <1>2, <1>3 DEF CallOK
  <2> QED
    BY <1>2, <1>6, <2>1, HeldOK, HelpersOK DEF IsTask
<1>8. NotRun(t, runs)
  BY <1>3, <1>6 DEF CallOK
<1>9. Held(call, tables) = call.batch /\ Unrun(call) = call.batch
  BY <1>4 DEF Held, Unrun, Working
<1>10. CallOK(call, ledger, tables, runs)
  BY <1>2, <1>3, <1>4, <1>9 DEF CallOK, Held, Unrun
<1>11. \A l \in calls[c].batch : Takeable(c, l)
  BY <1>2 DEF Takeable, Mine, InHand
<1>12. Written(ledger, <<>>) = ledger /\ Written(tables, <<>>) = tables
  BY <1>3, WrittenNone DEF MailOK
<1>13. <<>> \in Seq({}) /\ GoodWaves(<<>>, ledger, tables)
  BY DEF GoodWaves
<1>14. calls[c].batch \subseteq Messages
  BY <1>3 DEF Call
<1>15. Leases(c, call, <<>>, t, ledger, tables)
  BY <1>4, <1>7, <1>8, <1>10, <1>11, <1>12, <1>13, <1>14 DEF Leases
<1> QED
  BY <1>5, <1>13, <1>15, ProcessOK
-----------------------------------------------------------------------------
(* The runs of sub-agents *)

\* A call whose task is a sub-agent's, and where its run is.
LEMMA WorkingOK ==
  ASSUME IInv, NEW c \in Calls, calls[c] # NoCall, calls[c].at # "next",
         Mode[tables[calls[c].task].to] # "worker"
  PROVE  /\ calls[c] \in Call /\ CallOK(calls[c], ledger, tables, runs)
         /\ calls[c].task \in Messages /\ tables[calls[c].task] = ledger[calls[c].task]
         /\ tables[calls[c].task].status = "leased" /\ tables[calls[c].task].kind = "task"
         /\ tables[calls[c].task] \in MailRow /\ tables[calls[c].task].to \in Agents
         /\ ledger[tables[calls[c].task].thread] # NoMail
         /\ calls[c].task \notin calls[c].batch /\ (calls[c].by # 0 => calls[c].batch = {})
         /\ Writable(c, calls[c].task) /\ Takeable(c, calls[c].task)
         /\ \A m \in calls[c].batch : Takeable(c, m)
<1>1. calls[c] \in Call /\ CallOK(calls[c], ledger, tables, runs)
  BY DEF IInv, TypeOK, CallsOK
<1>2. calls[c].task \in Held(calls[c], tables)
  BY DEF Held, Working
<1>3. calls[c].by # 0 => calls[c].batch = {}
  BY <1>1 DEF CallOK
<1>4. calls[c].task \notin calls[c].batch
  BY <1>1, <1>3 DEF CallOK
<1>5. Mine(c, calls[c].task) /\ \A m \in calls[c].batch : Mine(c, m)
  BY DEF Mine, InHand
<1>6. /\ IsTask(calls[c].task, tables) /\ tables[calls[c].task] = ledger[calls[c].task]
      /\ tables[calls[c].task].status = "leased"
      /\ tables[calls[c].task] \in MailRow /\ tables[calls[c].task].to \in Helpers
      /\ ledger[tables[calls[c].task].thread] # NoMail
  BY <1>2, HeldOK
<1> QED
  BY <1>1, <1>3, <1>4, <1>5, <1>6, HelpersOK DEF Writable, Takeable, IsTask

\* A call that is done with its task holds what is left of its batch.
LEMMA IdleOK ==
  ASSUME NEW L, NEW T, NEW R, NEW call \in Call, CallOK(call, L, T, R),
         NEW new, new \in Call, new.at = "next",
         new.by = call.by, new.own = call.own, new.todo = call.todo, new.reports = call.reports,
         new.batch = {} \/ (new.batch = call.batch /\ (call.by # 0 => call.batch = {}))
  PROVE  CallOK(new, L, T, R) /\ Held(new, T) = new.batch /\ Unrun(new) = new.batch
<1>1. Held(new, T) = new.batch /\ Unrun(new) = new.batch
  BY DEF Held, Unrun, Working
<1>2. call.batch \subseteq Held(call, T) /\ call.batch \subseteq Unrun(call)
  BY DEF Held, Unrun
<1> QED
  BY <1>1, <1>2 DEF CallOK

\* And may have a report.
LEMMA MoreOK ==
  ASSUME NEW L, NEW T, NEW R, NEW call \in Call, CallOK(call, L, T, R), call.at = "next",
         NEW m \in Messages, AnswersTurn(m, call.by, L, T), call.by # 0,
         NEW new, new = [call EXCEPT !.reports = @ \union {m}]
  PROVE  new \in Call /\ CallOK(new, L, T, R)
<1>1. /\ new \in Call /\ new.at = "next" /\ new.by = call.by /\ new.own = call.own
      /\ new.todo = call.todo /\ new.batch = call.batch /\ new.reports = call.reports \union {m}
  BY DEF Call
<1>2. Held(new, T) = Held(call, T) /\ Unrun(new) = Unrun(call)
  BY <1>1 DEF Held, Unrun, Working
<1> HIDE DEF AnswersTurn
<1> QED
  BY <1>1, <1>2 DEF CallOK

\* A run changes its status.
WithStatus(i, s) == [runs EXCEPT ![i].status = s]

\* A run that is given another status keeps its task, thread and target.
LEMMA RunsSettled ==
  ASSUME runs \in Seq(Run), NEW i, NEW s \in {"running", "completed", "failed", "stale"}
  PROVE  /\ WithStatus(i, s) \in Seq(Run) /\ DOMAIN WithStatus(i, s) = DOMAIN runs
         /\ \A j \in DOMAIN runs : /\ WithStatus(i, s)[j].task = runs[j].task
                                   /\ WithStatus(i, s)[j].thread = runs[j].thread
                                   /\ WithStatus(i, s)[j].target = runs[j].target
                                   /\ j # i => WithStatus(i, s)[j] = runs[j]
                                   /\ WithStatus(i, s)[j].status = IF j = i THEN s ELSE runs[j].status
<1> DEFINE ended == WithStatus(i, s)
<1>1. DOMAIN ended = DOMAIN runs /\ DOMAIN runs = 1 .. Len(runs)
  BY DEF WithStatus
<1>2. \A j \in DOMAIN runs : ended[j] = IF j = i THEN [runs[i] EXCEPT !.status = s] ELSE runs[j]
  BY DEF WithStatus
<1>3. \A r \in Run : /\ [r EXCEPT !.status = s] \in Run
                     /\ [r EXCEPT !.status = s].task = r.task
                     /\ [r EXCEPT !.status = s].thread = r.thread
                     /\ [r EXCEPT !.status = s].target = r.target
                     /\ [r EXCEPT !.status = s].status = s
  BY DEF Run
<1>4. \A j \in DOMAIN runs : runs[j] \in Run
  OBVIOUS
<1>5. ended = [j \in 1 .. Len(runs) |-> ended[j]] /\ \A j \in 1 .. Len(runs) : ended[j] \in Run
  <2>1. ended = [j \in DOMAIN runs |-> ended[j]]
    BY DEF WithStatus
  <2> QED
    BY <2>1, <1>1, <1>2, <1>3, <1>4
<1>6. ended \in Seq(Run)
  <2> HIDE DEF ended
  <2> QED
    BY <1>5
<1>7. ASSUME NEW j \in DOMAIN runs
      PROVE  /\ ended[j].task = runs[j].task /\ ended[j].thread = runs[j].thread
             /\ ended[j].target = runs[j].target
             /\ j # i => ended[j] = runs[j]
             /\ ended[j].status = IF j = i THEN s ELSE runs[j].status
  <2>1. CASE j = i
    BY <1>2, <1>3, <1>4, <2>1
  <2>2. CASE j # i
    BY <1>2, <2>2
  <2> QED
    BY <2>1, <2>2
<1> QED
  BY <1>1, <1>6, <1>7

\* The spawn of a burst answers.
LEMMA SpawnedStep ==
  ASSUME IInv, NEW c \in Calls, Spawned(c)
  PROVE  Step
<1> DEFINE t == calls[c].task
           new == [calls[c] EXCEPT !.at = "working"]
           run == [task |-> t, thread |-> tables[t].thread, target |-> tables[t].to,
                   status |-> "running"]
<1>1. /\ calls[c] # NoCall /\ calls[c].at = "spawning" /\ UNCHANGED mail
      /\ runs' = Append(runs, run) /\ Continue(c, new)
  BY DEF Spawned, At, Free, Accepted
<1>2. CallOK(calls[c], ledger, tables, runs) /\ calls[c] \in Call /\ MailOK(ledger, tables)
      /\ runs \in Seq(Run)
  BY <1>1 DEF IInv, TypeOK, CallsOK
<1>3. Mode[tables[t].to] = "burst"
  BY <1>1, <1>2 DEF CallOK
<1>4. /\ t \in Messages /\ tables[t] = ledger[t] /\ tables[t].status = "leased"
      /\ tables[t].kind = "task" /\ tables[t] \in MailRow /\ tables[t].to \in Agents
      /\ t \notin calls[c].batch /\ Takeable(c, t)
      /\ calls[c].by # 0 => calls[c].batch = {}
      /\ \A m \in calls[c].batch : Takeable(c, m)
  BY <1>1, <1>3, WorkingOK
<1>5. MailStep /\ ledger' = ledger /\ tables' = tables
  BY <1>1, <1>2, KeptSame DEF MailStep, mail, IInv
<1>6. NotRun(t, runs)
  BY <1>1, <1>2 DEF CallOK, Unrun
<1>7. run \in Run /\ run.task = t
  BY <1>4 DEF Run, MailRow
<1>8. RunOK(run, ledger, tables)
  BY <1>4 DEF RunOK, Taken
<1>9. runs' \in Seq(Run) /\ \A i \in DOMAIN runs' : (i \in DOMAIN runs /\ runs'[i] = runs[i]) \/ runs'[i].task = t
  BY <1>1, <1>2, <1>7
<1> HIDE DEF run
<1>10. RunsOK(ledger', tables', runs')
  BY <1>1, <1>2, <1>5, <1>6, <1>7, <1>8, RunsGrow DEF IInv
<1>11. /\ new \in Call /\ new.at = "working" /\ new.by = calls[c].by /\ new.task = t
       /\ new.batch = calls[c].batch /\ new.own = calls[c].own /\ new.todo = calls[c].todo
       /\ new.reports = calls[c].reports
  BY <1>2 DEF Call
<1> HIDE DEF new
<1>12. /\ Held(new, tables) = Held(calls[c], tables) /\ Unrun(new) = calls[c].batch
       /\ InHand(new) = calls[c].batch \union {t}
  BY <1>1, <1>11 DEF Held, Unrun, InHand, Working
<1>13. \A m \in Unrun(new) : NotRun(m, runs')
  <2> SUFFICES ASSUME ~ May("torn_rebuild"), NEW m \in calls[c].batch, NEW i \in DOMAIN runs'
               PROVE  runs'[i].task # m
    BY <1>12 DEF NotRun
  <2>1. m # t
    BY <1>4
  <2>2. m \in Unrun(calls[c])
    BY DEF Unrun
  <2>3. \A j \in DOMAIN runs : runs[j].task # m
    BY <1>2, <2>2 DEF CallOK, NotRun
  <2> HIDE DEF t
  <2> QED
    BY <1>9, <2>1, <2>3
<1>14. CallOK(new, ledger, tables, runs')
  BY <1>1, <1>2, <1>3, <1>4, <1>11, <1>12, <1>13 DEF CallOK
<1>15. calls[c].batch \subseteq Messages
  BY <1>2 DEF Call
<1>16. calls' = [calls EXCEPT ![c] = new] /\ calls' \in [Calls -> Call \union {NoCall}]
  BY <1>1, <1>11 DEF Continue, IInv, TypeOK
<1>17. CallsOK(calls', ledger', tables', runs')
  <2>1. \A i \in DOMAIN runs' : \/ \E j \in DOMAIN runs : runs[j].task = runs'[i].task
                                \/ runs'[i].task \in Messages /\ Takeable(c, runs'[i].task)
    BY <1>4, <1>9
  <2>2. CallOK(new, ledger', tables', runs') /\ InHand(new) \subseteq {m \in Messages : Takeable(c, m)}
    BY <1>4, <1>5, <1>12, <1>14, <1>15
  <2>3. calls \in [Calls -> Call \union {NoCall}] /\ CallsOK(calls, ledger, tables, runs)
    BY DEF IInv, TypeOK
  <2> QED
    BY <1>2, <1>5, <1>16, <2>1, <2>2, <2>3, OthersOK
<1> QED
  BY <1>5, <1>9, <1>10, <1>16, <1>17 DEF Step

\* A step of a call that inserts no run.
LEMMA CallStepOK ==
  ASSUME IInv, NEW c \in Calls, NEW new, calls[c] # NoCall, MailStep, Continue(c, new),
         runs' \in Seq(Run), DOMAIN runs' = DOMAIN runs,
         \A i \in DOMAIN runs : /\ runs'[i].task = runs[i].task
                               /\ runs'[i].thread = runs[i].thread
                               /\ runs'[i].target = runs[i].target,
         \A m \in Messages : Writable(c, m) \/ (tables'[m] = tables[m] /\ ledger'[m] = ledger[m]),
         new # NoCall =>
           /\ new \in Call /\ CallOK(new, ledger', tables', runs')
           /\ InHand(new) \subseteq InHand(calls[c])
  PROVE  Step
<1> USE DEF IInv, TypeOK
<1>1. RunsOK(ledger', tables', runs')
  BY RunsKept
<1>2. calls' = [calls EXCEPT ![c] = new] /\ calls' \in [Calls -> Call \union {NoCall}]
  BY DEF Continue
<1>3. \A m \in InHand(calls[c]) : m \in Messages /\ Takeable(c, m)
  <2>1. calls[c] \in Call /\ CallOK(calls[c], ledger, tables, runs)
    BY DEF CallsOK
  <2>2. \A m \in InHand(calls[c]) : m \in Messages
    BY <2>1 DEF InHand, Call, CallOK, IsTask
  <2> QED
    BY <2>2 DEF Takeable, Mine
<1>4. CallsOK(calls', ledger', tables', runs')
  <2>1. \A i \in DOMAIN runs' : \E j \in DOMAIN runs : runs[j].task = runs'[i].task
    OBVIOUS
  <2>2. new # NoCall =>
          /\ CallOK(new, ledger', tables', runs')
          /\ InHand(new) \subseteq {m \in Messages : Takeable(c, m)}
    BY <1>3
  <2> QED
    BY <1>2, <2>1, <2>2, OthersOK
<1> QED
  BY <1>1, <1>2, <1>4 DEF Step

\* What is left of a call when its run has ended.
LEMMA EndedOK ==
  ASSUME IInv, NEW c \in Calls, calls[c] # NoCall, calls[c].at # "next",
         Mode[tables[calls[c].task].to] # "worker", MailStep, DOMAIN runs' = DOMAIN runs,
         \A i \in DOMAIN runs : runs'[i].task = runs[i].task,
         \A m \in calls[c].batch : tables'[m] = tables[m] /\ ledger'[m] = ledger[m],
         NEW rest, rest = [calls[c] EXCEPT !.at = "next"]
  PROVE  /\ rest \in Call /\ rest.at = "next" /\ rest.by = calls[c].by
         /\ CallOK(rest, ledger', tables', runs') /\ InHand(rest) \subseteq InHand(calls[c])
<1>1. /\ calls[c] \in Call /\ CallOK(calls[c], ledger, tables, runs)
      /\ calls[c].by # 0 => calls[c].batch = {}
  BY WorkingOK
<1>2. /\ rest \in Call /\ rest.at = "next" /\ rest.by = calls[c].by /\ rest.own = calls[c].own
      /\ rest.todo = calls[c].todo /\ rest.reports = calls[c].reports
      /\ rest.batch = calls[c].batch
  BY <1>1 DEF Call
<1>3. /\ CallOK(rest, ledger, tables, runs) /\ Held(rest, tables) = rest.batch
      /\ Unrun(rest) = rest.batch
  <2>1. /\ calls[c] \in Call
        /\ rest.batch = {} \/ (rest.batch = calls[c].batch /\ (calls[c].by # 0 => calls[c].batch = {}))
    BY <1>1, <1>2
  <2> DEFINE call == calls[c]
             left == rest
  <2>2. /\ call \in Call /\ CallOK(call, ledger, tables, runs)
        /\ left \in Call /\ left.at = "next" /\ left.by = call.by /\ left.own = call.own
        /\ left.todo = call.todo /\ left.reports = call.reports
        /\ left.batch = {} \/ (left.batch = call.batch /\ (call.by # 0 => call.batch = {}))
    BY <1>1, <1>2, <2>1
  <2> HIDE DEF call, left
  <2>3. CallOK(left, ledger, tables, runs) /\ Held(left, tables) = left.batch /\ Unrun(left) = left.batch
    BY <2>2, IdleOK
  <2> QED
    BY <2>3 DEF left
<1>4. MailOK(ledger', tables') /\ Kept(ledger, tables, ledger', tables') /\ MailOK(ledger, tables)
  BY DEF MailStep, IInv
<1>5. \A m \in Held(rest, tables) : tables'[m] = tables[m] /\ ledger'[m] = ledger[m]
  BY <1>2, <1>3
<1>6. \A m \in Unrun(rest) : NotRun(m, runs')
  BY <1>3 DEF CallOK, NotRun
<1>7. CallOK(rest, ledger', tables', runs')
  BY <1>2, <1>3, <1>4, <1>5, <1>6, CallKept
<1>8. InHand(rest) \subseteq InHand(calls[c])
  BY <1>2 DEF InHand
<1> QED
  BY <1>2, <1>7, <1>8

\* A delivery is blocked, around the ledger, which may have it stale.
LEMMA BlockedOK ==
  ASSUME IInv, NEW t \in Messages, tables[t] = ledger[t], tables[t].status = "leased",
         tables[t].kind = "task", tables[t].to \in Agents,
         tables' = [tables EXCEPT ![t] = Settled(@, "blocked")],
         ledger' = ledger \/ ledger' = [ledger EXCEPT ![t] = Settled(@, "stale")],
         ReplaysOK(replays', ledger')
  PROVE  MailStep
<1> USE DEF IInv
<1>1. /\ \A m \in Messages \ {t} : tables'[m] = tables[m] /\ ledger'[m] = ledger[m]
      /\ tables'[t] = Settled(tables[t], "blocked")
      /\ ledger'[t] = ledger[t] \/ ledger'[t] = Settled(tables[t], "stale")
      /\ DOMAIN tables' = Messages /\ tables' = [m \in Messages |-> tables'[m]]
      /\ DOMAIN ledger' = Messages /\ ledger' = [m \in Messages |-> ledger'[m]]
  BY DEF MailOK
<1>2. tables[t] \in MailRow /\ ledger[tables[t].thread] # NoMail
  BY DEF MailOK, NoMail
<1>3. \A s \in {"blocked", "stale"} :
        /\ Settled(tables[t], s) \in MailRow /\ Settled(tables[t], s).status = s
        /\ SameMail(Settled(tables[t], s), tables[t])
  <2>1. 0 \in 0 .. MaxRevision
    BY VirtualMailAssumption
  <2> TAKE s \in {"blocked", "stale"}
  <2>2. s \in {"none", "queued", "leased", "consumed", "stale", "blocked"}
    OBVIOUS
  <2> HIDE DEF IInv
  <2> QED
    BY <1>2, <2>1, <2>2 DEF Settled, MailRow, SameMail
<1>4. \A r \in MailRow : r # NoMail
  BY DEF MailRow, NoMail
<1>5. /\ tables'[t] \in MailRow /\ tables'[t].status = "blocked" /\ SameMail(tables'[t], tables[t])
      /\ ledger'[t] \in MailRow /\ ledger'[t].status \in {"leased", "stale"}
      /\ SameMail(ledger'[t], tables[t])
  BY <1>1, <1>2, <1>3 DEF SameMail
<1>6. RowOK(ledger'[t], tables'[t])
  <2>1. SameMail(tables'[t], ledger'[t])
    BY <1>5 DEF SameMail
  <2>2. tables'[t].to \in Agents /\ ledger'[t].kind = "task" /\ ledger'[t].to \in Helpers
    BY <1>5, HelpersOK DEF SameMail
  <2> QED
    BY <1>5, <2>1, <2>2 DEF RowOK, Taken
<1>7. \A m \in Messages : RowOK(ledger'[m], tables'[m])
  BY <1>1, <1>6 DEF MailOK
<1>8. \A m \in Messages : ledger'[m].thread = ledger[m].thread /\ (ledger'[m] # NoMail <=> ledger[m] # NoMail)
  BY <1>1, <1>2, <1>4, <1>5 DEF SameMail
<1>9. MailOK(ledger', tables')
  <2>1. \A m \in Messages : ledger'[m] \in MailRow \union {NoMail} /\ tables'[m] \in MailRow \union {NoMail}
    BY <1>7 DEF RowOK
  <2>2. \A m \in Messages : ledger'[m] # NoMail => ledger'[ledger'[m].thread] # NoMail
    <3> TAKE m \in Messages
    <3>1. HAVE ledger'[m] # NoMail
    <3>2. ledger'[m].thread \in Messages
      BY <2>1, <3>1 DEF MailRow
    <3> QED
      BY <1>8, <3>1, <3>2 DEF MailOK
  <2>3. /\ tables' \in [Messages -> MailRow \union {NoMail}]
        /\ ledger' \in [Messages -> MailRow \union {NoMail}]
    BY <1>1, <2>1
  <2> QED
    BY <1>7, <2>2, <2>3 DEF MailOK
<1>10. Kept(ledger, tables, ledger', tables')
  <2>1. \A m \in Messages : ledger[m] # NoMail => SameMail(ledger'[m], ledger[m])
    BY <1>1, <1>5 DEF SameMail
  <2>2. \A m \in Messages : /\ Taken(ledger[m]) => Taken(ledger'[m])
                            /\ Taken(tables[m]) => Taken(tables'[m])
                            /\ tables[m] # NoMail => tables'[m] # NoMail
    BY <1>1, <1>4, <1>5 DEF Taken
  <2> QED
    BY <1>8, <2>1, <2>2 DEF Kept
<1> QED
  BY <1>9, <1>10 DEF MailStep

\* What is thrown out of a dispatch, or left by it, leaves the rest of the call.
LEMMA ThrownIs ==
  ASSUME NEW call
  PROVE  /\ Thrown(call) \in {NoCall, [call EXCEPT !.at = "next"]}
         /\ Onward(call) \in {NoCall, [call EXCEPT !.at = "next"]}
BY DEF Thrown, Onward

\* The spawn of a burst fails.
LEMMA SpawnFailsStep ==
  ASSUME IInv, NEW c \in Calls, SpawnFails(c)
  PROVE  Step
<1> DEFINE t == calls[c].task
           rest == [calls[c] EXCEPT !.at = "next"]
<1>1. /\ calls[c] # NoCall /\ calls[c].at = "spawning" /\ runs' = runs
      /\ tables' = [tables EXCEPT ![t] = Settled(@, "blocked")] /\ ledger' = ledger
      /\ Continue(c, Thrown(calls[c])) /\ replays' = replays
  BY DEF SpawnFails, At, Free, Block
<1>2. Mode[tables[t].to] # "worker"
  BY <1>1 DEF IInv, CallsOK, CallOK
<1>3. /\ t \in Messages /\ tables[t] = ledger[t] /\ tables[t].status = "leased"
      /\ tables[t].kind = "task" /\ tables[t].to \in Agents /\ t \notin calls[c].batch
      /\ calls[c] \in Call /\ Writable(c, t)
  BY <1>1, <1>2, WorkingOK
<1>4. MailStep
  BY <1>1, <1>3, BlockedOK DEF IInv
<1>5. \A m \in Messages \ {t} : tables'[m] = tables[m] /\ ledger'[m] = ledger[m]
  BY <1>1 DEF IInv, MailOK
<1>6. \A m \in calls[c].batch : tables'[m] = tables[m] /\ ledger'[m] = ledger[m]
  BY <1>3, <1>5 DEF Call
<1> HIDE DEF t
<1>7. rest \in Call /\ CallOK(rest, ledger', tables', runs') /\ InHand(rest) \subseteq InHand(calls[c])
  BY <1>1, <1>2, <1>4, <1>6, EndedOK DEF t
<1>8. runs' \in Seq(Run)
  BY <1>1 DEF IInv, TypeOK
<1>9. \A m \in Messages : Writable(c, m) \/ (tables'[m] = tables[m] /\ ledger'[m] = ledger[m])
  BY <1>3, <1>5
<1>10. Thrown(calls[c]) \in {NoCall, rest}
  BY ThrownIs
<1> HIDE DEF rest
<1> QED
  BY <1>1, <1>4, <1>7, <1>8, <1>9, <1>10, CallStepOK
-----------------------------------------------------------------------------
(* Reports *)

\* A delivery is settled.
LEMMA SettleOK ==
  ASSUME NEW L, NEW T, MailOK(L, T), NEW t \in Messages, T[t].kind # "none",
         NEW s \in {"consumed", "stale"},
         \/ T[t].status \in {"none", "queued", "leased"}
         \/ T[t].status = "blocked" /\ s = "stale",
         NEW w, w = Event(t, Settled(T[t], s))
  PROVE  /\ GoodWave(w, L, T)
         /\ MailOK(After(L, w), After(T, w)) /\ Kept(L, T, After(L, w), After(T, w))
         /\ SameMail(Settled(T[t], s), T[t])
         /\ After(L, w)[t] = Settled(T[t], s) /\ After(T, w)[t] = Settled(T[t], s)
         /\ \A l \in Messages \ {t} : After(L, w)[l] = L[l] /\ After(T, w)[l] = T[l]
<1>1. DOMAIN w = {t} /\ w[t] = Settled(T[t], s)
  BY DEF Event
<1>2. Settled(T[t], s) = Move(T[t], s, 0) /\ 0 \in 0 .. MaxRevision
  BY VirtualMailAssumption DEF Settled, Move
<1>3. /\ GoodWrite(L[t], T[t], Move(T[t], s, 0)) /\ L[Move(T[t], s, 0).thread] # NoMail
      /\ SameMail(Move(T[t], s, 0), T[t])
  BY <1>2, MoveOK
<1>4. GoodWave(w, L, T)
  BY <1>1, <1>2, <1>3 DEF GoodWave
<1>5. /\ After(L, w)[t] = w[t] /\ After(T, w)[t] = w[t]
      /\ \A l \in Messages \ {t} : After(L, w)[l] = L[l] /\ After(T, w)[l] = T[l]
  BY <1>1 DEF After
<1> QED
  BY <1>1, <1>2, <1>3, <1>4, <1>5, WholeWave

\* Writing waves that leave all but two messages alone.
Writes(waves, m, rep, t, row) ==
  /\ \E S : waves \in Seq(S)
  /\ GoodWaves(waves, ledger, tables)
  /\ Written(ledger, waves)[m] = rep /\ Written(tables, waves)[m] = rep
  /\ Written(ledger, waves)[t] = row /\ Written(tables, waves)[t] = row
  /\ \A l \in Messages \ {m, t} : /\ Written(ledger, waves)[l] = ledger[l]
                                /\ Written(tables, waves)[l] = tables[l]

\* A row a new report may have.
Reporting(rep) ==
  /\ rep \in MailRow /\ rep.status = "queued" /\ rep.kind = "report" /\ rep.to = Desk
  /\ ledger[rep.thread] # NoMail

\* A report is submitted, and its task consumed.
LEMMA SubmitConsume ==
  ASSUME MailOK(ledger, tables), NEW m \in Messages, ledger[m] = NoMail,
         NEW rep, Reporting(rep),
         NEW t \in Messages, tables[t].kind = "task", tables[t].status = "leased"
  PROVE  Writes(Submit(m, rep) \o Consume(t, tables[t]), m, rep, t, Settled(tables[t], "consumed"))
<1> DEFINE L1 == Submitted(ledger, m, rep)
           T1 == Submitted(tables, m, rep)
           w1 == Coming(m, rep)
           w2 == Event(m, rep)
           r == Settled(tables[t], "consumed")
           w3 == Event(t, r)
<1>0. tables[t] # NoMail /\ ledger[t] # NoMail /\ t # m
  BY RowKept, KeptSame DEF NoMail
<1>1. /\ Submit(m, rep) = <<w1, w2>>
      /\ GoodWave(w1, ledger, tables)
      /\ GoodWave(w2, After(ledger, w1), After(tables, w1))
      /\ MailOK(L1, T1)
      /\ After(After(ledger, w1), w2) = L1 /\ After(After(tables, w1), w2) = T1
      /\ L1[m] = rep /\ T1[m] = rep
      /\ \A l \in Messages \ {m} : L1[l] = ledger[l] /\ T1[l] = tables[l]
  BY SubmitOK DEF Reporting
<1>2. T1[t] = tables[t]
  BY <1>0, <1>1
<1>3. w3 = Event(t, Settled(T1[t], "consumed")) /\ r = Settled(T1[t], "consumed")
  BY <1>2
<1> HIDE DEF L1, T1, w1, w2, w3, r
<1>4. /\ GoodWave(w3, L1, T1) /\ After(L1, w3)[t] = r /\ After(T1, w3)[t] = r
      /\ \A l \in Messages \ {t} : After(L1, w3)[l] = L1[l] /\ After(T1, w3)[l] = T1[l]
  <2>1. T1[t].kind # "none" /\ T1[t].status \in {"none", "queued", "leased"}
    BY <1>2
  <2> QED
    BY <1>1, <1>3, <2>1, SettleOK
<1>5. GoodWave(w3, After(After(ledger, w1), w2), After(After(tables, w1), w2))
  BY <1>1, <1>4
<1> DEFINE waves == <<w1, w2, w3>>
<1>6. /\ waves \in Seq({w1, w2, w3}) /\ GoodWaves(waves, ledger, tables)
      /\ Written(ledger, waves) = After(After(After(ledger, w1), w2), w3)
      /\ Written(tables, waves) = After(After(After(tables, w1), w2), w3)
  BY <1>1, <1>5, ThreeWaves
<1>7. Consume(t, tables[t]) = <<w3>>
  BY DEF Consume, w3, r
<1>8. Submit(m, rep) \o Consume(t, tables[t]) = waves
  BY <1>1, <1>7, Cat
<1> HIDE DEF waves
<1>9. Writes(waves, m, rep, t, r)
  BY <1>0, <1>1, <1>4, <1>6 DEF Writes
<1> QED
  BY <1>8, <1>9 DEF r

\* A report is submitted.
LEMMA SubmitOnly ==
  ASSUME MailOK(ledger, tables), NEW m \in Messages, ledger[m] = NoMail,
         NEW rep, Reporting(rep),
         NEW t \in Messages, tables[t].kind = "task"
  PROVE  LET waves == Submit(m, rep)
         IN  /\ \E S : waves \in Seq(S)
             /\ GoodWaves(waves, ledger, tables)
             /\ Written(ledger, waves)[m] = rep /\ Written(tables, waves)[m] = rep
             /\ \A l \in Messages \ {m} : /\ Written(ledger, waves)[l] = ledger[l]
                                        /\ Written(tables, waves)[l] = tables[l]
<1> DEFINE L1 == Submitted(ledger, m, rep)
           T1 == Submitted(tables, m, rep)
           w1 == Coming(m, rep)
           w2 == Event(m, rep)
<1>1. /\ Submit(m, rep) = <<w1, w2>>
      /\ GoodWave(w1, ledger, tables)
      /\ GoodWave(w2, After(ledger, w1), After(tables, w1))
      /\ After(After(ledger, w1), w2) = L1 /\ After(After(tables, w1), w2) = T1
      /\ L1[m] = rep /\ T1[m] = rep
      /\ \A l \in Messages \ {m} : L1[l] = ledger[l] /\ T1[l] = tables[l]
  BY SubmitOK DEF Reporting
<1> HIDE DEF L1, T1, w1, w2
<1> DEFINE waves == <<w1, w2>>
<1>2. /\ waves \in Seq({w1, w2}) /\ GoodWaves(waves, ledger, tables)
      /\ Written(ledger, waves) = L1 /\ Written(tables, waves) = T1
  BY <1>1, TwoWaves
<1> HIDE DEF waves
<1>3. Submit(m, rep) = waves
  BY <1>1 DEF waves
<1> QED
  BY <1>1, <1>2, <1>3

\* A task goes stale, and a report is submitted.
LEMMA StaleSubmit ==
  ASSUME MailOK(ledger, tables), NEW m \in Messages, ledger[m] = NoMail,
         NEW rep, Reporting(rep),
         NEW t \in Messages, tables[t].kind = "task", tables[t].status = "leased"
  PROVE  Writes(MarkStale(t, tables[t]) \o Submit(m, rep), m, rep, t, Settled(tables[t], "stale"))
<1> DEFINE r == Settled(tables[t], "stale")
           w1 == Event(t, r)
           L1 == After(ledger, w1)
           T1 == After(tables, w1)
           w2 == Coming(m, rep)
           w3 == Event(m, rep)
           L2 == Submitted(L1, m, rep)
           T2 == Submitted(T1, m, rep)
<1>0. tables[t] # NoMail /\ ledger[t] # NoMail /\ t # m
  BY RowKept, KeptSame DEF NoMail
<1>1. MarkStale(t, tables[t]) = <<w1>>
  BY DEF MarkStale, Open
<1>2. /\ GoodWave(w1, ledger, tables) /\ MailOK(L1, T1) /\ Kept(ledger, tables, L1, T1)
      /\ L1[t] = r /\ T1[t] = r
      /\ \A l \in Messages \ {t} : L1[l] = ledger[l] /\ T1[l] = tables[l]
  <2>1. tables[t].kind # "none" /\ tables[t].status \in {"none", "queued", "leased"}
    OBVIOUS
  <2>2. w1 = Event(t, Settled(tables[t], "stale"))
    OBVIOUS
  <2> HIDE DEF w1
  <2> QED
    BY <2>1, <2>2, SettleOK
<1>3. L1[m] = NoMail /\ (rep.thread = m \/ L1[rep.thread] # NoMail)
  <2>1. rep.thread \in Messages
    BY DEF Reporting, MailRow
  <2> HIDE DEF L1, T1
  <2> QED
    BY <1>0, <1>2, <2>1 DEF Reporting, Kept
<1> HIDE DEF L1, T1, r, w1
<1>4. /\ Submit(m, rep) = <<w2, w3>>
      /\ GoodWave(w2, L1, T1)
      /\ GoodWave(w3, After(L1, w2), After(T1, w2))
      /\ After(After(L1, w2), w3) = L2 /\ After(After(T1, w2), w3) = T2
      /\ L2[m] = rep /\ T2[m] = rep
      /\ \A l \in Messages \ {m} : L2[l] = L1[l] /\ T2[l] = T1[l]
  BY <1>2, <1>3, SubmitOK DEF Reporting
<1> HIDE DEF w2, w3, L2, T2
<1> DEFINE waves == <<w1, w2, w3>>
<1>5. /\ waves \in Seq({w1, w2, w3}) /\ GoodWaves(waves, ledger, tables)
      /\ Written(ledger, waves) = L2 /\ Written(tables, waves) = T2
  <2>1. /\ GoodWave(w2, After(ledger, w1), After(tables, w1))
        /\ GoodWave(w3, After(After(ledger, w1), w2), After(After(tables, w1), w2))
        /\ After(After(After(ledger, w1), w2), w3) = L2 /\ After(After(After(tables, w1), w2), w3) = T2
    BY <1>4 DEF L1, T1
  <2>2. GoodWave(w1, ledger, tables)
    BY <1>2
  <2> QED
    BY <2>1, <2>2, ThreeWaves
<1>6. MarkStale(t, tables[t]) \o Submit(m, rep) = waves
  <2>1. <<w1>> \o <<w2, w3>> = <<w1, w2, w3>>
    BY Cat
  <2> QED
    BY <1>1, <1>4, <2>1
<1> HIDE DEF waves
<1>7. Writes(waves, m, rep, t, r)
  BY <1>0, <1>2, <1>4, <1>5 DEF Writes
<1> QED
  BY <1>6, <1>7 DEF r

\* The report on a task.
LEMMA ReportIs ==
  ASSUME IInv, NEW t \in Messages, tables[t].kind = "task", ~ Refused(tables[t])
  PROVE  /\ Reporting(Report(t, tables[t]))
         /\ Report(t, tables[t]).parent = t
         /\ Report(t, tables[t]).revision >= tables[t].revision
         /\ tables[t] \in MailRow /\ SameMail(tables[t], ledger[t])
<1>1. tables[t] # NoMail /\ SameMail(tables[t], ledger[t]) /\ ledger[t] # NoMail
  BY RowKept, KeptSame DEF IInv
<1>2. tables[t] \in MailRow /\ ledger[tables[t].thread] # NoMail
  BY <1>1 DEF IInv, MailOK, SameMail
<1>3. revision \in 1 .. MaxRevision /\ 0 \in 0 .. MaxRevision /\ Desk \in Mailboxes
  BY HelpersOK, VirtualMailAssumption DEF IInv, TypeOK, MailTypeOK
<1>4. tables[t].thread \in Messages /\ tables[t].revision \in 1 .. MaxRevision
  BY <1>2 DEF MailRow
<1> DEFINE rev == IF Stale(tables[t]) THEN revision ELSE tables[t].revision
           rep == Report(t, tables[t])
<1>5. rev \in 1 .. MaxRevision /\ rev >= tables[t].revision
  BY <1>3, <1>4 DEF Stale
<1>6. rep = [kind |-> "report", to |-> Desk, thread |-> tables[t].thread, parent |-> t,
             revision |-> rev, status |-> "queued", owner |-> 0]
  BY DEF Report, Posted
<1> HIDE DEF rev, rep
<1>7. rep \in MailRow
  BY <1>3, <1>4, <1>5, <1>6 DEF MailRow
<1>8. Reporting(rep)
  BY <1>2, <1>6, <1>7 DEF Reporting
<1> QED
  BY <1>1, <1>2, <1>5, <1>6, <1>8 DEF rep

\* A call may have the report on its own task.
LEMMA ReportedOK ==
  ASSUME IInv, MailStep, NEW c \in Calls, calls[c] # NoCall, calls[c].at # "next",
         ~ Refused(tables[calls[c].task]),
         NEW m \in Messages, ledger'[m] = Report(calls[c].task, tables[calls[c].task]),
         tables'[m] = ledger'[m],
         NEW rest \in Call, CallOK(rest, ledger', tables', runs'), rest.at = "next",
         rest.by = calls[c].by, rest.task = calls[c].task, rest.own = calls[c].own
  PROVE  /\ Reported(rest, m) \in Call /\ CallOK(Reported(rest, m), ledger', tables', runs')
         /\ InHand(Reported(rest, m)) = InHand(rest)
<1> DEFINE t == calls[c].task
           new == [rest EXCEPT !.reports = @ \union {m}]
<1>1. CASE rest.task # rest.own
  BY <1>1 DEF Reported
<1>2. CASE rest.task = rest.own
  <2>1. CallOK(calls[c], ledger, tables, runs)
    BY DEF IInv, CallsOK
  <2>2. t \in Messages /\ tables[t].kind = "task" /\ t # 0
    BY <2>1, VirtualMailAssumption DEF CallOK, IsTask
  <2>3. calls[c].own = t /\ calls[c].by # 0 /\ ledger[t].revision = calls[c].by
    BY <1>2, <2>1, <2>2 DEF CallOK
  <2>4. /\ Reporting(Report(t, tables[t])) /\ Report(t, tables[t]).parent = t
        /\ Report(t, tables[t]).revision >= tables[t].revision
        /\ SameMail(tables[t], ledger[t])
    BY <2>2, ReportIs
  <2>5. ledger'[t].kind = "task" /\ ledger'[t].revision = calls[c].by
    <3>1. ledger[t] # NoMail /\ SameMail(tables[t], ledger[t])
      BY <2>2, RowKept, KeptSame DEF IInv
    <3>2. SameMail(ledger'[t], ledger[t])
      BY <2>2, <3>1 DEF MailStep, Kept
    <3> QED
      BY <2>2, <2>3, <3>1, <3>2 DEF SameMail
  <2>6. AnswersTurn(m, rest.by, ledger', tables')
    <3>1. ledger'[m].revision >= rest.by
      BY <2>3, <2>4 DEF SameMail
    <3>2. ledger'[m].parent = t /\ tables'[m].kind = "report"
      BY <2>4 DEF Reporting
    <3> QED
      BY <2>2, <2>5, <3>1, <3>2 DEF AnswersTurn
  <2>7. rest.by # 0 /\ Reported(rest, m) = new
    BY <1>2, <2>3 DEF Reported
  <2>8. new \in Call /\ CallOK(new, ledger', tables', runs')
    BY <2>6, <2>7, MoreOK
  <2>9. InHand(new) = InHand(rest)
    BY DEF InHand, Call
  <2> HIDE DEF new
  <2> QED
    BY <2>7, <2>8, <2>9
<1> QED
  BY <1>1, <1>2

\* The report of a run cannot be posted.
LEMMA ReportFailsStep ==
  ASSUME IInv, NEW c \in Calls, ReportFails(c)
  PROVE  Step
<1> DEFINE t == calls[c].task
           row == tables[t]
           rest == [calls[c] EXCEPT !.at = "next"]
<1>1. PICK thrown \in BOOLEAN :
        /\ ledger' = Written(ledger, Staled(t, row, thrown))
        /\ Appended(Staled(t, row, thrown))
        /\ tables' = [tables EXCEPT ![t] = Settled(@, "blocked")]
        /\ runs' = IF thrown
                   THEN [runs EXCEPT ![RunOf(t)].status = RunStatus(row, "failed")]
                   ELSE runs
  BY DEF ReportFails, Appended
<1>2. /\ calls[c] # NoCall /\ calls[c].at # "next" /\ Mode[tables[t].to] # "worker"
      /\ Continue(c, Thrown(calls[c]))
  BY DEF ReportFails, At, Free
<1>3. /\ t \in Messages /\ tables[t] = ledger[t] /\ tables[t].status = "leased"
      /\ tables[t].kind = "task" /\ tables[t].to \in Agents /\ t \notin calls[c].batch
      /\ calls[c] \in Call /\ Writable(c, t)
  BY <1>2, WorkingOK
<1>4. /\ ledger' = ledger \/ ledger' = [ledger EXCEPT ![t] = Settled(@, "stale")]
      /\ ReplaysOK(replays', ledger')
  <2>0. MailOK(ledger, tables) /\ ReplaysOK(replays, ledger)
    BY DEF IInv
  <2>1. CASE Staled(t, row, thrown) = <<>>
    <3>1. <<>> \in Seq({}) /\ GoodWaves(<<>>, ledger, tables) /\ Appended(<<>>)
      BY <1>1, <2>1 DEF GoodWaves
    <3>2. ReplaysOK(replays', ledger')
      BY <2>0, <3>1, AppendedOK
    <3> QED
      BY <1>1, <2>0, <2>1, <3>2, WrittenNone DEF MailOK
  <2>2. CASE Staled(t, row, thrown) # <<>>
    <3> DEFINE w == Event(t, Settled(tables[t], "stale"))
    <3>1. Staled(t, row, thrown) = <<w>>
      BY <2>2 DEF Staled, MarkStale
    <3>2. GoodWave(w, ledger, tables)
      <4>1. tables[t].kind # "none" /\ tables[t].status \in {"none", "queued", "leased"}
        BY <1>3
      <4>2. w = Event(t, Settled(tables[t], "stale"))
        OBVIOUS
      <4> HIDE DEF w
      <4> QED
        BY <1>3, <2>0, <4>1, <4>2, SettleOK
    <3>3. Written(ledger, <<w>>) = After(ledger, w)
      <4> HIDE DEF w
      <4> QED
        BY <2>0, <3>2, OneWave
    <3>6. ReplaysOK(replays', ledger')
      <4>1. Appended(<<w>>)
        BY <1>1, <3>1
      <4> HIDE DEF w
      <4>2. <<w>> \in Seq({w}) /\ GoodWaves(<<w>>, ledger, tables)
        BY <2>0, <3>2, OneWave
      <4> QED
        BY <2>0, <4>1, <4>2, AppendedOK
    <3>4. After(ledger, w) = [l \in Messages |-> IF l = t THEN Settled(tables[t], "stale") ELSE ledger[l]]
      BY DEF After, Event
    <3>5. [ledger EXCEPT ![t] = Settled(@, "stale")]
            = [l \in Messages |-> IF l = t THEN Settled(tables[t], "stale") ELSE ledger[l]]
      BY <1>3, <2>0 DEF MailOK
    <3> QED
      BY <1>1, <3>1, <3>3, <3>4, <3>5, <3>6
  <2> QED
    BY <2>1, <2>2
<1>5. MailStep
  BY <1>1, <1>3, <1>4, BlockedOK
<1>6. \A m \in Messages \ {t} : tables'[m] = tables[m] /\ ledger'[m] = ledger[m]
  BY <1>1, <1>4 DEF IInv, MailOK
<1>7. \A m \in calls[c].batch : tables'[m] = tables[m] /\ ledger'[m] = ledger[m]
  BY <1>3, <1>6 DEF Call
<1>8. /\ runs' \in Seq(Run) /\ DOMAIN runs' = DOMAIN runs
      /\ \A i \in DOMAIN runs : /\ runs'[i].task = runs[i].task
                               /\ runs'[i].thread = runs[i].thread
                               /\ runs'[i].target = runs[i].target
  <2>1. runs \in Seq(Run)
    BY DEF IInv, TypeOK
  <2>2. RunStatus(row, "failed") \in {"running", "completed", "failed", "stale"}
    BY DEF RunStatus
  <2> DEFINE i == RunOf(t)
             s == RunStatus(row, "failed")
             ended == WithStatus(i, s)
  <2> HIDE DEF i, s
  <2>3. /\ ended \in Seq(Run) /\ DOMAIN ended = DOMAIN runs
        /\ \A j \in DOMAIN runs : /\ ended[j].task = runs[j].task
                                  /\ ended[j].thread = runs[j].thread
                                  /\ ended[j].target = runs[j].target
    BY <2>1, <2>2, RunsSettled DEF s
  <2>4. runs' = ended \/ runs' = runs
    BY <1>1 DEF i, s, WithStatus
  <2> HIDE DEF ended
  <2> QED
    BY <2>1, <2>3, <2>4
<1> HIDE DEF t, row
<1>9. rest \in Call /\ CallOK(rest, ledger', tables', runs') /\ InHand(rest) \subseteq InHand(calls[c])
  BY <1>2, <1>5, <1>7, <1>8, EndedOK DEF t
<1>10. \A m \in Messages : Writable(c, m) \/ (tables'[m] = tables[m] /\ ledger'[m] = ledger[m])
  BY <1>3, <1>6
<1>11. Thrown(calls[c]) \in {NoCall, rest}
  BY ThrownIs
<1> HIDE DEF rest
<1> QED
  BY <1>2, <1>5, <1>8, <1>9, <1>10, <1>11, CallStepOK

\* What the end of a run writes: the report, and that its task is settled.
Ending(m, t, row, thrown) ==
  Staled(t, row, thrown) \o Submit(m, Report(t, row))
    \o (IF Staled(t, row, thrown) = <<>> /\ Open(row) THEN Consume(t, row) ELSE <<>>)

\* The report on a task and its settling are good waves.
LEMMA EndingOK ==
  ASSUME MailOK(ledger, tables), NEW m \in Messages, ledger[m] = NoMail, NEW t \in Messages,
         tables[t].kind = "task", tables[t].status = "leased",
         Reporting(Report(t, tables[t])), NEW thrown
  PROVE  \E s \in {"consumed", "stale"} :
           Writes(Ending(m, t, tables[t], thrown), m, Report(t, tables[t]), t, Settled(tables[t], s))
<1> DEFINE row == tables[t]
           rep == Report(t, row)
           marked == Staled(t, row, thrown)
           waves == Ending(m, t, row, thrown)
           sub == Submit(m, rep)
           w1 == Coming(m, rep)
           w2 == Event(m, rep)
<1>0. /\ waves = marked \o sub \o (IF marked = <<>> /\ Open(row) THEN Consume(t, row) ELSE <<>>)
      /\ sub = <<w1, w2>> /\ Open(row)
  BY DEF Ending, Submit, Coming, Open
<1> HIDE DEF waves
<1>1. CASE marked = <<>>
  <2>1. waves = (<<>> \o sub) \o Consume(t, row)
    BY <1>0, <1>1
  <2>2. <<>> \o sub = sub
    BY <1>0, Cat
  <2>3. Writes(sub \o Consume(t, row), m, rep, t, Settled(row, "consumed"))
    BY SubmitConsume
  <2>4. Writes(waves, m, rep, t, Settled(row, "consumed"))
    BY <2>1, <2>2, <2>3
  <2> QED
    BY <2>4 DEF waves
<1>2. CASE marked # <<>>
  <2> DEFINE w == Event(t, Settled(row, "stale"))
  <2>1. marked = MarkStale(t, row) /\ MarkStale(t, row) = <<w>>
    BY <1>0, <1>2 DEF Staled, MarkStale
  <2>2. waves = (MarkStale(t, row) \o sub) \o <<>>
    BY <1>0, <1>2, <2>1
  <2>3. Writes(MarkStale(t, row) \o sub, m, rep, t, Settled(row, "stale"))
    BY StaleSubmit
  <2>4. PICK S : MarkStale(t, row) \o sub \in Seq(S)
    BY <2>3 DEF Writes
  <2>5. (MarkStale(t, row) \o sub) \o <<>> = MarkStale(t, row) \o sub
    <3> DEFINE u == MarkStale(t, row) \o sub
    <3>1. u \in Seq(S)
      BY <2>4
    <3> HIDE DEF u
    <3>2. u \o <<>> = u
      BY <3>1
    <3> QED
      BY <3>2 DEF u
  <2>6. Writes(waves, m, rep, t, Settled(row, "stale"))
    BY <2>2, <2>3, <2>5
  <2> QED
    BY <2>6 DEF waves
<1> QED
  BY <1>1, <1>2

\* A run ends and is reported.
LEMMA RunEndsStep ==
  ASSUME IInv, NEW c \in Calls, RunEnds(c)
  PROVE  Step
<1> DEFINE t == calls[c].task
           row == tables[t]
           rest == [calls[c] EXCEPT !.at = "next"]
           rep == Report(t, row)
<1>1. PICK m \in Messages, thrown \in BOOLEAN, status \in {"completed", "failed"} :
        LET marked == Staled(t, row, thrown)
            waves == marked \o Submit(m, rep)
                       \o (IF marked = <<>> /\ Open(row) THEN Consume(t, row) ELSE <<>>)
            ended == [runs EXCEPT ![RunOf(t)].status = RunStatus(row, status)]
        IN  /\ NextMessage(m)
            /\ ~ Refused(row)
            /\ \/ Commit(waves, ended, c, Onward(Reported(calls[c], m)))
               \/ Torn(waves, ended)
  BY DEF RunEnds
<1> DEFINE marked == Staled(t, row, thrown)
           waves == marked \o Submit(m, rep)
                      \o (IF marked = <<>> /\ Open(row) THEN Consume(t, row) ELSE <<>>)
           i == RunOf(t)
           s == RunStatus(row, status)
           ended == WithStatus(i, s)
           new == Onward(Reported(calls[c], m))
<1>2. /\ calls[c] # NoCall /\ calls[c].at # "next" /\ Mode[tables[t].to] # "worker"
      /\ ledger[m] = NoMail /\ ~ Refused(row)
  BY <1>1 DEF RunEnds, At, Free, NextMessage
<1>3. /\ t \in Messages /\ tables[t] = ledger[t] /\ tables[t].status = "leased"
      /\ tables[t].kind = "task" /\ t \notin calls[c].batch
      /\ calls[c] \in Call /\ Writable(c, t)
      /\ \A l \in calls[c].batch : Takeable(c, l)
  BY <1>2, WorkingOK
<1>4. Reporting(rep) /\ MailOK(ledger, tables) /\ runs \in Seq(Run)
  BY <1>2, <1>3, ReportIs DEF IInv, TypeOK
<1>5. \E r : Writes(waves, m, rep, t, r)
  <2>1. waves = Ending(m, t, row, thrown)
    BY DEF Ending
  <2> HIDE DEF waves
  <2> QED
    BY <1>2, <1>3, <1>4, <2>1, EndingOK
<1>6. \/ Record(waves) /\ runs' = ended /\ Continue(c, new)
      \/ Torn(waves, runs)
      \/ Torn(waves, ended)
  BY <1>1 DEF Commit, WithStatus
<1>7. s \in {"running", "completed", "failed", "stale"}
  BY DEF RunStatus
<1> HIDE DEF t, row, rep, marked, waves, i, s, new
<1>8. /\ ended \in Seq(Run) /\ DOMAIN ended = DOMAIN runs
      /\ \A j \in DOMAIN runs : /\ ended[j].task = runs[j].task
                                /\ ended[j].thread = runs[j].thread
                                /\ ended[j].target = runs[j].target
  BY <1>4, <1>7, RunsSettled
<1> HIDE DEF ended
<1>9. PICK S : waves \in Seq(S)
  BY <1>5 DEF Writes
<1>10. GoodWaves(waves, ledger, tables)
  BY <1>5 DEF Writes
<1>11. CASE Torn(waves, runs) \/ Torn(waves, ended)
  BY <1>4, <1>8, <1>9, <1>10, <1>11, TornStep
<1>12. CASE Record(waves) /\ runs' = ended /\ Continue(c, new)
  <2>1. MailStep
    BY <1>4, <1>9, <1>10, <1>12, BlockOK DEF IInv
  <2>2. /\ ledger'[m] = rep /\ tables'[m] = rep
        /\ \A l \in Messages \ {m, t} : tables'[l] = tables[l] /\ ledger'[l] = ledger[l]
    BY <1>5, <1>12 DEF Writes, Record, Appended
  <2>3. \A l \in Messages : Writable(c, l) \/ (tables'[l] = tables[l] /\ ledger'[l] = ledger[l])
    BY <1>2, <1>3, <2>2 DEF Writable
  <2>4. tables[m] = NoMail
    BY <1>2, <1>4, RowKept, KeptSame
  <2>5. \A l \in calls[c].batch : tables'[l] = tables[l] /\ ledger'[l] = ledger[l]
    <3>1. \A l \in calls[c].batch : l \in Messages /\ l # t
      BY <1>3 DEF Call
    <3>2. m \notin calls[c].batch
      <4>1. m \in calls[c].batch => m \in Held(calls[c], tables)
        BY DEF Held
      <4> QED
        BY <1>2, <2>4, <4>1, HeldOK DEF IsTask, NoMail
    <3> QED
      BY <2>2, <3>1, <3>2
  <2>6. /\ rest \in Call /\ rest.at = "next" /\ rest.by = calls[c].by
        /\ CallOK(rest, ledger', tables', runs') /\ InHand(rest) \subseteq InHand(calls[c])
    BY <1>2, <1>8, <1>12, <2>1, <2>5, EndedOK DEF t
  <2>7. rest.task = calls[c].task /\ rest.own = calls[c].own
    BY <1>3 DEF Call
  <2> HIDE DEF rest
  <2>8. /\ Reported(rest, m) \in Call /\ CallOK(Reported(rest, m), ledger', tables', runs')
        /\ InHand(Reported(rest, m)) = InHand(rest)
    BY <1>2, <2>1, <2>2, <2>6, <2>7, ReportedOK DEF t, row, rep
  <2>9. new \in {NoCall, Reported(rest, m)}
    <3>1. new \in {NoCall, [Reported(calls[c], m) EXCEPT !.at = "next"]}
      BY ThrownIs DEF new
    <3>2. [Reported(calls[c], m) EXCEPT !.at = "next"] = Reported(rest, m)
      BY <1>3 DEF Reported, Call, rest
    <3> QED
      BY <3>1, <3>2
  <2> QED
    BY <1>2, <1>8, <1>12, <2>1, <2>3, <2>6, <2>8, <2>9, CallStepOK
<1> QED
  BY <1>6, <1>11, <1>12
-----------------------------------------------------------------------------
(* The workers *)

\* A worker ends.
LEMMA WorkerEndsStep ==
  ASSUME IInv, NEW c \in Calls, WorkerEnds(c)
  PROVE  Step
<1> DEFINE t == calls[c].task
           row == tables[t]
           rest == [calls[c] EXCEPT !.at = "next", !.batch = {}]
           rep == Report(t, row)
<1>1. /\ calls[c] # NoCall /\ calls[c].at # "next" /\ ~ Refused(row)
      /\ IF Stale(row)
         THEN Commit(MarkStale(t, row), runs, c, rest)
         ELSE \E m \in Messages :
                /\ NextMessage(m)
                /\ Commit(Submit(m, rep) \o (IF t \in calls[c].batch THEN Consume(t, row) ELSE <<>>),
                          runs, c, Reported(rest, m))
  BY DEF WorkerEnds, At, Free
<1>2. /\ calls[c] \in Call /\ CallOK(calls[c], ledger, tables, runs)
      /\ MailOK(ledger, tables) /\ runs \in Seq(Run)
  BY <1>1 DEF IInv, TypeOK, CallsOK
<1>3. t \in Messages /\ tables[t].kind = "task" /\ Writable(c, t)
  BY <1>1, <1>2 DEF CallOK, IsTask, Writable, Mine, InHand
<1>4. /\ rest \in Call /\ rest.at = "next" /\ rest.by = calls[c].by /\ rest.own = calls[c].own
      /\ rest.todo = calls[c].todo /\ rest.reports = calls[c].reports
      /\ rest.batch = {} /\ rest.task = t
  BY <1>2 DEF Call
<1> HIDE DEF rest
<1>5. CallOK(rest, ledger, tables, runs) /\ Held(rest, tables) = {} /\ Unrun(rest) = {} /\ InHand(rest) = {}
  <2>1. InHand(rest) = {}
    BY <1>4 DEF InHand
  <2>2. CallOK(rest, ledger, tables, runs) /\ Held(rest, tables) = rest.batch /\ Unrun(rest) = rest.batch
    BY <1>2, <1>4, IdleOK
  <2> QED
    BY <1>4, <2>1, <2>2
<1> HIDE DEF t, row, rep

\* What the two cases come to.
<1>6. ASSUME NEW waves, NEW S, waves \in Seq(S), GoodWaves(waves, ledger, tables), NEW new,
             Commit(waves, runs, c, new),
             \A l \in Messages : \/ Writable(c, l)
                                 \/ /\ Written(tables, waves)[l] = tables[l]
                                    /\ Written(ledger, waves)[l] = ledger[l],
             Record(waves) /\ MailStep /\ runs' = runs /\ CallOK(rest, ledger', tables', runs') =>
               new \in Call /\ CallOK(new, ledger', tables', runs') /\ InHand(new) = InHand(rest)
      PROVE  Step
  <2>1. CASE Torn(waves, runs)
    BY <1>2, <1>6, <2>1, TornStep
  <2>2. CASE Record(waves) /\ runs' = runs /\ Continue(c, new)
    <3>1. MailStep
      BY <1>2, <1>6, <2>2, BlockOK DEF IInv
    <3>2. CallOK(rest, ledger', tables', runs')
      <4>1. MailOK(ledger', tables') /\ Kept(ledger, tables, ledger', tables')
        BY <3>1 DEF MailStep
      <4>2. /\ \A m \in Held(rest, tables) : tables'[m] = tables[m] /\ ledger'[m] = ledger[m]
            /\ \A m \in Unrun(rest) : NotRun(m, runs')
        BY <1>5
      <4> QED
        BY <1>2, <1>4, <1>5, <4>1, <4>2, CallKept
    <3>3. new \in Call /\ CallOK(new, ledger', tables', runs') /\ InHand(new) \subseteq InHand(calls[c])
      BY <1>5, <1>6, <2>2, <3>1, <3>2
    <3>4. \A l \in Messages : Writable(c, l) \/ (tables'[l] = tables[l] /\ ledger'[l] = ledger[l])
      BY <1>6, <2>2 DEF Record, Appended
    <3> QED
      BY <1>1, <1>2, <2>2, <3>1, <3>3, <3>4, CallStepOK
  <2> QED
    BY <1>6, <2>1, <2>2 DEF Commit
<1>7. CASE Stale(row)
  <2> DEFINE w == Event(t, Settled(row, "stale"))
  <2>1. Commit(MarkStale(t, row), runs, c, rest)
    BY <1>1, <1>7
  <2>2. CASE Open(row)
    <3>1. MarkStale(t, row) = <<w>>
      BY <2>2 DEF MarkStale
    <3>2. /\ GoodWave(w, ledger, tables)
          /\ \A l \in Messages \ {t} : After(ledger, w)[l] = ledger[l] /\ After(tables, w)[l] = tables[l]
      <4>1. /\ tables[t].kind # "none"
            /\ tables[t].status \in {"none", "queued", "leased"} \/ tables[t].status = "blocked"
        BY <1>3, <2>2 DEF Open, row
      <4>2. w = Event(t, Settled(tables[t], "stale"))
        BY DEF row
      <4> HIDE DEF w
      <4> QED
        BY <1>2, <1>3, <4>1, <4>2, SettleOK
    <3> HIDE DEF w
    <3>3. /\ <<w>> \in Seq({w}) /\ GoodWaves(<<w>>, ledger, tables)
          /\ Written(ledger, <<w>>) = After(ledger, w) /\ Written(tables, <<w>>) = After(tables, w)
      BY <1>2, <3>2, OneWave
    <3>4. \A l \in Messages : \/ Writable(c, l)
                              \/ /\ Written(tables, <<w>>)[l] = tables[l]
                                 /\ Written(ledger, <<w>>)[l] = ledger[l]
      BY <1>3, <3>2, <3>3
    <3>5. Commit(<<w>>, runs, c, rest)
      BY <2>1, <3>1
    <3> QED
      BY <1>4, <1>6, <3>3, <3>4, <3>5
  <2>3. CASE ~ Open(row)
    <3>1. Commit(<<>>, runs, c, rest)
      BY <2>1, <2>3 DEF MarkStale
    <3>2. Written(ledger, <<>>) = ledger /\ Written(tables, <<>>) = tables
      BY <1>2, WrittenNone DEF MailOK
    <3>3. <<>> \in Seq({}) /\ GoodWaves(<<>>, ledger, tables)
      BY DEF GoodWaves
    <3> QED
      BY <1>4, <1>6, <3>1, <3>2, <3>3
  <2> QED
    BY <2>2, <2>3
<1>8. CASE ~ Stale(row)
  <2>1. PICK m \in Messages :
          /\ NextMessage(m)
          /\ Commit(Submit(m, rep) \o (IF t \in calls[c].batch THEN Consume(t, row) ELSE <<>>),
                    runs, c, Reported(rest, m))
    BY <1>1, <1>8
  <2>2. ledger[m] = NoMail /\ Reporting(rep)
    BY <1>1, <1>3, <2>1, ReportIs DEF NextMessage, row, rep
  <2> DEFINE sub == Submit(m, rep)
             waves == sub \o (IF t \in calls[c].batch THEN Consume(t, row) ELSE <<>>)
  <2>3. /\ \E S : waves \in Seq(S)
        /\ GoodWaves(waves, ledger, tables)
        /\ Written(ledger, waves)[m] = rep /\ Written(tables, waves)[m] = rep
        /\ \A l \in Messages \ {m, t} : /\ Written(ledger, waves)[l] = ledger[l]
                                      /\ Written(tables, waves)[l] = tables[l]
    <3>1. CASE t \in calls[c].batch
      <4>1. tables[t].status = "leased"
        BY <1>1, <3>1, HeldOK DEF Held
      <4>2. Writes(sub \o Consume(t, row), m, rep, t, Settled(row, "consumed"))
        BY <1>2, <1>3, <2>2, <4>1, SubmitConsume DEF row
      <4> HIDE DEF sub
      <4> QED
        BY <3>1, <4>2 DEF Writes
    <3>2. CASE t \notin calls[c].batch
      <4>1. sub \o <<>> = sub
        BY Cat DEF Submit
      <4>2. /\ \E S : sub \in Seq(S)
            /\ GoodWaves(sub, ledger, tables)
            /\ Written(ledger, sub)[m] = rep /\ Written(tables, sub)[m] = rep
            /\ \A l \in Messages \ {m} : /\ Written(ledger, sub)[l] = ledger[l]
                                       /\ Written(tables, sub)[l] = tables[l]
        BY <1>2, <1>3, <2>2, SubmitOnly
      <4> HIDE DEF sub
      <4>3. waves = sub
        BY <3>2, <4>1
      <4> HIDE DEF waves
      <4> QED
        BY <4>2, <4>3
    <3> QED
      BY <3>1, <3>2
  <2>4. Commit(waves, runs, c, Reported(rest, m))
    BY <2>1
  <2> HIDE DEF waves
  <2>5. \A l \in Messages : \/ Writable(c, l)
                            \/ /\ Written(tables, waves)[l] = tables[l]
                               /\ Written(ledger, waves)[l] = ledger[l]
    BY <1>3, <2>2, <2>3 DEF Writable
  <2>6. ASSUME Record(waves), MailStep, runs' = runs, CallOK(rest, ledger', tables', runs')
        PROVE  /\ Reported(rest, m) \in Call /\ CallOK(Reported(rest, m), ledger', tables', runs')
               /\ InHand(Reported(rest, m)) = InHand(rest)
    <3>1. ledger'[m] = rep /\ tables'[m] = rep
      BY <2>3, <2>6 DEF Record, Appended
    <3> QED
      BY <1>1, <1>4, <2>6, <3>1, ReportedOK DEF t, row, rep
  <2>7. PICK S : waves \in Seq(S)
    BY <2>3
  <2> QED
    BY <1>6, <2>3, <2>4, <2>5, <2>6, <2>7
<1> QED
  BY <1>7, <1>8
-----------------------------------------------------------------------------
(* Collecting the reports *)

\* What is addressed to the desk is a report.
LEMMA DeskOK ==
  ASSUME MailOK(ledger, tables), NEW m \in Addressed(Desk)
  PROVE  m \in Messages /\ tables[m] \in MailRow /\ tables[m].kind = "report" /\ tables[m].to = Desk
<1>1. m \in Messages /\ tables[m].to = Desk
  BY DEF Addressed
<1>2. tables[m] # NoMail /\ tables[m] \in MailRow
  BY <1>1, HelpersOK, VirtualMailAssumption DEF MailOK, NoMail
<1>3. SameMail(tables[m], ledger[m]) /\ ledger[m] # NoMail
  BY <1>1, <1>2, RowKept, KeptSame
<1>4. tables[m].kind # "task"
  BY <1>1, <1>3, HelpersOK DEF MailOK, RowOK, SameMail
<1> QED
  BY <1>1, <1>2, <1>4 DEF MailRow

\* And a report is addressed to the desk, and is not blocked.
LEMMA ReportsOK ==
  ASSUME MailOK(ledger, tables), NEW m \in Messages, tables[m].kind = "report"
  PROVE  m \in Addressed(Desk) /\ tables[m].status \in {"none", "queued", "leased", "consumed", "stale"}
<1>1. tables[m] \in MailRow /\ SameMail(tables[m], ledger[m]) /\ ledger[m] # NoMail
  BY RowKept, KeptSame DEF MailOK, NoMail
<1>2. tables[m].to = Desk
  BY <1>1 DEF MailOK, RowOK, SameMail
<1>3. tables[m].status # "blocked"
  BY <1>2, HelpersOK DEF MailOK, RowOK
<1> QED
  BY <1>1, <1>2, <1>3 DEF Addressed, MailRow

\* A wave of deliveries that move on.
LEMMA MoveWave ==
  ASSUME NEW L, NEW T, MailOK(L, T), NEW w, DOMAIN w \subseteq Messages,
         \A m \in DOMAIN w :
           /\ T[m].kind # "none" /\ T[m].status \in {"none", "queued", "leased"}
           /\ \E s \in {"leased", "consumed", "stale"}, o \in 0 .. MaxRevision : w[m] = Move(T[m], s, o)
  PROVE  /\ GoodWave(w, L, T)
         /\ MailOK(After(L, w), After(T, w))
         /\ \A m \in DOMAIN w : SameMail(w[m], T[m])
         /\ \A m \in Messages : /\ After(L, w)[m] = IF m \in DOMAIN w THEN w[m] ELSE L[m]
                                /\ After(T, w)[m] = IF m \in DOMAIN w THEN w[m] ELSE T[m]
<1>1. ASSUME NEW m \in DOMAIN w
      PROVE  GoodWrite(L[m], T[m], w[m]) /\ L[w[m].thread] # NoMail /\ SameMail(w[m], T[m])
  <2>1. PICK s \in {"leased", "consumed", "stale"}, o \in 0 .. MaxRevision : w[m] = Move(T[m], s, o)
    OBVIOUS
  <2>2. /\ m \in Messages /\ T[m].kind # "none" /\ T[m].status \in {"none", "queued", "leased"}
    OBVIOUS
  <2>3. /\ GoodWrite(L[m], T[m], Move(T[m], s, o)) /\ L[Move(T[m], s, o).thread] # NoMail
        /\ SameMail(Move(T[m], s, o), T[m])
    BY <2>2, MoveOK
  <2> QED
    BY <2>1, <2>3
<1>2. GoodWave(w, L, T)
  BY <1>1 DEF GoodWave
<1> QED
  BY <1>1, <1>2, WholeWave DEF After

\* What a turn that collects leaves of its reports can be settled.
LEMMA ReachedOK ==
  ASSUME IInv, NEW c \in Calls, calls[c] # NoCall, NEW m \in Reached(c)
  PROVE  /\ m \in Messages /\ m \in Addressed(Desk)
         /\ Desked(m, calls[c].by).status \in {"none", "queued", "leased"}
<1>1. /\ m \in calls[c].reports
      /\ \A l \in Unobtainable(c) : m < l
      /\ IF Outdated(m, calls[c].by) THEN Open(Desked(m, calls[c].by)) ELSE tables[m].status # "consumed"
  BY DEF Reached
<1>2. calls[c] \in Call /\ CallOK(calls[c], ledger, tables, runs) /\ MailOK(ledger, tables)
  BY DEF IInv, TypeOK, CallsOK
<1>3. m \in Messages /\ tables[m].kind = "report" /\ m \in Nat
  BY <1>1, <1>2, VirtualMailAssumption DEF CallOK, AnswersTurn, Call
<1>4. m \in Addressed(Desk) /\ tables[m].status \in {"none", "queued", "leased", "consumed", "stale"}
      /\ tables[m] \in MailRow
  BY <1>2, <1>3, ReportsOK, DeskOK
<1> DEFINE row == Desked(m, calls[c].by)
<1>5. /\ row.status \in {"none", "queued", "leased", "consumed", "stale"}
      /\ row.status = "consumed" => tables[m].status = "consumed"
  BY <1>4 DEF Desked, Settled, Leased, MailRow
<1> HIDE DEF row
<1>6. CASE Outdated(m, calls[c].by)
  BY <1>1, <1>3, <1>4, <1>5, <1>6 DEF Open, row
<1>7. CASE ~ Outdated(m, calls[c].by)
  <2>1. m \notin Unobtainable(c)
    BY <1>1, <1>3
  <2>2. Consumable(row, calls[c].by)
    BY <1>1, <1>7, <2>1 DEF Unobtainable, row
  <2> QED
    BY <1>1, <1>3, <1>4, <1>5, <1>7, <2>2 DEF Consumable, row
<1> QED
  BY <1>6, <1>7

\* The three waves of collecting.
LEMMA CollectionOK ==
  ASSUME IInv, NEW c \in Calls, calls[c] # NoCall
  PROVE  /\ \E S : Collection(c) \in Seq(S)
         /\ GoodWaves(Collection(c), ledger, tables)
         /\ \A m \in Messages : \/ tables[m].kind = "report"
                                \/ /\ Written(ledger, Collection(c))[m] = ledger[m]
                                   /\ Written(tables, Collection(c))[m] = tables[m]
<1> DEFINE by == calls[c].by
           old == Superseded(by)
           new == QueuedFor(Desk) \ Superseded(by)
           w1 == [m \in old |-> Settled(tables[m], "stale")]
           w2 == [m \in new |-> Leased(tables[m], by)]
           w3 == [m \in Reached(c) |-> Settled(Desked(m, by), IF Outdated(m, by) THEN "stale" ELSE "consumed")]
           L1 == After(ledger, w1)
           T1 == After(tables, w1)
           L2 == After(L1, w2)
           T2 == After(T1, w2)
<1>0. MailOK(ledger, tables) /\ by \in 0 .. MaxRevision /\ 0 \in 0 .. MaxRevision
  BY VirtualMailAssumption DEF IInv, TypeOK, Call
<1>1. \A m \in old \union new : /\ m \in Messages /\ tables[m].kind = "report"
                                /\ tables[m].status \in {"queued", "leased"}
  BY <1>0, DeskOK DEF Superseded, QueuedFor
<1>2. DOMAIN w1 = old /\ \A m \in old : w1[m] = Move(tables[m], "stale", 0)
  BY DEF Settled, Move
<1>3. DOMAIN w2 = new /\ \A m \in new : w2[m] = Move(tables[m], "leased", by)
  BY DEF Leased, Move
<1>4. /\ DOMAIN w3 = Reached(c)
      /\ \A m \in Reached(c) : \E s \in {"consumed", "stale"} : w3[m] = Move(Desked(m, by), s, 0)
  BY DEF Settled, Move
<1>5. \A m \in Reached(c) : /\ m \in Messages /\ m \in Addressed(Desk)
                            /\ Desked(m, by).status \in {"none", "queued", "leased"}
  BY ReachedOK
<1>6. \A m \in Messages : Desked(m, by) = IF m \in old THEN w1[m] ELSE IF m \in new THEN w2[m] ELSE tables[m]
  BY DEF Desked
<1>7. Collection(c) = <<w1, w2, w3>>
  BY DEF Collection
<1>8. old \intersect new = {}
  OBVIOUS
<1> HIDE DEF by, old, new, w1, w2, w3
<1>9. /\ GoodWave(w1, ledger, tables) /\ MailOK(L1, T1)
      /\ \A m \in old : SameMail(w1[m], tables[m])
      /\ \A m \in Messages : /\ L1[m] = IF m \in old THEN w1[m] ELSE ledger[m]
                             /\ T1[m] = IF m \in old THEN w1[m] ELSE tables[m]
  <2>1. DOMAIN w1 \subseteq Messages
    BY <1>1, <1>2
  <2>2. \A m \in DOMAIN w1 :
           /\ tables[m].kind # "none" /\ tables[m].status \in {"none", "queued", "leased"}
           /\ \E s \in {"leased", "consumed", "stale"}, o \in 0 .. MaxRevision : w1[m] = Move(tables[m], s, o)
    BY <1>0, <1>1, <1>2
  <2> QED
    BY <1>0, <1>2, <2>1, <2>2, MoveWave
<1> HIDE DEF L1, T1
<1>10. /\ GoodWave(w2, L1, T1) /\ MailOK(L2, T2)
       /\ \A m \in new : SameMail(w2[m], T1[m])
       /\ \A m \in Messages : /\ L2[m] = IF m \in new THEN w2[m] ELSE L1[m]
                              /\ T2[m] = IF m \in new THEN w2[m] ELSE T1[m]
  <2>1. DOMAIN w2 \subseteq Messages
    BY <1>1, <1>3
  <2>2. \A m \in new : T1[m] = tables[m]
    BY <1>1, <1>8, <1>9
  <2>3. \A m \in DOMAIN w2 :
           /\ T1[m].kind # "none" /\ T1[m].status \in {"none", "queued", "leased"}
           /\ \E s \in {"leased", "consumed", "stale"}, o \in 0 .. MaxRevision : w2[m] = Move(T1[m], s, o)
    BY <1>0, <1>1, <1>3, <2>2
  <2> QED
    BY <1>3, <1>9, <2>1, <2>3, MoveWave
<1> HIDE DEF L2, T2
<1>11. \A m \in Messages : /\ T2[m] = Desked(m, by)
                           /\ m \notin old \union new => L2[m] = ledger[m] /\ T2[m] = tables[m]
  BY <1>6, <1>8, <1>9, <1>10
<1>12. \A m \in Reached(c) : tables[m].kind = "report" /\ T2[m].kind = "report"
  <2> TAKE m \in Reached(c)
  <2>1. m \in Messages /\ tables[m].kind = "report"
    BY <1>0, <1>5, DeskOK
  <2>2. \/ m \in old /\ T2[m] = w1[m]
        \/ m \in new /\ T2[m] = w2[m] /\ T1[m] = tables[m]
        \/ T2[m] = tables[m]
    BY <1>8, <1>9, <1>10, <2>1
  <2> QED
    BY <1>9, <1>10, <2>1, <2>2 DEF SameMail
<1>13. /\ GoodWave(w3, L2, T2)
       /\ \A m \in Messages : /\ After(L2, w3)[m] = IF m \in Reached(c) THEN w3[m] ELSE L2[m]
                              /\ After(T2, w3)[m] = IF m \in Reached(c) THEN w3[m] ELSE T2[m]
  <2>1. DOMAIN w3 \subseteq Messages
    BY <1>4, <1>5
  <2>2. \A m \in DOMAIN w3 :
           /\ T2[m].kind # "none" /\ T2[m].status \in {"none", "queued", "leased"}
           /\ \E s \in {"leased", "consumed", "stale"}, o \in 0 .. MaxRevision : w3[m] = Move(T2[m], s, o)
    BY <1>0, <1>4, <1>5, <1>11, <1>12
  <2> QED
    BY <1>4, <1>10, <2>1, <2>2, MoveWave
<1> DEFINE waves == <<w1, w2, w3>>
<1>14. /\ waves \in Seq({w1, w2, w3}) /\ GoodWaves(waves, ledger, tables)
       /\ Written(ledger, waves) = After(L2, w3) /\ Written(tables, waves) = After(T2, w3)
  <2>1. /\ GoodWave(w2, After(ledger, w1), After(tables, w1))
        /\ GoodWave(w3, After(After(ledger, w1), w2), After(After(tables, w1), w2))
        /\ After(L2, w3) = After(After(After(ledger, w1), w2), w3)
        /\ After(T2, w3) = After(After(After(tables, w1), w2), w3)
    BY <1>10, <1>13 DEF L1, T1, L2, T2
  <2> QED
    BY <1>0, <1>9, <2>1, ThreeWaves
<1>15. \A m \in Messages : \/ tables[m].kind = "report"
                           \/ /\ Written(ledger, waves)[m] = ledger[m]
                              /\ Written(tables, waves)[m] = tables[m]
  BY <1>1, <1>11, <1>12, <1>13, <1>14
<1> QED
  BY <1>7, <1>14, <1>15

\* A turn collects the reports and is over.
LEMMA CollectStep ==
  ASSUME IInv, NEW c \in Calls, Collect(c)
  PROVE  Step
<1> DEFINE waves == IF calls[c].reports = {} THEN <<>> ELSE Collection(c)
<1>1. calls[c] # NoCall /\ Commit(waves, runs, c, NoCall)
  BY DEF Collect, At, Free
<1>2. MailOK(ledger, tables) /\ runs \in Seq(Run)
  BY DEF IInv, TypeOK
<1>3. /\ \E S : waves \in Seq(S)
      /\ GoodWaves(waves, ledger, tables)
      /\ \A m \in Messages : \/ tables[m].kind = "report"
                             \/ /\ Written(ledger, waves)[m] = ledger[m]
                                /\ Written(tables, waves)[m] = tables[m]
  <2>1. CASE calls[c].reports = {}
    <3>1. <<>> \in Seq({}) /\ GoodWaves(<<>>, ledger, tables)
      BY DEF GoodWaves
    <3>2. Written(ledger, <<>>) = ledger /\ Written(tables, <<>>) = tables
      BY <1>2, WrittenNone DEF MailOK
    <3>3. waves = <<>>
      BY <2>1
    <3> HIDE DEF waves
    <3> QED
      BY <3>1, <3>2, <3>3
  <2>2. CASE calls[c].reports # {}
    <3>1. waves = Collection(c)
      BY <2>2
    <3> HIDE DEF waves
    <3> QED
      BY <1>1, <3>1, CollectionOK
  <2> QED
    BY <2>1, <2>2
<1> HIDE DEF waves
<1>4. PICK S : waves \in Seq(S)
  BY <1>3
<1>5. CASE Torn(waves, runs)
  BY <1>2, <1>3, <1>4, <1>5, TornStep
<1>6. CASE Record(waves) /\ runs' = runs /\ Continue(c, NoCall)
  <2>1. MailStep
    BY <1>2, <1>3, <1>4, <1>6, BlockOK DEF IInv
  <2>2. \A m \in Messages : Writable(c, m) \/ (tables'[m] = tables[m] /\ ledger'[m] = ledger[m])
    BY <1>3, <1>6 DEF Record, Appended, Writable
  <2> QED
    BY <1>1, <1>2, <1>6, <2>1, <2>2, CallStepOK
<1> QED
  BY <1>1, <1>5, <1>6 DEF Commit
-----------------------------------------------------------------------------
(* The invariant *)

\* The invariant holds at the start.
LEMMA InitOK ==
  ASSUME Init
  PROVE  IInv
<1> USE DEF Init, MailInit
<1>1. \A m \in Messages : ledger[m] = NoMail /\ tables[m] = NoMail
  OBVIOUS
<1>2. MailOK(ledger, tables)
  <2>1. RowOK(NoMail, NoMail)
    BY DEF RowOK, NoMail, Taken
  <2> QED
    BY <1>1, <2>1 DEF MailOK
<1>3. TypeOK
  <2>1. revision \in 1 .. MaxRevision /\ turns \in 0 .. scenario.maxTurns /\ scenario \in Scenarios
    BY VirtualMailAssumption, SubAgentRunsAssumption
  <2> QED
    BY <2>1 DEF TypeOK, MailTypeOK
<1>4. CallsOK(calls, ledger, tables, runs) /\ RunsOK(ledger, tables, runs)
  BY DEF CallsOK, RunsOK
<1>5. ReplaysOK(replays, ledger)
  BY <1>2 DEF ReplaysOK, May
<1> QED
  BY <1>2, <1>3, <1>4, <1>5 DEF IInv

\* After a rebuild that the process died in, the mail is behind the ledger, and
\* no call is left.
LEMMA RebuildDiesOK ==
  ASSUME IInv, RebuildDies
  PROVE  IInv' /\ ledger' = ledger
<1>1. /\ May("torn_rebuild") /\ calls' = [c \in Calls |-> NoCall]
      /\ UNCHANGED <<ledger, replays, revision, runs, used, turns, scenario>>
      /\ \/ tables' = [m \in Messages |->
                         IF tables[m] = NoMail THEN NoMail ELSE Settled(tables[m], "none")]
         \/ tables' \in replays
  BY DEF RebuildDies, RebuildTorn
<1>2. MailOK(ledger, tables')
  <2>1. CASE tables' \in replays
    BY <2>1 DEF IInv, ReplaysOK
  <2>2. CASE tables' = [m \in Messages |->
                          IF tables[m] = NoMail THEN NoMail ELSE Settled(tables[m], "none")]
    <3>1. ASSUME NEW m \in Messages PROVE RowOK(ledger[m], tables'[m])
      <4>0. RowOK(ledger[m], tables[m]) /\ tables'[m] = IF tables[m] = NoMail THEN NoMail ELSE Settled(tables[m], "none")
        BY <2>2 DEF IInv, MailOK
      <4>1. CASE tables[m] = NoMail
        BY <1>1, <4>0, <4>1 DEF RowOK
      <4>2. CASE tables[m] # NoMail
        <5>1. tables[m] \in MailRow /\ 0 \in 0 .. MaxRevision
          BY <4>0, <4>2, VirtualMailAssumption DEF RowOK
        <5> DEFINE r == Settled(tables[m], "none")
        <5>2. r \in MailRow /\ SameMail(r, tables[m]) /\ r.status = "none"
          BY <5>1 DEF Settled, MailRow, SameMail
        <5> HIDE DEF r
        <5>3. SameMail(r, ledger[m]) /\ ~ Taken(r)
          BY <4>0, <4>2, <5>2 DEF RowOK, SameMail, Taken
        <5>4. tables'[m] = r
          BY <4>0, <4>2 DEF r
        <5> QED
          BY <1>1, <4>0, <5>2, <5>3, <5>4 DEF RowOK
      <4> QED
        BY <4>1, <4>2
    <3>2. tables' \in [Messages -> MailRow \union {NoMail}]
      <4>1. tables' = [m \in Messages |-> tables'[m]]
        BY <2>2
      <4> QED
        BY <3>1, <4>1 DEF RowOK
    <3> QED
      BY <3>1, <3>2 DEF IInv, MailOK
  <2> QED
    BY <1>1, <2>1, <2>2
<1>3. MailOK(ledger, tables)'
  BY <1>1, <1>2 DEF MailOK, RowOK, May
<1>4. CallsOK(calls, ledger, tables, runs)'
  BY <1>1 DEF CallsOK
<1>5. RunsOK(ledger, tables, runs)'
  BY <1>1 DEF IInv, RunsOK, RunOK, May
<1>6. ReplaysOK(replays, ledger)'
  BY <1>1 DEF IInv, ReplaysOK, MailOK, RowOK, May
<1>7. TypeOK'
  BY <1>1, <1>3 DEF IInv, TypeOK, MailTypeOK, MailOK
<1> QED
  BY <1>1, <1>3, <1>4, <1>5, <1>6, <1>7 DEF IInv

\* Every other action is a step that keeps the mail, the calls and the runs.
LEMMA NextStep ==
  ASSUME IInv, Next, ~ RebuildDies
  PROVE  Step
<1>1. ASSUME NEW c \in Calls, StartTurn(c) PROVE Step
  BY <1>1, StartTurnStep
<1>2. ASSUME NEW c \in Calls, ApiDispatch(c) PROVE Step
  BY <1>2, ApiDispatchStep
<1>3. ASSUME NEW c \in Calls, Delegate(c) PROVE Step
  BY <1>3, DelegateStep
<1>4. ASSUME NEW c \in Calls, DelegateRefused(c) \/ WorkerFails(c) PROVE Step
  BY <1>4, LeaveStep
<1>5. ASSUME NEW c \in Calls, ApiContinues(c) PROVE Step
  BY <1>5, ApiContinuesStep
<1>6. ASSUME NEW c \in Calls, Spawned(c) PROVE Step
  BY <1>6, SpawnedStep
<1>7. ASSUME NEW c \in Calls, SpawnFails(c) PROVE Step
  BY <1>7, SpawnFailsStep
<1>8. ASSUME NEW c \in Calls, RunEnds(c) PROVE Step
  BY <1>8, RunEndsStep
<1>9. ASSUME NEW c \in Calls, ReportFails(c) PROVE Step
  BY <1>9, ReportFailsStep
<1>10. ASSUME NEW c \in Calls, WorkerEnds(c) PROVE Step
  BY <1>10, WorkerEndsStep
<1>11. ASSUME NEW c \in Calls, Collect(c) PROVE Step
  BY <1>11, CollectStep
<1>12. CASE ApiSubmit
  BY <1>12, ApiSubmitStep
<1>13. CASE MailArrives \/ PutBack
  BY <1>13, RoomStep DEF MailArrives, PutBack, NewMail, RoomPutBack
<1>14. CASE RebuildTables
  BY <1>14, RebuildStep
<1>15. CASE Crash
  BY <1>15, CrashStep
<1> QED
  BY <1>1, <1>2, <1>3, <1>4, <1>5, <1>6, <1>7, <1>8, <1>9, <1>10, <1>11, <1>12, <1>13, <1>14, <1>15
     DEF Next, CallStep

\* What a turn that collects uses: reports that are not outdated.
Using(c) ==
  {[turn |-> calls[c].by, room |-> revision, report |-> m] :
     m \in {l \in calls[c].reports : ~ Outdated(l, calls[c].by)}}

\* What has been used grows by what a reply that is collected uses.
LEMMA UsingIs ==
  ASSUME NEW c \in Calls, Collect(c)
  PROVE  /\ calls[c] # NoCall /\ calls[c].by # 0
         /\ used' = used \/ used' = used \union Using(c)
BY DEF Collect, ByTurn, Free, Using

\* What a step does to the rest.
LEMMA NextRest ==
  ASSUME IInv, Next
  PROVE  /\ UNCHANGED scenario /\ revision' \in 1 .. MaxRevision
         /\ turns' \in 0 .. scenario.maxTurns
         /\ used' # used => \E c \in Calls : Collect(c)
<1>1. revision \in 1 .. MaxRevision /\ MaxRevision \in Nat /\ turns \in 0 .. scenario.maxTurns
  BY VirtualMailAssumption DEF IInv, TypeOK, MailTypeOK
<1>2. scenario.maxTurns \in Nat
  BY SubAgentRunsAssumption DEF IInv, TypeOK
<1>3. ASSUME NEW c \in Calls, StartTurn(c)
      PROVE  UNCHANGED <<scenario, revision, used>> /\ turns' \in 0 .. scenario.maxTurns
  BY <1>1, <1>2, <1>3 DEF StartTurn
<1>4. ASSUME NEW c \in Calls, CallStep(c)
      PROVE  /\ UNCHANGED <<scenario, revision, turns>>
             /\ Collect(c) \/ UNCHANGED used
  BY <1>4 DEF CallStep, Delegate, DelegateRefused, ApiContinues, Spawned, SpawnFails, RunEnds,
              ReportFails, WorkerEnds, WorkerFails, Collect
<1>5. ASSUME NEW c \in Calls, ApiDispatch(c)
      PROVE  UNCHANGED <<scenario, revision, turns, used>>
  BY <1>5 DEF ApiDispatch
<1>6. CASE ApiSubmit \/ RebuildTables \/ RebuildDies \/ Crash
  BY <1>1, <1>6 DEF ApiSubmit, RebuildTables, Rebuild, RebuildDies, RebuildTorn, Crash
<1>7. CASE MailArrives \/ PutBack
  BY <1>1, <1>7 DEF MailArrives, PutBack, NewMail, RoomPutBack
<1> QED
  BY <1>1, <1>3, <1>4, <1>5, <1>6, <1>7 DEF Next

\* The invariant is inductive.
LEMMA NextOK ==
  ASSUME IInv, [Next]_vars
  PROVE  IInv'
<1>1. CASE Next
  <2>1. used' \subseteq [turn : 1 .. MaxRevision, room : 1 .. MaxRevision, report : Messages]
    <3>0. /\ used \subseteq [turn : 1 .. MaxRevision, room : 1 .. MaxRevision, report : Messages]
          /\ revision \in 1 .. MaxRevision
      BY DEF IInv, TypeOK, MailTypeOK
    <3>1. CASE used' = used
      BY <3>0, <3>1
    <3>2. CASE used' # used
      <4>1. PICK c \in Calls : Collect(c)
        BY <1>1, <3>2, NextRest
      <4>2. used' = used \union Using(c) /\ calls[c] # NoCall /\ calls[c].by # 0
        BY <3>2, <4>1, UsingIs
      <4>3. calls[c].reports \subseteq Messages /\ calls[c].by \in 1 .. MaxRevision
        BY <4>2, VirtualMailAssumption DEF IInv, TypeOK, Call
      <4> QED
        BY <3>0, <4>2, <4>3 DEF Using
    <3> QED
      BY <3>1, <3>2
  <2> QED
    BY <1>1, <2>1, NextStep, NextRest, StepOK, RebuildDiesOK
<1>2. CASE UNCHANGED vars
  <2>1. Step
    BY <1>2, RoomStep DEF vars
  <2>2. /\ UNCHANGED scenario /\ revision' \in 1 .. MaxRevision /\ turns' \in 0 .. scenario.maxTurns
        /\ used' \subseteq [turn : 1 .. MaxRevision, room : 1 .. MaxRevision, report : Messages]
    BY <1>2 DEF vars, IInv, TypeOK, MailTypeOK
  <2> QED
    BY <2>1, <2>2, StepOK
<1> QED
  BY <1>1, <1>2

\* In every reachable state, for all constants that the assumptions admit, the mail,
\* the calls and the runs fit together: the invariant the other theorems rest on.
THEOREM Invariance == Spec => []IInv
<1>1. Init => IInv
  BY InitOK
<1>2. IInv /\ [Next]_vars => IInv'
  BY NextOK
<1> QED
  BY <1>1, <1>2, PTL DEF Spec

-----------------------------------------------------------------------------
(* What follows *)

\* Messages, calls, runs and what turns have used are always what they are
\* declared to be.
THEOREM TypeCorrect == Spec => []TypeOK
<1>1. IInv => TypeOK
  BY DEF IInv
<1> QED
  BY <1>1, Invariance, PTL

\* No task is run twice, for any number of calls, messages and helpers.
THEOREM NoTaskRunsTwice == Spec => []TaskRunsOnce
<1>1. IInv => TaskRunsOnce
  BY DEF IInv, RunsOK, TaskRunsOnce
<1> QED
  BY <1>1, Invariance, PTL

\* The tables can be rebuilt from the ledger at any time.
THEOREM RebuildIsSafe == Spec => []RebuildTakesNothingBack
<1>1. IInv => RebuildTakesNothingBack
  BY DEF IInv, MailOK, RowOK, RebuildTakesNothingBack
<1> QED
  BY <1>1, Invariance, PTL

\* Mail only moves on, in every step: of a call, of the API, of a rebuild, and
\* of a crash in the middle of an append.
THEOREM MailIsKept == Spec => MailMovesOn
<1>1. ASSUME IInv, Next PROVE MovesOn
  <2>0. ~ May("torn_rebuild") => ~ RebuildDies
    BY DEF RebuildDies
  <2> SUFFICES ASSUME ~ May("torn_rebuild") PROVE MovesOn
    BY DEF MovesOn
  <2>1. /\ MailOK(ledger, tables) /\ MailOK(ledger', tables')
        /\ Kept(ledger, tables, ledger', tables')
    BY <1>1, <2>0, NextStep DEF Step, MailStep, IInv
  <2>2. ASSUME NEW m \in Messages
        PROVE  /\ tables[m] # NoMail => SameMail(tables'[m], tables[m])
               /\ tables[m].status \notin {"none", "queued"} => Taken(tables[m])
    BY <2>1, RowKept DEF MailOK, MailRow, NoMail, Taken
  <2> QED
    BY <2>1, <2>2 DEF MovesOn, Kept, SameMail, Taken
<1>2. IInv /\ [Next]_vars => [MovesOn]_vars
  BY <1>1
<1> QED
  BY <1>2, Invariance, PTL DEF Spec, MailMovesOn

\* What a turn has used: a report of the turn's own revision, on a task of it.
UsedOK ==
  \A u \in used :
    /\ u.room <= u.turn
    /\ ledger[u.report] # NoMail /\ ledger[u.report].revision = u.turn
    /\ ledger[u.report].parent \in Messages
    /\ ledger[ledger[u.report].parent].kind = "task"
    /\ ledger[ledger[u.report].parent].revision = u.turn

\* What a reply uses is of its turn's revision, and answers a task of it.
LEMMA UsingOK ==
  ASSUME IInv, NEW c \in Calls, calls[c] # NoCall, calls[c].by # 0, NEW u \in Using(c)
  PROVE  /\ u.room <= u.turn /\ u.report \in Messages
         /\ ledger[u.report] # NoMail /\ ledger[u.report].revision = u.turn
         /\ ledger[u.report].parent \in Messages
         /\ ledger[ledger[u.report].parent].kind = "task"
         /\ ledger[ledger[u.report].parent].revision = u.turn
<1>1. PICK m \in calls[c].reports : /\ ~ Outdated(m, calls[c].by)
                                    /\ u = [turn |-> calls[c].by, room |-> revision, report |-> m]
  BY DEF Using
<1>2. calls[c] \in Call /\ CallOK(calls[c], ledger, tables, runs) /\ MailOK(ledger, tables)
      /\ revision \in 1 .. MaxRevision /\ MaxRevision \in Nat
  BY VirtualMailAssumption DEF IInv, TypeOK, MailTypeOK, CallsOK
<1>3. AnswersTurn(m, calls[c].by, ledger, tables) /\ m \in Messages /\ calls[c].by \in 0 .. MaxRevision
  BY <1>2 DEF CallOK, Call
<1>4. tables[m] \in MailRow /\ SameMail(tables[m], ledger[m]) /\ ledger[m] # NoMail
  BY <1>2, <1>3, RowKept, KeptSame DEF AnswersTurn, MailOK, NoMail
<1>5. revision <= calls[c].by /\ tables[m].revision <= calls[c].by /\ tables[m].revision \in 1 .. MaxRevision
  BY <1>1, <1>2, <1>3, <1>4 DEF Outdated, MailRow
<1>6. ledger[m].revision = calls[c].by
  BY <1>2, <1>3, <1>4, <1>5 DEF AnswersTurn, SameMail
<1> QED
  BY <1>1, <1>3, <1>4, <1>5, <1>6 DEF AnswersTurn

\* No reply contains a stale report: what a turn uses is of its own revision,
\* answers a task of that revision, and the room has not moved past it.
THEOREM UsedReportsAreCurrent == Spec => []UsedReportIsCurrent
<1>1. Init => UsedOK
  BY DEF Init, UsedOK
<1>2. ASSUME IInv, UsedOK, [Next]_vars
      PROVE  UsedOK'
  <2>1. CASE Next
    <3>1. /\ \A m \in Messages : ledger[m] # NoMail => SameMail(ledger'[m], ledger[m]) /\ ledger'[m] # NoMail
          /\ \A m \in Messages : ledger[m].kind # "none" => ledger[m] # NoMail
      <4>1. CASE RebuildDies
        <5>1. ledger' = ledger
          BY <1>2, <4>1, RebuildDiesOK
        <5> QED
          BY <5>1 DEF SameMail, NoMail
      <4>2. CASE ~ RebuildDies
        BY <1>2, <2>1, <4>2, NextStep DEF Step, MailStep, Kept, NoMail
      <4> QED
        BY <4>1, <4>2
    <3>2. \A u \in used : u.report \in Messages
      BY <1>2 DEF IInv, TypeOK
    <3>3. ASSUME NEW u \in used'
          PROVE  /\ u.room <= u.turn /\ u.report \in Messages
                 /\ ledger[u.report] # NoMail /\ ledger[u.report].revision = u.turn
                 /\ ledger[u.report].parent \in Messages
                 /\ ledger[ledger[u.report].parent].kind = "task"
                 /\ ledger[ledger[u.report].parent].revision = u.turn
      <4>1. CASE u \in used
        BY <1>2, <3>2, <4>1 DEF UsedOK
      <4>2. CASE u \notin used
        <5>1. PICK c \in Calls : Collect(c)
          BY <1>2, <2>1, <4>2, NextRest
        <5>2. u \in Using(c) /\ calls[c] # NoCall /\ calls[c].by # 0
          BY <4>2, <5>1, UsingIs
        <5> QED
          BY <1>2, <5>2, UsingOK
      <4> QED
        BY <4>1, <4>2
    <3>4. ASSUME NEW u \in used'
          PROVE  /\ u.room <= u.turn
                 /\ ledger'[u.report] # NoMail /\ ledger'[u.report].revision = u.turn
                 /\ ledger'[u.report].parent \in Messages
                 /\ ledger'[ledger'[u.report].parent].kind = "task"
                 /\ ledger'[ledger'[u.report].parent].revision = u.turn
      <4>1. SameMail(ledger'[u.report], ledger[u.report]) /\ ledger'[u.report] # NoMail
        BY <3>1, <3>3
      <4>2. SameMail(ledger'[ledger[u.report].parent], ledger[ledger[u.report].parent])
        BY <3>1, <3>3
      <4> QED
        BY <3>3, <4>1, <4>2 DEF SameMail
    <3> QED
      BY <3>4 DEF UsedOK
  <2>2. CASE UNCHANGED vars
    BY <1>2, <2>2 DEF vars, mail, UsedOK
  <2> QED
    BY <1>2, <2>1, <2>2
<1>3. IInv /\ UsedOK /\ [Next]_vars => UsedOK'
  BY <1>2
<1>4. UsedOK => UsedReportIsCurrent
  BY DEF UsedOK, UsedReportIsCurrent
<1> QED
  BY <1>1, <1>3, <1>4, Invariance, PTL DEF Spec

-----------------------------------------------------------------------------
(* The shape of the steps: what becomes of the calls and the runs *)

\* A row that waves have left is that of one of them, or the old one.
LEMMA WrittenFrom ==
  ASSUME NEW S, NEW waves \in Seq(S), NEW rows, NEW m \in Messages
  PROVE  \/ Written(rows, waves)[m] = rows[m]
         \/ \E n \in DOMAIN waves : m \in DOMAIN waves[n] /\ Written(rows, waves)[m] = waves[n][m]
<1> DEFINE W == {i \in DOMAIN waves : m \in DOMAIN waves[i]}
<1>1. CASE W = {}
  BY <1>1 DEF Written
<1>2. CASE W # {}
  <2>1. W \in SUBSET (1 .. Len(waves)) /\ Len(waves) \in Nat
    OBVIOUS
  <2>2. Written(rows, waves)[m] = waves[Max(W)][m]
    BY <1>2 DEF Written
  <2>3. \A i \in W : i \in DOMAIN waves /\ m \in DOMAIN waves[i]
    OBVIOUS
  <2> HIDE DEF W
  <2>4. Max(W) \in W
    BY <1>2, <2>1, MaxExists
  <2> QED
    BY <2>2, <2>3, <2>4
<1> QED
  BY <1>1, <1>2

\* The same for a block that is torn: the waves it is cut to are parts of them.
LEMMA BrokenFrom ==
  ASSUME NEW S, NEW waves \in Seq(S), NEW rows, NEW m \in Messages,
         NEW n \in DOMAIN waves, NEW done \in SUBSET DOMAIN waves[n]
  PROVE  \/ Written(rows, Broken(waves, n, done))[m] = rows[m]
         \/ \E i \in DOMAIN waves :
              m \in DOMAIN waves[i] /\ Written(rows, Broken(waves, n, done))[m] = waves[i][m]
<1> DEFINE part == Restrict(waves[n], done)
           cut == Append(Prefix(waves, n - 1), part)
<1>0. n \in 1 .. Len(waves)
  OBVIOUS
<1>1. n \in 1 .. Len(waves) /\ Prefix(waves, n - 1) \in Seq(S)
  BY <1>0, NextPrefix
<1>2. Len(Prefix(waves, n - 1)) = n - 1 /\ \A i \in 1 .. n - 1 : Prefix(waves, n - 1)[i] = waves[i]
  BY <1>1 DEF Prefix
<1>3. \A l \in DOMAIN part : l \in DOMAIN waves[n] /\ part[l] = waves[n][l]
  BY DEF Restrict
<1>4. Broken(waves, n, done) = cut
  BY DEF Broken, Prefix
<1>5. /\ cut \in Seq(S \union {part}) /\ DOMAIN cut = 1 .. n /\ cut[n] = part
      /\ \A i \in 1 .. n - 1 : cut[i] = waves[i]
  <2> HIDE DEF part
  <2>1. Prefix(waves, n - 1) \in Seq(S \union {part})
    BY <1>1
  <2> HIDE DEF Prefix
  <2> QED
    BY <1>1, <1>2, <2>1
<1> HIDE DEF cut, part
<1>6. \A i \in DOMAIN cut : m \in DOMAIN cut[i] =>
        i \in DOMAIN waves /\ m \in DOMAIN waves[i] /\ cut[i][m] = waves[i][m]
  BY <1>1, <1>3, <1>5
<1>7. \/ Written(rows, cut)[m] = rows[m]
      \/ \E i \in DOMAIN cut : m \in DOMAIN cut[i] /\ Written(rows, cut)[m] = cut[i][m]
  BY <1>5, WrittenFrom
<1> QED
  BY <1>4, <1>6, <1>7

\* And so are the rows a block leaves, completed or torn.
LEMMA RowsFrom ==
  ASSUME NEW S, NEW waves \in Seq(S), Record(waves) \/ RecordTorn(waves), NEW m \in Messages
  PROVE  /\ \/ ledger'[m] = ledger[m]
            \/ \E i \in DOMAIN waves : m \in DOMAIN waves[i] /\ ledger'[m] = waves[i][m]
         /\ \/ tables'[m] = tables[m]
            \/ \E i \in DOMAIN waves : m \in DOMAIN waves[i] /\ tables'[m] = waves[i][m]
<1>1. CASE Record(waves)
  BY <1>1, WrittenFrom DEF Record, Appended
<1>2. CASE RecordTorn(waves)
  <2>1. PICK n \in DOMAIN waves : \E l \in DOMAIN waves[n], applied \in BOOLEAN :
          LET before == {k \in DOMAIN waves[n] : k < l}
          IN  /\ ledger' = Written(ledger, Broken(waves, n, before \union {l}))
              /\ tables' = Written(tables, Broken(waves, n, IF applied THEN before \union {l} ELSE before))
    BY <1>2 DEF RecordTorn, Appended
  <2>2. PICK done, done2 \in SUBSET DOMAIN waves[n] :
          /\ ledger' = Written(ledger, Broken(waves, n, done))
          /\ tables' = Written(tables, Broken(waves, n, done2))
    BY <2>1
  <2>3. /\ \/ Written(ledger, Broken(waves, n, done))[m] = ledger[m]
           \/ \E i \in DOMAIN waves :
                m \in DOMAIN waves[i] /\ Written(ledger, Broken(waves, n, done))[m] = waves[i][m]
        /\ \/ Written(tables, Broken(waves, n, done2))[m] = tables[m]
           \/ \E i \in DOMAIN waves :
                m \in DOMAIN waves[i] /\ Written(tables, Broken(waves, n, done2))[m] = waves[i][m]
    BY BrokenFrom
  <2> QED
    BY <2>2, <2>3
<1> QED
  BY <1>1, <1>2

\* New messages are of the room's revision, or of an earlier one.
Seen(waves) ==
  \A n \in DOMAIN waves : \A m \in DOMAIN waves[n] :
    ledger[m] = NoMail => waves[n][m].revision <= revision

NewAreSeen ==
  \A m \in Messages : ledger[m] = NoMail /\ ledger'[m] # NoMail => ledger'[m].revision <= revision

\* Besides, the reports are left alone.
Plain(waves) ==
  /\ Seen(waves)
  /\ \A n \in DOMAIN waves : \A m \in DOMAIN waves[n] : tables[m].kind # "report"

ReportsLeft ==
  \A m \in Messages : tables[m].kind = "report" => tables'[m] = tables[m] /\ ledger'[m] = ledger[m]

\* What holds of the waves holds of what they leave, completed or torn.
LEMMA PlainOK ==
  ASSUME NEW S, NEW waves \in Seq(S), Record(waves) \/ RecordTorn(waves)
  PROVE  /\ Seen(waves) => NewAreSeen
         /\ Plain(waves) => ReportsLeft
<1>1. Seen(waves) => NewAreSeen
  BY RowsFrom DEF NewAreSeen, Seen
<1>2. Plain(waves) => ReportsLeft
  BY RowsFrom DEF ReportsLeft, Plain
<1> QED
  BY <1>1, <1>2

\* Plain waves after plain waves.
LEMMA PlainCat ==
  ASSUME NEW S, NEW a \in Seq(S), NEW b \in Seq(S), Plain(a), Plain(b)
  PROVE  a \o b \in Seq(S) /\ Plain(a \o b)
<1>1. a \o b \in Seq(S)
  OBVIOUS
<1>2. \A n \in DOMAIN (a \o b) : \/ n \in DOMAIN a /\ (a \o b)[n] = a[n]
                                 \/ n - Len(a) \in DOMAIN b /\ (a \o b)[n] = b[n - Len(a)]
  OBVIOUS
<1> QED
  BY <1>1, <1>2 DEF Plain, Seen

\* All waves are functions from some messages to rows.
AllWaves == UNION {[D -> MailRow] : D \in SUBSET Messages}

\* An event for a task, or for a new message.
LEMMA PlainEvent ==
  ASSUME NEW m \in Messages, NEW row \in MailRow, tables[m].kind # "report",
         ledger[m] = NoMail => row.revision <= revision
  PROVE  <<Event(m, row)>> \in Seq(AllWaves) /\ Plain(<<Event(m, row)>>)
<1> DEFINE w == Event(m, row)
<1>1. DOMAIN w = {m} /\ w[m] = row /\ w \in [{m} -> MailRow]
  BY DEF Event
<1>2. w \in AllWaves
  BY <1>1 DEF AllWaves
<1> HIDE DEF w
<1>3. <<w>> \in Seq(AllWaves) /\ DOMAIN <<w>> = {1} /\ <<w>>[1] = w
  BY <1>2
<1>4. Plain(<<w>>)
  BY <1>1, <1>3 DEF Plain, Seen
<1> QED
  BY <1>3, <1>4 DEF w

\* The two events that open a message are plain.
LEMMA PlainSubmit ==
  ASSUME MailOK(ledger, tables), NEW m \in Messages, ledger[m] = NoMail,
         NEW row \in MailRow, row.revision <= revision
  PROVE  Submit(m, row) \in Seq(AllWaves) /\ Plain(Submit(m, row))
<1> DEFINE r1 == [row EXCEPT !.status = "none"]
           a == <<Event(m, r1)>>
           b == <<Event(m, row)>>
<1>1. r1 \in MailRow /\ r1.revision = row.revision
  BY DEF MailRow
<1>2. tables[m].kind # "report"
  BY RowKept, KeptSame DEF NoMail
<1> HIDE DEF r1
<1>3. a \in Seq(AllWaves) /\ Plain(a) /\ b \in Seq(AllWaves) /\ Plain(b)
  BY <1>1, <1>2, PlainEvent
<1>4. Submit(m, row) = <<Event(m, r1), Event(m, row)>>
  BY DEF Submit, r1
<1> DEFINE e == Event(m, r1)
           f == Event(m, row)
<1>5. <<e>> \o <<f>> = <<e, f>>
  <2> HIDE DEF e, f
  <2> QED
    BY Cat
<1>6. Submit(m, row) = a \o b
  BY <1>4, <1>5
<1> HIDE DEF a, b
<1>7. a \o b \in Seq(AllWaves) /\ Plain(a \o b)
  BY <1>3, PlainCat
<1> QED
  BY <1>6, <1>7

\* How a run ends.
EndStates == {"completed", "failed", "stale"}

\* The process dies.
Dies ==
  /\ calls' = [d \in Calls |-> NoCall]
  /\ May("torn_write") \/ May("crash") \/ May("torn_rebuild")
  /\ NewAreSeen
  /\ runs' = runs \/ \E i : \E s \in EndStates : runs' = WithStatus(i, s)

\* The call watches no run.
Idle(c) ==
  \/ calls[c] = NoCall
  \/ calls[c].at # "working"
  \/ Mode[tables[calls[c].task].to] = "worker"

\* A call goes on as new: it ends, or begins, or has a report more.
GoesOn(c, new) ==
  \/ new = NoCall
  \/ calls[c] = NoCall /\ new.by = 0 /\ new.reports = {}
  \/ /\ calls[c] = NoCall /\ new.by = revision /\ new.reports = {}
     /\ May("slow_turn") \/ \A d \in Calls : ~ ByTurn(d)
  \/ /\ calls[c] # NoCall /\ new.by = calls[c].by
     /\ \A m \in new.reports : \/ m \in calls[c].reports
                               \/ tables'[m] = ledger'[m] /\ tables'[m].status = "queued"

\* The runs stay, or one more is watched by the call, or the one it watched ends.
RunsGo(c, new) ==
  \/ runs' = runs /\ (Idle(c) \/ May("disk_fails") \/ Refused(tables[calls[c].task]))
  \/ /\ Idle(c) /\ new # NoCall /\ new.at = "working"
     /\ \E row : /\ runs' = Accepted(new.task, row)
                 /\ Mode[row.to] = "bound" => ~ LimitReached(row)
  \/ /\ calls[c] # NoCall
     /\ \E s \in EndStates : runs' = WithStatus(RunOf(calls[c].task), s)

CallShape(c) ==
  \E new : Continue(c, new) /\ GoesOn(c, new) /\ RunsGo(c, new) /\ NewAreSeen /\ ReportsLeft

\* A torn block ends the process.
LEMMA TornShape ==
  ASSUME NEW S, NEW waves \in Seq(S), Seen(waves), NEW newRuns, Torn(waves, newRuns),
         newRuns = runs \/ \E i : \E s \in EndStates : newRuns = WithStatus(i, s)
  PROVE  Dies
<1>1. NewAreSeen
  BY PlainOK DEF Torn
<1> QED
  BY <1>1 DEF Torn, Dies

\* A call that records plain waves goes on, or dies with the process.
LEMMA CommitShape ==
  ASSUME NEW c \in Calls, NEW S, NEW waves \in Seq(S), Plain(waves), NEW newRuns, NEW new,
         Commit(waves, newRuns, c, new),
         Record(waves) /\ runs' = newRuns => GoesOn(c, new) /\ RunsGo(c, new)
  PROVE  Dies \/ CallShape(c)
<1>1. CASE Torn(waves, runs)
  BY <1>1, TornShape DEF Plain
<1>2. CASE Record(waves) /\ runs' = newRuns /\ Continue(c, new)
  <2>1. NewAreSeen /\ ReportsLeft
    BY <1>2, PlainOK DEF Plain
  <2> QED
    BY <1>2, <2>1 DEF CallShape
<1> QED
  BY <1>1, <1>2 DEF Commit

\* A call that dispatches goes on with the reports it has.
Began(c, call) ==
  /\ call \in Call
  /\ \/ calls[c] = NoCall /\ call.by = 0 /\ call.reports = {}
     \/ calls[c] # NoCall /\ call.by = calls[c].by /\ call.reports = calls[c].reports

\* A task that is leased is refused, answered or begun.
LEMMA ProcessShape ==
  ASSUME NEW c \in Calls, NEW call, NEW S, NEW waves \in Seq(S), Plain(waves), NEW t \in Messages, NEW row,
         Process(c, call, waves, t, row), Began(c, call), Idle(c)
  PROVE  Dies \/ CallShape(c)
<1>1. ASSUME NEW new, new.by = call.by, new.reports = call.reports
      PROVE  GoesOn(c, new)
  BY <1>1 DEF GoesOn, Began
<1>2. CASE Commit(waves, runs, c, Thrown(call))
  <2>1. GoesOn(c, Thrown(call))
    <3>1. CASE Thrown(call) = NoCall
      BY <3>1 DEF GoesOn
    <3>2. CASE Thrown(call) = [call EXCEPT !.at = "next"]
      <4>1. Thrown(call).by = call.by /\ Thrown(call).reports = call.reports
        BY <3>2 DEF Began, Call
      <4> QED
        BY <1>1, <4>1
    <3> QED
      BY <3>1, <3>2, ThrownIs
  <2>2. runs' = runs => RunsGo(c, Thrown(call))
    BY DEF RunsGo
  <2> QED
    BY <1>2, <2>1, <2>2, CommitShape
<1> DEFINE bound == [call EXCEPT !.task = t, !.at = "working"]
           burst == [call EXCEPT !.task = t, !.at = "spawning"]
<1>3. CASE ~ LimitReached(row) /\ Commit(waves, Accepted(t, row), c, bound)
  <2>1. bound.by = call.by /\ bound.reports = call.reports /\ bound.at = "working" /\ bound.task = t
        /\ bound # NoCall
    <3>1. bound \in Call
      BY DEF Began, Call
    <3> QED
      BY <3>1, NoCallAssumption DEF Began, Call
  <2> HIDE DEF bound
  <2>2. GoesOn(c, bound)
    BY <1>1, <2>1
  <2>3. runs' = Accepted(t, row) => RunsGo(c, bound)
    BY <1>3, <2>1 DEF RunsGo
  <2> QED
    BY <1>3, <2>2, <2>3, CommitShape
<1>4. CASE Commit(waves, runs, c, burst)
  <2>1. burst.by = call.by /\ burst.reports = call.reports
    BY DEF Began, Call
  <2> HIDE DEF burst
  <2>2. GoesOn(c, burst)
    BY <1>1, <2>1
  <2>3. runs' = runs => RunsGo(c, burst)
    BY DEF RunsGo
  <2> QED
    BY <1>4, <2>2, <2>3, CommitShape
<1> QED
  BY <1>2, <1>3, <1>4 DEF Process
-----------------------------------------------------------------------------
(* What becomes of the calls and the runs, action by action *)

\* A turn begins.
LEMMA StartTurnShape ==
  ASSUME IInv, NEW c \in Calls, StartTurn(c)
  PROVE  CallShape(c)
<1>1. PICK plan \in Plans :
        Continue(c, [by |-> revision, at |-> "next", todo |-> plan, batch |-> {},
                     task |-> 0, own |-> 0, reports |-> {}])
  BY DEF StartTurn
<1> DEFINE new == [by |-> revision, at |-> "next", todo |-> plan, batch |-> {},
                   task |-> 0, own |-> 0, reports |-> {}]
<1>2. new.by = revision /\ new.reports = {}
  OBVIOUS
<1>3. Continue(c, new)
  BY <1>1
<1> HIDE DEF new
<1>4. GoesOn(c, new)
  BY <1>2 DEF StartTurn, Free, GoesOn
<1>5. RunsGo(c, new) /\ NewAreSeen /\ ReportsLeft
  BY DEF StartTurn, Free, RunsGo, Idle, NewAreSeen, ReportsLeft, mail
<1> QED
  BY <1>3, <1>4, <1>5 DEF CallShape

\* A call that throws ends.
LEMMA LeaveShape ==
  ASSUME IInv, NEW c \in Calls, DelegateRefused(c) \/ WorkerFails(c)
  PROVE  CallShape(c)
<1>1. Continue(c, NoCall) /\ GoesOn(c, NoCall)
  BY DEF DelegateRefused, WorkerFails, Leave, GoesOn
<1>2. RunsGo(c, NoCall) /\ NewAreSeen /\ ReportsLeft
  BY DEF DelegateRefused, WorkerFails, At, Free, RunsGo, Idle, NewAreSeen, ReportsLeft, mail
<1> QED
  BY <1>1, <1>2 DEF CallShape

\* A turn's task is posted and leased, and begun if the limit admits it.
LEMMA DelegateShape ==
  ASSUME IInv, NEW c \in Calls, Delegate(c)
  PROVE  Dies \/ CallShape(c)
<1>1. /\ calls[c] # NoCall /\ calls[c] \in Call /\ calls[c].by \in 1 .. MaxRevision
      /\ calls[c].at = "next" /\ calls[c].todo # <<>> /\ calls[c].todo \in Seq(Helpers)
      /\ calls[c].by = revision /\ MailOK(ledger, tables)
  BY DEF Delegate, ByTurn, At, Free, Call, RoomIsAt, IInv, TypeOK
<1>2. PICK m \in Messages :
        LET target == Head(calls[c].todo)
            task == Posted("task", target, m, 0, calls[c].by)
            call == [calls[c] EXCEPT !.todo = Tail(@), !.own = m]
        IN  /\ MayTask(m)
            /\ \E t \in QueuedFor(target) \union {m} :
                 LET row == IF t = m THEN task ELSE tables[t]
                     waves == Submit(m, task) \o Lease(t, row, 0)
                 IN  IF Mode[target] = "worker"
                     THEN Commit(waves, runs, c,
                            [call EXCEPT !.task = m, !.at = "working", !.batch = {m} \intersect {t}])
                     ELSE Process(c, call, waves, t, row)
  BY DEF Delegate
<1> DEFINE target == Head(calls[c].todo)
           task == Posted("task", target, m, 0, calls[c].by)
           call == [calls[c] EXCEPT !.todo = Tail(@), !.own = m]
<1>3. target \in Helpers /\ Tail(calls[c].todo) \in Seq(Helpers) /\ ledger[m] = NoMail
  BY <1>1, <1>2 DEF MayTask, NextMessage
<1>4. PICK t \in QueuedFor(target) \union {m} :
        LET row == IF t = m THEN task ELSE tables[t]
            waves == Submit(m, task) \o Lease(t, row, 0)
        IN  IF Mode[target] = "worker"
            THEN Commit(waves, runs, c,
                   [call EXCEPT !.task = m, !.at = "working", !.batch = {m} \intersect {t}])
            ELSE Process(c, call, waves, t, row)
  BY <1>2
<1> DEFINE row == IF t = m THEN task ELSE tables[t]
           waves == Submit(m, task) \o Lease(t, row, 0)
<1>5. 0 \in 0 .. MaxRevision /\ target \in Mailboxes
  BY <1>3, HelpersOK, VirtualMailAssumption
<1>6. task \in MailRow /\ task.kind = "task" /\ task.revision = revision
  BY <1>1, <1>5 DEF Posted, MailRow
<1>7. t # m => tables[t] \in MailRow /\ tables[t].kind = "task" /\ tables[t].status = "queued" /\ t \in Messages
  BY <1>1, <1>3, HelpersTasks DEF QueuedFor
<1>8. t \in Messages /\ row \in MailRow
  BY <1>6, <1>7
<1>9. Submit(m, task) \in Seq(AllWaves) /\ Plain(Submit(m, task))
  <2>1. revision \in 1 .. MaxRevision
    BY DEF IInv, TypeOK, MailTypeOK
  <2> HIDE DEF task
  <2> QED
    BY <1>1, <1>3, <1>6, <2>1, PlainSubmit
<1>10. Lease(t, row, 0) \in Seq(AllWaves) /\ Plain(Lease(t, row, 0))
  <2>1. Leased(row, 0) \in MailRow /\ Leased(row, 0).revision = row.revision
    BY <1>5, <1>8 DEF Leased, MailRow
  <2>2. tables[t].kind # "report"
    BY <1>1, <1>3, <1>7, RowKept, KeptSame DEF NoMail
  <2>3. ledger[t] = NoMail => Leased(row, 0).revision <= revision
    <3>1. t # m => ledger[t] # NoMail
      BY <1>1, <1>7, RowKept, KeptSame DEF NoMail
    <3>2. t = m => Leased(row, 0).revision = revision
      BY <1>6, <2>1
    <3>3. revision \in Nat
      BY <1>1, <1>5
    <3> QED
      BY <3>1, <3>2, <3>3
  <2> HIDE DEF row
  <2> QED
    BY <1>8, <2>1, <2>2, <2>3, PlainEvent DEF Lease
<1>11. waves \in Seq(AllWaves) /\ Plain(waves)
  BY <1>9, <1>10, PlainCat
<1>12. /\ call \in Call /\ call.by = calls[c].by /\ call.reports = calls[c].reports
  BY <1>1, <1>3 DEF Call
<1>13. Idle(c)
  BY <1>1 DEF Idle
<1>14. CASE Mode[target] # "worker"
  <2>1. Process(c, call, waves, t, row)
    BY <1>4, <1>14
  <2>2. Began(c, call)
    BY <1>1, <1>12 DEF Began
  <2> HIDE DEF call, row, waves
  <2> QED
    BY <1>8, <1>11, <1>13, <2>1, <2>2, ProcessShape
<1>15. CASE Mode[target] = "worker"
  <2> DEFINE new == [call EXCEPT !.task = m, !.at = "working", !.batch = {m} \intersect {t}]
  <2>1. Commit(waves, runs, c, new)
    BY <1>4, <1>15
  <2>2. new.by = calls[c].by /\ new.reports = calls[c].reports
    BY <1>12 DEF Call
  <2> HIDE DEF new, waves
  <2>3. GoesOn(c, new) /\ (runs' = runs => RunsGo(c, new))
    BY <1>1, <1>13, <2>2 DEF GoesOn, RunsGo
  <2> QED
    BY <1>11, <2>1, <2>3, CommitShape
<1> QED
  BY <1>14, <1>15

\* A dispatch goes on with the next task of its batch.
LEMMA ApiContinuesShape ==
  ASSUME IInv, NEW c \in Calls, ApiContinues(c)
  PROVE  Dies \/ CallShape(c)
<1>1. /\ calls[c] # NoCall /\ calls[c] \in Call /\ calls[c].at = "next" /\ calls[c].by = 0
      /\ calls[c].batch \subseteq Messages
  BY DEF ApiContinues, ByTurn, At, Free, Call, IInv, TypeOK
<1>2. PICK t \in calls[c].batch :
        Process(c, [calls[c] EXCEPT !.batch = @ \ {t}], <<>>, t, tables[t])
  BY DEF ApiContinues
<1> DEFINE call == [calls[c] EXCEPT !.batch = @ \ {t}]
<1>3. call \in Call /\ call.by = calls[c].by /\ call.reports = calls[c].reports
  BY <1>1 DEF Call
<1>4. Began(c, call) /\ Idle(c) /\ Process(c, call, <<>>, t, tables[t])
  BY <1>1, <1>2, <1>3 DEF Began, Idle
<1>5. <<>> \in Seq(AllWaves) /\ Plain(<<>>)
  BY DEF Plain, Seen
<1> HIDE DEF call
<1> QED
  BY <1>1, <1>4, <1>5, ProcessShape

\* A dispatch takes up a batch and its first task.
LEMMA ApiDispatchShape ==
  ASSUME IInv, NEW c \in Calls, ApiDispatch(c)
  PROVE  Dies \/ CallShape(c)
<1>1. PICK target \in Agents : \E batch \in SUBSET QueuedFor(target) : \E t \in batch :
        Process(c,
          [by |-> 0, at |-> "next", todo |-> <<>>, batch |-> batch \ {t},
           task |-> 0, own |-> 0, reports |-> {}],
          <<[l \in batch |-> Leased(tables[l], 0)]>>, t, tables[t])
  BY DEF ApiDispatch
<1>2. PICK batch \in SUBSET QueuedFor(target) : \E t \in batch :
        Process(c,
          [by |-> 0, at |-> "next", todo |-> <<>>, batch |-> batch \ {t},
           task |-> 0, own |-> 0, reports |-> {}],
          <<[l \in batch |-> Leased(tables[l], 0)]>>, t, tables[t])
  BY <1>1
<1>3. PICK t \in batch :
        Process(c,
          [by |-> 0, at |-> "next", todo |-> <<>>, batch |-> batch \ {t},
           task |-> 0, own |-> 0, reports |-> {}],
          <<[l \in batch |-> Leased(tables[l], 0)]>>, t, tables[t])
  BY <1>2
<1> DEFINE call == [by |-> 0, at |-> "next", todo |-> <<>>, batch |-> batch \ {t},
                    task |-> 0, own |-> 0, reports |-> {}]
           w == [l \in batch |-> Leased(tables[l], 0)]
<1>4. target \in Helpers /\ MailOK(ledger, tables) /\ calls[c] = NoCall
  BY HelpersOK DEF ApiDispatch, Free, IInv
<1>5. \A l \in batch : l \in Messages /\ tables[l] \in MailRow /\ tables[l].kind = "task"
  BY <1>4, QueuedOK
<1>6. 0 \in 0 .. MaxRevision /\ 0 \in Messages \union {0}
  BY VirtualMailAssumption
<1>7. Process(c, call, <<w>>, t, tables[t])
  BY <1>3
<1>8. call \in Call /\ call.by = 0 /\ call.reports = {}
  BY <1>5, <1>6 DEF Call
<1> HIDE DEF call
<1>9. Began(c, call) /\ Idle(c)
  BY <1>4, <1>8 DEF Began, Idle
<1>10. w \in AllWaves
  <2>1. \A l \in batch : Leased(tables[l], 0) \in MailRow
    BY <1>5, <1>6 DEF Leased, MailRow
  <2> QED
    BY <1>5, <2>1 DEF AllWaves
<1>11. \A l \in DOMAIN w : ledger[l] # NoMail /\ tables[l].kind # "report"
  <2>1. \A l \in batch : tables[l] # NoMail
    BY <1>5 DEF NoMail
  <2> QED
    BY <1>4, <1>5, <2>1, RowKept, KeptSame
<1> HIDE DEF w
<1>12. <<w>> \in Seq(AllWaves) /\ DOMAIN <<w>> = {1} /\ <<w>>[1] = w
  BY <1>10
<1>13. Plain(<<w>>)
  BY <1>11, <1>12 DEF Plain, Seen
<1> QED
  BY <1>5, <1>7, <1>9, <1>12, <1>13, ProcessShape

\* The bridge has accepted a run.
LEMMA SpawnedShape ==
  ASSUME IInv, NEW c \in Calls, Spawned(c)
  PROVE  CallShape(c)
<1> DEFINE new == [calls[c] EXCEPT !.at = "working"]
           t == calls[c].task
<1>1. /\ calls[c] # NoCall /\ calls[c] \in Call /\ calls[c].at = "spawning"
      /\ CallOK(calls[c], ledger, tables, runs)
  BY DEF Spawned, At, Free, IInv, TypeOK, CallsOK
<1>2. Mode[tables[t].to] # "bound"
  BY <1>1 DEF CallOK
<1>3. new \in Call /\ new.by = calls[c].by /\ new.reports = calls[c].reports /\ new.at = "working" /\ new.task = t
  BY <1>1 DEF Call
<1>4. runs' = Accepted(t, tables[t]) /\ Continue(c, new)
  BY DEF Spawned
<1> HIDE DEF new
<1>5. GoesOn(c, new)
  BY <1>1, <1>3 DEF GoesOn
<1>6. RunsGo(c, new)
  BY <1>1, <1>2, <1>3, <1>4, NoCallAssumption DEF RunsGo, Idle
<1>7. NewAreSeen /\ ReportsLeft
  BY DEF Spawned, NewAreSeen, ReportsLeft, mail
<1> QED
  BY <1>4, <1>5, <1>6, <1>7 DEF CallShape

\* A call goes on, or is over, and has no new report.
LEMMA RestGoesOn ==
  ASSUME NEW c \in Calls, calls[c] # NoCall, calls[c] \in Call,
         NEW new \in {NoCall, [calls[c] EXCEPT !.at = "next"]}
  PROVE  GoesOn(c, new)
<1>1. [calls[c] EXCEPT !.at = "next"].by = calls[c].by
      /\ [calls[c] EXCEPT !.at = "next"].reports = calls[c].reports
  BY DEF Call
<1> QED
  BY <1>1 DEF GoesOn

\* The bridge has not.
LEMMA SpawnFailsShape ==
  ASSUME IInv, NEW c \in Calls, SpawnFails(c)
  PROVE  CallShape(c)
<1> DEFINE t == calls[c].task
<1>1. /\ calls[c] # NoCall /\ calls[c] \in Call /\ calls[c].at = "spawning"
      /\ CallOK(calls[c], ledger, tables, runs)
  BY DEF SpawnFails, At, Free, IInv, TypeOK, CallsOK
<1>2. tables' = [tables EXCEPT ![t] = Settled(@, "blocked")] /\ ledger' = ledger /\ runs' = runs
      /\ Continue(c, Thrown(calls[c]))
  BY DEF SpawnFails, Block
<1>3. t \in Messages /\ tables[t].kind = "task"
  BY <1>1 DEF CallOK, IsTask
<1>4. NewAreSeen /\ ReportsLeft
  <2>1. \A m \in Messages \ {t} : tables'[m] = tables[m]
    BY <1>2, <1>3 DEF IInv, MailOK
  <2> QED
    BY <1>2, <1>3, <2>1 DEF NewAreSeen, ReportsLeft
<1>5. GoesOn(c, Thrown(calls[c])) /\ RunsGo(c, Thrown(calls[c]))
  BY <1>1, <1>2, RestGoesOn, ThrownIs DEF RunsGo, Idle
<1> QED
  BY <1>2, <1>4, <1>5 DEF CallShape

\* A step that writes no report and no new message, but the row of one task.
LEMMA OneTaskLeft ==
  ASSUME MailOK(ledger, tables), NEW t \in Messages, tables[t].kind = "task",
         \A m \in Messages \ {t} : tables'[m] = tables[m] /\ ledger'[m] = ledger[m]
  PROVE  NewAreSeen /\ ReportsLeft
<1>1. ledger[t] # NoMail
  BY RowKept, KeptSame DEF NoMail
<1> QED
  BY <1>1 DEF NewAreSeen, ReportsLeft

\* A run has ended and its report is refused, or not written.
LEMMA ReportFailsShape ==
  ASSUME IInv, NEW c \in Calls, ReportFails(c)
  PROVE  CallShape(c)
<1> DEFINE t == calls[c].task
           row == tables[t]
           new == Thrown(calls[c])
<1>1. PICK thrown \in BOOLEAN :
        /\ ledger' = Written(ledger, Staled(t, row, thrown))
        /\ Appended(Staled(t, row, thrown))
        /\ tables' = [tables EXCEPT ![t] = Settled(@, "blocked")]
        /\ runs' = IF thrown
                   THEN [runs EXCEPT ![RunOf(t)].status = RunStatus(row, "failed")]
                   ELSE runs
  BY DEF ReportFails, Appended
<1>2. /\ calls[c] # NoCall /\ calls[c].at = "working" /\ Mode[tables[t].to] # "worker"
      /\ Continue(c, new) /\ (Refused(row) \/ May("disk_fails"))
  BY DEF ReportFails, At, Free
<1>3. t \in Messages /\ tables[t].kind = "task" /\ calls[c] \in Call /\ MailOK(ledger, tables)
  BY <1>2, WorkingOK DEF IInv
<1>4. \A m \in Messages \ {t} : tables'[m] = tables[m] /\ ledger'[m] = ledger[m]
  <2>1. \A m \in Messages \ {t} : tables'[m] = tables[m]
    BY <1>1, <1>3 DEF MailOK
  <2>2. CASE Staled(t, row, thrown) = <<>>
    BY <1>1, <1>3, <2>1, <2>2, WrittenNone DEF MailOK
  <2>3. CASE Staled(t, row, thrown) # <<>>
    <3> DEFINE w == Event(t, Settled(row, "stale"))
    <3>1. Staled(t, row, thrown) = <<w>> /\ DOMAIN w = {t}
      BY <2>3 DEF Staled, MarkStale, Event
    <3> HIDE DEF w
    <3>2. \A m \in Messages : Written(ledger, <<w>>)[m] = ledger[m] \/ m \in DOMAIN w
      <4> DEFINE ws == <<w>>
      <4>1. ws \in Seq({w}) /\ DOMAIN ws = {1} /\ ws[1] = w
        OBVIOUS
      <4> HIDE DEF ws
      <4>2. \A m \in Messages : Written(ledger, ws)[m] = ledger[m] \/ m \in DOMAIN w
        BY <4>1, WrittenFrom
      <4> QED
        BY <4>2 DEF ws
    <3> QED
      BY <1>1, <2>1, <3>1, <3>2
  <2> QED
    BY <2>2, <2>3
<1>5. NewAreSeen /\ ReportsLeft
  BY <1>3, <1>4, OneTaskLeft
<1>6. GoesOn(c, new)
  BY <1>2, <1>3, RestGoesOn, ThrownIs
<1>7. RunsGo(c, new)
  <2>1. RunStatus(row, "failed") \in EndStates
    BY DEF RunStatus, EndStates
  <2>2. thrown => runs' = WithStatus(RunOf(t), RunStatus(row, "failed"))
    BY <1>1 DEF WithStatus
  <2> QED
    BY <1>1, <1>2, <2>1, <2>2 DEF RunsGo
<1> QED
  BY <1>2, <1>5, <1>6, <1>7 DEF CallShape

\* Waves of pieces.
LEMMA PlainEnd ==
  ASSUME MailOK(ledger, tables), NEW t \in Messages, tables[t].kind = "task", tables[t] \in MailRow,
         NEW s \in {"consumed", "stale"}
  PROVE  LET end == <<Event(t, Settled(tables[t], s))>>
         IN  end \in Seq(AllWaves) /\ Plain(end)
<1>1. Settled(tables[t], s) \in MailRow
  <2>1. 0 \in 0 .. MaxRevision
    BY VirtualMailAssumption
  <2> QED
    BY <2>1 DEF Settled, MailRow
<1>2. ledger[t] # NoMail
  BY RowKept, KeptSame DEF NoMail
<1> QED
  BY <1>1, <1>2, PlainEvent

\* A task that is settled, or left, is plain.
LEMMA PlainMark ==
  ASSUME MailOK(ledger, tables), NEW t \in Messages, tables[t].kind = "task", tables[t] \in MailRow
  PROVE  /\ MarkStale(t, tables[t]) \in Seq(AllWaves) /\ Plain(MarkStale(t, tables[t]))
         /\ Consume(t, tables[t]) \in Seq(AllWaves) /\ Plain(Consume(t, tables[t]))
         /\ <<>> \in Seq(AllWaves) /\ Plain(<<>>)
<1>1. <<>> \in Seq(AllWaves) /\ Plain(<<>>)
  BY DEF Plain, Seen
<1>2. MarkStale(t, tables[t]) \in Seq(AllWaves) /\ Plain(MarkStale(t, tables[t]))
  <2>1. CASE Open(tables[t])
    BY <2>1, PlainEnd DEF MarkStale
  <2>2. CASE ~ Open(tables[t])
    BY <1>1, <2>2 DEF MarkStale
  <2> QED
    BY <2>1, <2>2
<1>3. Consume(t, tables[t]) \in Seq(AllWaves) /\ Plain(Consume(t, tables[t]))
  BY PlainEnd DEF Consume
<1> QED
  BY <1>1, <1>2, <1>3

\* A report is posted at the room's revision at the latest.
LEMMA PlainReport ==
  ASSUME IInv, NEW m \in Messages, ledger[m] = NoMail, NEW t \in Messages, tables[t].kind = "task",
         ~ Refused(tables[t])
  PROVE  LET sub == Submit(m, Report(t, tables[t]))
         IN  sub \in Seq(AllWaves) /\ Plain(sub)
<1> DEFINE rep == Report(t, tables[t])
<1>1. Reporting(rep) /\ tables[t] \in MailRow
  BY ReportIs
<1>2. rep \in MailRow /\ rep.revision = IF Stale(tables[t]) THEN revision ELSE tables[t].revision
  BY <1>1 DEF Reporting, Report, Posted
<1>3. revision \in Nat /\ tables[t].revision \in Nat /\ MailOK(ledger, tables)
  BY <1>1, VirtualMailAssumption DEF MailRow, IInv, TypeOK, MailTypeOK
<1>4. rep.revision <= revision
  BY <1>2, <1>3 DEF Stale, Refused
<1> HIDE DEF rep
<1>5. Submit(m, rep) \in Seq(AllWaves) /\ Plain(Submit(m, rep))
  BY <1>2, <1>3, <1>4, PlainSubmit
<1> QED
  BY <1>5 DEF rep

\* A call that may have one report more.
LEMMA MoreGoesOn ==
  ASSUME NEW c \in Calls, calls[c] # NoCall, NEW rest \in Call, rest.by = calls[c].by,
         rest.reports = calls[c].reports, NEW m,
         tables'[m] = ledger'[m], tables'[m].status = "queued",
         NEW new \in {NoCall, Reported(rest, m)}
  PROVE  GoesOn(c, new)
<1>1. Reported(rest, m).by = rest.by /\ Reported(rest, m).reports \subseteq rest.reports \union {m}
  BY DEF Reported, Call
<1> QED
  BY <1>1 DEF GoesOn

\* A run has ended and is reported.
LEMMA RunEndsShape ==
  ASSUME IInv, NEW c \in Calls, RunEnds(c)
  PROVE  Dies \/ CallShape(c)
<1> DEFINE t == calls[c].task
           row == tables[t]
           rest == [calls[c] EXCEPT !.at = "next"]
           rep == Report(t, row)
<1>1. PICK m \in Messages, thrown \in BOOLEAN, status \in {"completed", "failed"} :
        LET marked == Staled(t, row, thrown)
            waves == marked \o Submit(m, rep)
                       \o (IF marked = <<>> /\ Open(row) THEN Consume(t, row) ELSE <<>>)
            ended == [runs EXCEPT ![RunOf(t)].status = RunStatus(row, status)]
        IN  /\ NextMessage(m)
            /\ ~ Refused(row)
            /\ \/ Commit(waves, ended, c, Onward(Reported(calls[c], m)))
               \/ Torn(waves, ended)
  BY DEF RunEnds
<1> DEFINE waves == Ending(m, t, row, thrown)
           i == RunOf(t)
           s == RunStatus(row, status)
           ended == WithStatus(i, s)
           new == Onward(Reported(calls[c], m))
<1>2. /\ calls[c] # NoCall /\ calls[c].at = "working" /\ Mode[tables[t].to] # "worker"
      /\ ledger[m] = NoMail /\ ~ Refused(row)
  BY <1>1 DEF RunEnds, At, Free, NextMessage
<1>3. /\ t \in Messages /\ tables[t] = ledger[t] /\ tables[t].status = "leased"
      /\ tables[t].kind = "task" /\ tables[t] \in MailRow /\ calls[c] \in Call
  BY <1>2, WorkingOK
<1>4. Reporting(rep) /\ MailOK(ledger, tables)
  BY <1>2, <1>3, ReportIs DEF IInv
<1>5. PICK r : Writes(waves, m, rep, t, r)
  BY <1>2, <1>3, <1>4, EndingOK
<1>6. waves \in Seq(AllWaves) /\ Plain(waves)
  <2> DEFINE marked == Staled(t, row, thrown)
             sub == Submit(m, rep)
             end == IF marked = <<>> /\ Open(row) THEN Consume(t, row) ELSE <<>>
  <2>1. marked \in Seq(AllWaves) /\ Plain(marked)
    BY <1>3, <1>4, PlainMark DEF Staled
  <2>2. sub \in Seq(AllWaves) /\ Plain(sub)
    BY <1>2, <1>3, PlainReport
  <2>3. end \in Seq(AllWaves) /\ Plain(end)
    BY <1>3, <1>4, PlainMark
  <2>4. waves = (marked \o sub) \o end
    BY DEF Ending
  <2> HIDE DEF waves, marked, sub, end
  <2>5. marked \o sub \in Seq(AllWaves) /\ Plain(marked \o sub)
    BY <2>1, <2>2, PlainCat
  <2> QED
    BY <2>3, <2>4, <2>5, PlainCat
<1>7. s \in EndStates
  BY DEF RunStatus, EndStates
<1>8. \/ Commit(waves, ended, c, new)
      \/ Torn(waves, ended)
  BY <1>1 DEF WithStatus, Ending
<1> HIDE DEF waves, s, i
<1>9. CASE Torn(waves, ended)
  BY <1>6, <1>7, <1>9, TornShape DEF Plain
<1>10. CASE Commit(waves, ended, c, new)
  <2>1. ASSUME Record(waves) /\ runs' = ended
        PROVE  GoesOn(c, new) /\ RunsGo(c, new)
    <3>1. ledger'[m] = rep /\ tables'[m] = rep
      BY <1>5, <2>1 DEF Writes, Record, Appended
    <3>2. rest \in Call /\ rest.by = calls[c].by /\ rest.reports = calls[c].reports
      BY <1>3 DEF Call
    <3>3. new \in {NoCall, Reported(rest, m)}
      <4>1. new \in {NoCall, [Reported(calls[c], m) EXCEPT !.at = "next"]}
        BY ThrownIs
      <4>2. [Reported(calls[c], m) EXCEPT !.at = "next"] = Reported(rest, m)
        BY <1>3 DEF Reported, Call
      <4> QED
        BY <4>1, <4>2
    <3>4. tables'[m].status = "queued"
      BY <1>4, <3>1 DEF Reporting
    <3> HIDE DEF new, rest, rep
    <3>5. GoesOn(c, new)
      BY <1>2, <3>1, <3>2, <3>3, <3>4, MoreGoesOn
    <3>6. RunsGo(c, new)
      BY <1>2, <1>7, <2>1 DEF RunsGo, i
    <3> QED
      BY <3>5, <3>6
  <2> HIDE DEF new, ended
  <2> QED
    BY <1>6, <1>10, <2>1, CommitShape
<1> QED
  BY <1>8, <1>9, <1>10

\* A worker has ended and is reported.
LEMMA WorkerEndsShape ==
  ASSUME IInv, NEW c \in Calls, WorkerEnds(c)
  PROVE  Dies \/ CallShape(c)
<1> DEFINE t == calls[c].task
           row == tables[t]
           rest == [calls[c] EXCEPT !.at = "next", !.batch = {}]
           rep == Report(t, row)
<1>1. /\ calls[c] # NoCall /\ calls[c].at = "working" /\ ~ Refused(row) /\ Mode[row.to] = "worker"
      /\ IF Stale(row)
         THEN Commit(MarkStale(t, row), runs, c, rest)
         ELSE \E m \in Messages :
                /\ NextMessage(m)
                /\ Commit(Submit(m, rep) \o (IF t \in calls[c].batch THEN Consume(t, row) ELSE <<>>),
                          runs, c, Reported(rest, m))
  BY DEF WorkerEnds, At, Free
<1>2. /\ calls[c] \in Call /\ CallOK(calls[c], ledger, tables, runs) /\ MailOK(ledger, tables)
  BY <1>1 DEF IInv, TypeOK, CallsOK
<1>3. t \in Messages /\ tables[t].kind = "task" /\ tables[t] \in MailRow /\ Idle(c)
  <2>1. t \in Messages /\ tables[t].kind = "task"
    BY <1>1, <1>2 DEF CallOK, IsTask
  <2> QED
    BY <1>1, <1>2, <2>1, ReportIs DEF Idle
<1>4. rest \in Call /\ rest.by = calls[c].by /\ rest.reports = calls[c].reports
  BY <1>2 DEF Call
<1>5. CASE Stale(row)
  <2>1. GoesOn(c, rest) /\ (runs' = runs => RunsGo(c, rest))
    BY <1>1, <1>3, <1>4 DEF GoesOn, RunsGo
  <2>2. MarkStale(t, row) \in Seq(AllWaves) /\ Plain(MarkStale(t, row)) /\ Commit(MarkStale(t, row), runs, c, rest)
    BY <1>1, <1>2, <1>3, <1>5, PlainMark
  <2> HIDE DEF rest
  <2> QED
    BY <2>1, <2>2, CommitShape
<1>6. CASE ~ Stale(row)
  <2>1. PICK m \in Messages :
          /\ NextMessage(m)
          /\ Commit(Submit(m, rep) \o (IF t \in calls[c].batch THEN Consume(t, row) ELSE <<>>),
                    runs, c, Reported(rest, m))
    BY <1>1, <1>6
  <2>2. ledger[m] = NoMail /\ Reporting(rep)
    BY <1>1, <1>3, <2>1, ReportIs DEF NextMessage
  <2> DEFINE sub == Submit(m, rep)
             end == IF t \in calls[c].batch THEN Consume(t, row) ELSE <<>>
             waves == sub \o end
             new == Reported(rest, m)
  <2>3. sub \in Seq(AllWaves) /\ Plain(sub)
    BY <1>1, <1>3, <2>2, PlainReport
  <2>4. end \in Seq(AllWaves) /\ Plain(end)
    BY <1>2, <1>3, PlainMark
  <2>5. waves \in Seq(AllWaves) /\ Plain(waves)
    <3> HIDE DEF sub, end
    <3> QED
      BY <2>3, <2>4, PlainCat
  <2>6. Written(ledger, waves)[m] = rep /\ Written(tables, waves)[m] = rep
    <3>1. CASE t \in calls[c].batch
      <4>1. tables[t].status = "leased"
        BY <1>1, <3>1, HeldOK DEF Held
      <4>2. Writes(sub \o Consume(t, row), m, rep, t, Settled(row, "consumed"))
        BY <1>2, <1>3, <2>2, <4>1, SubmitConsume
      <4> HIDE DEF sub
      <4> QED
        BY <3>1, <4>2 DEF Writes
    <3>2. CASE t \notin calls[c].batch
      <4>1. sub \o <<>> = sub
        BY Cat DEF Submit
      <4>2. Written(ledger, sub)[m] = rep /\ Written(tables, sub)[m] = rep
        BY <1>2, <1>3, <2>2, SubmitOnly
      <4> HIDE DEF sub
      <4> QED
        BY <3>2, <4>1, <4>2
    <3> QED
      BY <3>1, <3>2
  <2>7. Commit(waves, runs, c, new)
    BY <2>1
  <2> HIDE DEF waves
  <2>8. ASSUME Record(waves) /\ runs' = runs
        PROVE  GoesOn(c, new) /\ RunsGo(c, new)
    <3>1. tables'[m] = ledger'[m] /\ tables'[m].status = "queued"
      BY <2>2, <2>6, <2>8 DEF Record, Appended, Reporting
    <3>2. GoesOn(c, new)
      <4> HIDE DEF rest
      <4> QED
        BY <1>1, <1>4, <3>1, MoreGoesOn
    <3>3. RunsGo(c, new)
      BY <1>3, <2>8 DEF RunsGo
    <3> QED
      BY <3>2, <3>3
  <2> HIDE DEF new
  <2> QED
    BY <2>5, <2>7, <2>8, CommitShape
<1> QED
  BY <1>5, <1>6

\* A turn collects and is over: nothing new is written.
Gathers(c) ==
  /\ ByTurn(c) /\ Idle(c)
  /\ Continue(c, NoCall) /\ runs' = runs
  /\ NewAreSeen

\* A step that is no call's.
Alone ==
  /\ UNCHANGED <<calls, runs>>
  /\ NewAreSeen
  /\ ReportsLeft \/ (tables' = ledger /\ ledger' = ledger)

\* A turn collects its reports and ends.
LEMMA CollectShape ==
  ASSUME IInv, NEW c \in Calls, Collect(c)
  PROVE  Dies \/ Gathers(c)
<1> DEFINE waves == IF calls[c].reports = {} THEN <<>> ELSE Collection(c)
<1>1. /\ calls[c] # NoCall /\ calls[c].at = "next" /\ ByTurn(c) /\ Commit(waves, runs, c, NoCall)
      /\ MailOK(ledger, tables)
  BY DEF Collect, At, ByTurn, Free, IInv
<1>2. \A m \in Addressed(Desk) : ledger[m] # NoMail
  BY <1>1, DeskOK, RowKept, KeptSame DEF NoMail
<1>3. \A m \in Reached(c) : m \in Addressed(Desk)
  BY <1>1, ReachedOK
<1>4. PICK S : waves \in Seq(S)
  <2>1. <<>> \in Seq({})
    OBVIOUS
  <2> QED
    BY <1>1, <2>1, CollectionOK
<1>5. Seen(waves)
  <2>1. CASE waves = <<>>
    BY <2>1 DEF Seen
  <2>2. CASE waves = Collection(c)
    <3> DEFINE by == calls[c].by
               w1 == [m \in Superseded(by) |-> Settled(tables[m], "stale")]
               w2 == [m \in QueuedFor(Desk) \ Superseded(by) |-> Leased(tables[m], by)]
               w3 == [m \in Reached(c) |->
                        Settled(Desked(m, by), IF Outdated(m, by) THEN "stale" ELSE "consumed")]
    <3>1. waves = <<w1, w2, w3>>
      BY <2>2 DEF Collection
    <3>2. DOMAIN w1 \subseteq Addressed(Desk) /\ DOMAIN w2 \subseteq Addressed(Desk)
          /\ DOMAIN w3 \subseteq Addressed(Desk)
      BY <1>3 DEF Superseded, QueuedFor
    <3> HIDE DEF w1, w2, w3, waves
    <3>3. \A n \in DOMAIN waves : waves[n] = w1 \/ waves[n] = w2 \/ waves[n] = w3
      BY <3>1
    <3> QED
      BY <1>2, <3>2, <3>3 DEF Seen
  <2> QED
    BY <2>1, <2>2
<1> HIDE DEF waves
<1>6. CASE Torn(waves, runs)
  BY <1>4, <1>5, <1>6, TornShape
<1>7. CASE Record(waves) /\ runs' = runs /\ Continue(c, NoCall)
  <2>1. NewAreSeen
    BY <1>4, <1>5, <1>7, PlainOK
  <2> QED
    BY <1>1, <1>7, <2>1 DEF Gathers, Idle
<1> QED
  BY <1>1, <1>6, <1>7 DEF Commit

\* The API posts a task, and leases nothing.
LEMMA ApiSubmitShape ==
  ASSUME IInv, ApiSubmit
  PROVE  Alone
<1>1. PICK m \in Messages : \E target \in Agents :
        /\ MayTask(m)
        /\ \/ Record(Submit(m, Posted("task", target, m, 0, revision)))
           \/ \E t \in Addressed(target) :
                Record(Submit(m, Posted("task", target, tables[t].thread, t, revision)))
  BY DEF ApiSubmit
<1>2. PICK target \in Agents :
        /\ MayTask(m)
        /\ \/ Record(Submit(m, Posted("task", target, m, 0, revision)))
           \/ \E t \in Addressed(target) :
                Record(Submit(m, Posted("task", target, tables[t].thread, t, revision)))
  BY <1>1
<1>3. /\ MailOK(ledger, tables) /\ ledger[m] = NoMail /\ revision \in 1 .. MaxRevision
      /\ revision <= revision /\ 0 \in 0 .. MaxRevision
      /\ target \in Helpers /\ target \in Mailboxes
  BY <1>2, HelpersOK, VirtualMailAssumption DEF MayTask, NextMessage, IInv, TypeOK, MailTypeOK
<1>4. \A thread \in Messages, parent \in Messages \union {0} :
        LET row == Posted("task", target, thread, parent, revision)
        IN  row \in MailRow /\ row.revision = revision
  BY <1>3 DEF Posted, MailRow
<1>5. \A thread \in Messages, parent \in Messages \union {0} :
        Record(Submit(m, Posted("task", target, thread, parent, revision))) => NewAreSeen /\ ReportsLeft
  <2> TAKE thread \in Messages, parent \in Messages \union {0}
  <2> HAVE Record(Submit(m, Posted("task", target, thread, parent, revision)))
  <2> DEFINE row == Posted("task", target, thread, parent, revision)
  <2>1. row \in MailRow /\ row.revision <= revision
    BY <1>3, <1>4
  <2> HIDE DEF row
  <2>2. Submit(m, row) \in Seq(AllWaves) /\ Plain(Submit(m, row))
    BY <1>3, <2>1, PlainSubmit
  <2>3. Record(Submit(m, row))
    BY DEF row
  <2> QED
    BY <2>2, <2>3, PlainOK DEF Plain
<1>6. \A t \in Addressed(target) : t \in Messages /\ tables[t].thread \in Messages
  BY <1>3, HelpersTasks DEF MailRow
<1>7. NewAreSeen /\ ReportsLeft
  BY <1>2, <1>5, <1>6
<1> QED
  BY <1>7 DEF ApiSubmit, Alone

\* Arrivals, put-backs and rebuilds touch no call; a crash ends them all.
LEMMA OtherShape ==
  ASSUME IInv
  PROVE  /\ MailArrives \/ PutBack \/ RebuildTables => Alone
         /\ Crash \/ RebuildDies => Dies
<1>1. MailArrives \/ PutBack \/ RebuildTables => Alone
  BY DEF MailArrives, PutBack, RebuildTables, Rebuild, NewMail, RoomPutBack, Alone, NewAreSeen,
         ReportsLeft, mail
<1>2. Crash \/ RebuildDies => Dies
  BY DEF Crash, RebuildDies, RebuildTorn, Dies, NewAreSeen, mail
<1> QED
  BY <1>1, <1>2

\* Every step has one of these shapes.
LEMMA NextShape ==
  ASSUME IInv, Next
  PROVE  /\ \/ Dies
            \/ Alone
            \/ \E c \in Calls : CallShape(c) \/ Gathers(c)
         /\ revision' >= revision \/ May("put_back")
<1>1. \/ Dies
      \/ Alone
      \/ \E c \in Calls : CallShape(c) \/ Gathers(c)
  <2>1. ASSUME NEW c \in Calls, StartTurn(c) \/ ApiDispatch(c) \/ CallStep(c)
        PROVE  Dies \/ CallShape(c) \/ Gathers(c)
    BY <2>1, StartTurnShape, ApiDispatchShape, DelegateShape, LeaveShape, ApiContinuesShape,
       SpawnedShape, SpawnFailsShape, RunEndsShape, ReportFailsShape, WorkerEndsShape, CollectShape
       DEF CallStep
  <2> QED
    BY <2>1, ApiSubmitShape, OtherShape DEF Next
<1>2. revision' >= revision \/ May("put_back")
  <2>0. revision \in Nat
    BY VirtualMailAssumption DEF IInv, TypeOK, MailTypeOK
  <2>1. ASSUME NEW c \in Calls, StartTurn(c) \/ ApiDispatch(c) \/ CallStep(c)
        PROVE  revision' = revision
    BY <2>1 DEF CallStep, StartTurn, ApiDispatch, Delegate, DelegateRefused, ApiContinues, Spawned, SpawnFails,
                RunEnds, ReportFails, WorkerEnds, WorkerFails, Collect
  <2> QED
    BY <2>0, <2>1 DEF Next, ApiSubmit, RebuildTables, Rebuild, RebuildDies, RebuildTorn, Crash,
       MailArrives, PutBack, NewMail
<1> QED
  BY <1>1, <1>2

-----------------------------------------------------------------------------
(* Runs and reports *)

\* Unless it is put back, the room is not behind its messages.
RoomAhead ==
  May("put_back") \/ \A m \in Messages : ledger[m] # NoMail => ledger[m].revision <= revision

\* No step posts for a revision the room has not reached.
LEMMA RoomAheadOK ==
  ASSUME IInv, RoomAhead, Next
  PROVE  RoomAhead'
<1>1. CASE May("put_back")
  BY <1>1, NextRest DEF RoomAhead, May
<1>2. CASE ~ May("put_back")
  <2>1. NewAreSeen /\ revision' >= revision
    BY <1>2, NextShape DEF Dies, Alone, CallShape, Gathers
  <2>2. \A m \in Messages : /\ ledger[m] # NoMail => SameMail(ledger'[m], ledger[m])
                            /\ ledger'[m] \in MailRow \union {NoMail}
    <3>1. CASE RebuildDies
      BY <3>1, RebuildDiesOK DEF IInv, MailOK, SameMail
    <3>2. CASE ~ RebuildDies
      BY <3>2, NextStep DEF Step, MailStep, Kept, MailOK
    <3> QED
      BY <3>1, <3>2
  <2>3. revision \in Nat /\ revision' \in Nat /\ MaxRevision \in Nat
    BY NextRest, VirtualMailAssumption DEF IInv, TypeOK, MailTypeOK
  <2>4. ASSUME NEW m \in Messages, ledger'[m] # NoMail PROVE ledger'[m].revision <= revision'
    <3>1. ledger'[m].revision <= revision
      BY <1>2, <2>1, <2>2, <2>4 DEF RoomAhead, NewAreSeen, SameMail
    <3>2. ledger'[m].revision \in Nat
      BY <2>2, <2>3, <2>4 DEF MailRow
    <3> QED
      BY <2>1, <2>3, <3>1, <3>2
  <2> QED
    BY <2>4 DEF RoomAhead
<1> QED
  BY <1>1, <1>2

\* A turn that is alone has its reports as they were posted.
OwnReports ==
  May("slow_turn") \/
    /\ \A c, d \in Calls : ByTurn(c) /\ ByTurn(d) => c = d
    /\ \A c \in Calls : calls[c] # NoCall =>
         \A m \in calls[c].reports : tables[m] = ledger[m] /\ tables[m].status = "queued"

\* No step takes a report from the one turn there is.
LEMMA OwnReportsOK ==
  ASSUME IInv, OwnReports, Next
  PROVE  OwnReports'
<1> DEFINE AsPosted(m) == tables[m] = ledger[m] /\ tables[m].status = "queued"
<1>1. CASE May("slow_turn")
  BY <1>1, NextRest DEF OwnReports, May
<1>2. CASE ~ May("slow_turn")
  <2>1. /\ \A c, d \in Calls : ByTurn(c) /\ ByTurn(d) => c = d
        /\ \A c \in Calls : calls[c] # NoCall => \A m \in calls[c].reports : AsPosted(m)
    BY <1>2 DEF OwnReports
  <2>2. \A c \in Calls : calls[c] # NoCall =>
          /\ \A m \in calls[c].reports : m \in Messages /\ tables[m].kind = "report"
          /\ calls[c].by = 0 => calls[c].reports = {}
    BY DEF IInv, TypeOK, CallsOK, CallOK, AnswersTurn, Call
  <2>3. calls \in [Calls -> Call \union {NoCall}]
    BY DEF IInv, TypeOK
  <2> HIDE DEF IInv
  <2>4. CASE Dies
    BY <2>4 DEF Dies, OwnReports, ByTurn, Free
  <2>5. CASE Alone
    <3>1. \A c \in Calls : calls[c] # NoCall => \A m \in calls[c].reports : AsPosted(m)'
      BY <2>1, <2>2, <2>5 DEF Alone, ReportsLeft
    <3> QED
      BY <2>1, <2>5, <3>1 DEF Alone, OwnReports, ByTurn, Free
  <2>6. ASSUME NEW c \in Calls, Gathers(c) PROVE OwnReports'
    <3>1. calls'[c] = NoCall /\ \A d \in Calls \ {c} : calls'[d] = calls[d]
      BY <2>3, <2>6 DEF Gathers, Continue
    <3>2. \A d \in Calls : calls'[d] # NoCall => calls'[d].reports = {}
      BY <2>1, <2>2, <2>6, <3>1 DEF Gathers, ByTurn, Free
    <3>3. \A d, e \in Calls : ByTurn(d)' /\ ByTurn(e)' => d = e
      BY <2>1, <3>1 DEF ByTurn, Free
    <3> QED
      BY <3>2, <3>3 DEF OwnReports
  <2>7. ASSUME NEW c \in Calls, CallShape(c) PROVE OwnReports'
    <3>1. PICK new : Continue(c, new) /\ GoesOn(c, new) /\ ReportsLeft
      BY <2>7 DEF CallShape
    <3>2. calls'[c] = new /\ \A d \in Calls \ {c} : calls'[d] = calls[d]
      BY <2>3, <3>1 DEF Continue
    <3>3. \A d \in Calls : calls[d] # NoCall => \A m \in calls[d].reports : AsPosted(m)'
      BY <2>1, <2>2, <3>1 DEF ReportsLeft
    <3>4. new # NoCall => \A m \in new.reports : AsPosted(m)'
      BY <3>1, <3>3 DEF GoesOn
    <3>5. \A d \in Calls : calls'[d] # NoCall => \A m \in calls'[d].reports : AsPosted(m)'
      BY <3>2, <3>3, <3>4
    <3>6. new = NoCall \/ new.by = 0 \/ ByTurn(c) \/ \A d \in Calls : ~ ByTurn(d)
      BY <1>2, <3>1 DEF GoesOn, ByTurn, Free
    <3>7. \A d, e \in Calls : ByTurn(d)' /\ ByTurn(e)' => d = e
      BY <2>1, <3>2, <3>6 DEF ByTurn, Free
    <3> QED
      BY <3>5, <3>7 DEF OwnReports
  <2> QED
    BY <2>4, <2>5, <2>6, <2>7, NextShape
<1> QED
  BY <1>1, <1>2

\* A turn that is alone in its room can always take the reports on its tasks:
\* none of them is superseded, settled or leased by another before it does.
THEOREM OwnReportsCanBeHad == Spec => []ReportsObtainable
<1>1. Init => OwnReports
  BY DEF Init, OwnReports, ByTurn, Free
<1>2. IInv /\ OwnReports /\ [Next]_vars => OwnReports'
  <2>1. ASSUME UNCHANGED vars, OwnReports PROVE OwnReports'
    BY <2>1 DEF vars, mail, OwnReports, May, ByTurn, Free
  <2> QED
    BY <2>1, OwnReportsOK
<1>3. ASSUME IInv, OwnReports PROVE ReportsObtainable
  <2>1. ASSUME ~ May("slow_turn"), NEW c \in Calls, calls[c] # NoCall, NEW m \in calls[c].reports
        PROVE  m \notin Unobtainable(c)
    <3> DEFINE by == calls[c].by
    <3>1. /\ MailOK(ledger, tables) /\ calls[c] \in Call /\ CallOK(calls[c], ledger, tables, runs)
          /\ MaxRevision \in Nat
      BY <1>3, <2>1, VirtualMailAssumption DEF IInv, TypeOK, CallsOK
    <3>2. m \in Messages /\ AnswersTurn(m, by, ledger, tables)
      BY <2>1, <3>1 DEF CallOK, Call
    <3>3. tables[m] = ledger[m] /\ tables[m].status = "queued"
      BY <1>3, <2>1 DEF OwnReports
    <3>4. m \in Addressed(Desk) /\ tables[m] \in MailRow
      BY <3>1, <3>2, DeskOK, ReportsOK DEF AnswersTurn
    <3>5. m \notin Superseded(by)
      <4>1. tables[m].revision >= by /\ tables[m].revision \in Nat /\ by \in Nat
        BY <3>1, <3>2, <3>3, <3>4 DEF AnswersTurn, MailRow, Call
      <4> QED
        BY <4>1 DEF Superseded
    <3>6. m \in QueuedFor(Desk)
      BY <3>3, <3>4 DEF QueuedFor
    <3>7. Desked(m, by) = Leased(tables[m], by)
      BY <3>5, <3>6 DEF Desked
    <3>8. Leased(tables[m], by).status = "leased" /\ Leased(tables[m], by).owner = by
      BY <3>4 DEF Leased, MailRow
    <3>9. Consumable(Desked(m, by), by)
      BY <3>7, <3>8 DEF Consumable
    <3> QED
      BY <3>9 DEF Unobtainable
  <2> QED
    BY <2>1 DEF ReportsObtainable, May, Free, Unobtainable
<1> QED
  BY <1>1, <1>2, <1>3, Invariance, PTL DEF Spec

\* The bound holds for each target and thread.
BoundOK ==
  \A h \in Agents, th \in Messages :
    Mode[h] = "bound" => Cardinality(ActiveRuns(th, h)) <= MaxActive

\* The active runs can be counted.
LEMMA ActiveOK ==
  ASSUME runs \in Seq(Run), NEW th, NEW h
  PROVE  IsFiniteSet(ActiveRuns(th, h)) /\ Cardinality(ActiveRuns(th, h)) \in Nat
<1>1. IsFiniteSet(1 .. Len(runs)) /\ DOMAIN runs = 1 .. Len(runs)
  BY FS_Interval
<1>2. ActiveRuns(th, h) \in SUBSET (1 .. Len(runs))
  BY <1>1 DEF ActiveRuns
<1>3. IsFiniteSet(ActiveRuns(th, h))
  BY <1>1, <1>2, FS_Subset
<1> QED
  BY <1>3, FS_CardinalityType

\* Runs that have ended do not count.
LEMMA EndedBound ==
  ASSUME runs \in Seq(Run), BoundOK, NEW i, NEW s \in EndStates, runs' = WithStatus(i, s)
  PROVE  BoundOK'
<1>1. s \in {"running", "completed", "failed", "stale"} /\ s # "running"
  BY DEF EndStates
<1>2. /\ runs' \in Seq(Run) /\ DOMAIN runs' = DOMAIN runs
      /\ \A j \in DOMAIN runs : /\ runs'[j].thread = runs[j].thread
                                /\ runs'[j].target = runs[j].target
                                /\ runs'[j].status = IF j = i THEN s ELSE runs[j].status
  BY <1>1, RunsSettled
<1>3. ASSUME NEW h \in Agents, NEW th \in Messages, Mode[h] = "bound"
      PROVE  Cardinality(ActiveRuns(th, h)') <= MaxActive
  <2>1. ActiveRuns(th, h)' \in SUBSET ActiveRuns(th, h)
    BY <1>1, <1>2 DEF ActiveRuns
  <2>2. /\ Cardinality(ActiveRuns(th, h)') <= Cardinality(ActiveRuns(th, h))
        /\ IsFiniteSet(ActiveRuns(th, h)')
    BY <2>1, ActiveOK, FS_Subset
  <2>3. Cardinality(ActiveRuns(th, h)') \in Nat /\ Cardinality(ActiveRuns(th, h)) \in Nat /\ MaxActive \in Nat
    BY <2>2, ActiveOK, FS_CardinalityType, SubAgentRunsAssumption
  <2> QED
    BY <1>3, <2>2, <2>3 DEF BoundOK
<1> QED
  BY <1>3 DEF BoundOK

\* Nor does one more, if it is a burst or the limit is not reached.
LEMMA AcceptedBound ==
  ASSUME runs \in Seq(Run), BoundOK, NEW t, NEW row, runs' = Accepted(t, row),
         Mode[row.to] = "bound" => ~ LimitReached(row)
  PROVE  BoundOK'
<1> DEFINE n == Len(runs) + 1
           run == [task |-> t, thread |-> row.thread, target |-> row.to, status |-> "running"]
<1>1. /\ runs' = Append(runs, run) /\ n \in Nat /\ n \notin DOMAIN runs
      /\ DOMAIN runs' = DOMAIN runs \union {n} /\ runs'[n] = run
      /\ \A i \in DOMAIN runs : runs'[i] = runs[i]
  BY DEF Accepted
<1>2. ASSUME NEW h \in Agents, NEW th \in Messages, Mode[h] = "bound"
      PROVE  Cardinality(ActiveRuns(th, h)') <= MaxActive
  <2>0. Cardinality(ActiveRuns(th, h)) <= MaxActive /\ Cardinality(ActiveRuns(th, h)) \in Nat
        /\ MaxActive \in Nat /\ IsFiniteSet(ActiveRuns(th, h))
    BY <1>2, ActiveOK, SubAgentRunsAssumption DEF BoundOK
  <2>1. CASE row.thread = th /\ row.to = h
    <3>1. ActiveRuns(th, h)' = ActiveRuns(th, h) \union {n} /\ n \notin ActiveRuns(th, h)
      BY <1>1, <2>1 DEF ActiveRuns
    <3>2. Cardinality(ActiveRuns(th, h)') = Cardinality(ActiveRuns(th, h)) + 1
      BY <2>0, <3>1, FS_AddElement
    <3>3. ~ (Cardinality(ActiveRuns(th, h)) >= MaxActive)
      BY <1>2, <2>1 DEF LimitReached
    <3> QED
      BY <2>0, <3>2, <3>3
  <2>2. CASE ~ (row.thread = th /\ row.to = h)
    <3>1. ActiveRuns(th, h)' = ActiveRuns(th, h)
      BY <1>1, <2>2 DEF ActiveRuns
    <3> QED
      BY <2>0, <3>1
  <2> QED
    BY <2>1, <2>2
<1> QED
  BY <1>2 DEF BoundOK

\* No step exceeds the limit: a run is added below it, and none is revived.
LEMMA BoundStep ==
  ASSUME IInv, BoundOK, Next
  PROVE  BoundOK'
<1>0. runs \in Seq(Run)
  BY DEF IInv, TypeOK
<1>1. ASSUME runs' = runs PROVE BoundOK'
  BY <1>1 DEF BoundOK, ActiveRuns
<1>2. \/ runs' = runs
      \/ \E i : \E s \in EndStates : runs' = WithStatus(i, s)
      \/ \E t, row : runs' = Accepted(t, row) /\ (Mode[row.to] = "bound" => ~ LimitReached(row))
  BY NextShape DEF Dies, Alone, CallShape, Gathers, RunsGo
<1> QED
  BY <1>0, <1>1, <1>2, EndedBound, AcceptedBound

\* Nobody dies, no report is lost, and the room is not put back.
Orderly == scenario.events \subseteq {"slow_turn", "rebuild", "run_fails", "api"}

Watches(C, c, t) == C[c] # NoCall /\ C[c].at = "working" /\ C[c].task = t

Watched ==
  Orderly => \A i \in DOMAIN runs : runs[i].status = "running" => \E c \in Calls : Watches(calls, c, runs[i].task)

\* What an idle call watches is no run.
LEMMA IdleWatches ==
  ASSUME IInv, ~ May("torn_rebuild"), NEW c \in Calls, Idle(c), NEW i \in DOMAIN runs
  PROVE  ~ Watches(calls, c, runs[i].task)
<1>1. RunOK(runs[i], ledger, tables) /\ MailOK(ledger, tables) /\ runs[i] \in Run
  BY DEF IInv, TypeOK, RunsOK
<1> DEFINE t == runs[i].task
<1>2. t \in Messages /\ tables[t] # NoMail /\ Mode[ledger[t].to] # "worker"
  BY <1>1, HelpersOK DEF RunOK, Run, Taken, NoMail
<1>3. tables[t].to = ledger[t].to
  <2>1. SameMail(tables[t], ledger[t])
    BY <1>1, <1>2, RowKept, KeptSame
  <2> QED
    BY <2>1 DEF SameMail
<1> QED
  BY <1>2, <1>3 DEF Watches, Idle

\* The run of a task is the only one.
LEMMA RunOfIs ==
  ASSUME IInv, ~ May("torn_rebuild"), NEW i \in DOMAIN runs
  PROVE  RunOf(runs[i].task) = i
<1> DEFINE S == {j \in DOMAIN runs : runs[j].task = runs[i].task}
<1>1. \A j \in DOMAIN runs : runs[j].task = runs[i].task => j = i
  BY DEF IInv, RunsOK
<1>2. i \in S /\ (\A j \in S : j <= i) /\ S \subseteq Nat
  <2>1. DOMAIN runs \subseteq Nat /\ i \in Nat
    BY DEF IInv, TypeOK
  <2> QED
    BY <1>1, <2>1
<1> HIDE DEF S
<1>3. Max(S) = i
  BY <1>2, MaxIs
<1> QED
  BY <1>3 DEF RunOf, S

\* In order, every active run stays in the hands of the call that began it.
LEMMA WatchedStep ==
  ASSUME IInv, RoomAhead, Watched, Next
  PROVE  Watched'
<1>1. Orderly' => Orderly
  BY NextRest DEF Orderly
<1>2. ASSUME Orderly
      PROVE  \A i \in DOMAIN runs' : runs'[i].status = "running" => \E c \in Calls : Watches(calls', c, runs'[i].task)
  <2>1. /\ ~ May("put_back") /\ ~ May("disk_fails") /\ ~ May("torn_write") /\ ~ May("crash")
        /\ ~ May("torn_rebuild")
        /\ \A i \in DOMAIN runs : runs[i].status = "running" => \E c \in Calls : Watches(calls, c, runs[i].task)
    BY <1>2 DEF Orderly, Watched, May
  <2>2. runs \in Seq(Run) /\ calls \in [Calls -> Call \union {NoCall}]
    BY DEF IInv, TypeOK
  <2>3. CASE Alone
    BY <2>1, <2>3 DEF Alone, Watches
  <2>4. ASSUME NEW c \in Calls, NEW new, Continue(c, new), Idle(c), runs' = runs
        PROVE  \A i \in DOMAIN runs' : runs'[i].status = "running" => \E d \in Calls : Watches(calls', d, runs'[i].task)
    <3> TAKE i \in DOMAIN runs'
    <3> HAVE runs'[i].status = "running"
    <3>1. PICK d \in Calls : Watches(calls, d, runs[i].task)
      BY <2>1, <2>4
    <3>2. d # c
      BY <2>1, <2>4, <3>1, IdleWatches
    <3>3. calls'[d] = calls[d]
      BY <2>2, <2>4, <3>2 DEF Continue
    <3> QED
      BY <2>4, <3>1, <3>3 DEF Watches
  <2>5. ASSUME NEW c \in Calls, CallShape(c)
        PROVE  \A i \in DOMAIN runs' : runs'[i].status = "running" => \E d \in Calls : Watches(calls', d, runs'[i].task)
    <3>1. PICK new : Continue(c, new) /\ RunsGo(c, new)
      BY <2>5 DEF CallShape
    <3>2. calls'[c] = new /\ \A d \in Calls \ {c} : calls'[d] = calls[d]
      BY <2>2, <3>1 DEF Continue
    <3>3. CASE runs' = runs /\ (Idle(c) \/ May("disk_fails") \/ Refused(tables[calls[c].task]))
      <4>1. Idle(c)
        <5>1. SUFFICES ASSUME ~ Idle(c), Refused(tables[calls[c].task]) PROVE FALSE
          BY <2>1, <3>3
        <5>2. /\ calls[c].task \in Messages /\ tables[calls[c].task] = ledger[calls[c].task]
              /\ tables[calls[c].task] \in MailRow
          BY <5>1, WorkingOK DEF Idle
        <5>3. ledger[calls[c].task].revision <= revision /\ ledger[calls[c].task].revision \in Nat
              /\ revision \in Nat
          <6>1. MaxRevision \in Nat /\ revision \in 1 .. MaxRevision
            BY VirtualMailAssumption DEF IInv, TypeOK, MailTypeOK
          <6>2. ledger[calls[c].task] # NoMail
            BY <5>2 DEF MailRow, NoMail
          <6> QED
            BY <2>1, <5>2, <6>1, <6>2 DEF RoomAhead, MailRow
        <5> QED
          BY <5>1, <5>2, <5>3 DEF Refused
      <4> QED
        BY <2>4, <3>1, <3>3, <4>1
    <3>4. CASE /\ Idle(c) /\ new # NoCall /\ new.at = "working"
               /\ \E row : runs' = Accepted(new.task, row)
      <4>1. PICK row : runs' = Accepted(new.task, row)
        BY <3>4
      <4> DEFINE n == Len(runs) + 1
      <4>2. /\ DOMAIN runs' = DOMAIN runs \union {n} /\ runs'[n].task = new.task
            /\ \A i \in DOMAIN runs : runs'[i] = runs[i]
        BY <2>2, <4>1 DEF Accepted
      <4>3. Watches(calls', c, new.task)
        BY <3>2, <3>4 DEF Watches
      <4>4. ASSUME NEW i \in DOMAIN runs, runs[i].status = "running"
            PROVE  \E d \in Calls : Watches(calls', d, runs[i].task)
        <5>1. PICK d \in Calls : Watches(calls, d, runs[i].task)
          BY <2>1, <4>4
        <5>2. d # c
          BY <2>1, <3>4, <5>1, IdleWatches
        <5> QED
          BY <3>2, <5>1, <5>2 DEF Watches
      <4> HIDE DEF n
      <4> QED
        BY <4>2, <4>3, <4>4
    <3>5. CASE calls[c] # NoCall /\ \E s \in EndStates : runs' = WithStatus(RunOf(calls[c].task), s)
      <4>1. PICK s \in EndStates : runs' = WithStatus(RunOf(calls[c].task), s)
        BY <3>5
      <4>2. s \in {"running", "completed", "failed", "stale"} /\ s # "running"
        BY DEF EndStates
      <4>3. /\ DOMAIN runs' = DOMAIN runs
            /\ \A j \in DOMAIN runs : /\ runs'[j].task = runs[j].task
                                      /\ runs'[j].status = IF j = RunOf(calls[c].task) THEN s ELSE runs[j].status
        BY <2>2, <4>1, <4>2, RunsSettled
      <4>4. ASSUME NEW i \in DOMAIN runs, runs'[i].status = "running"
            PROVE  \E d \in Calls : Watches(calls', d, runs[i].task)
        <5>1. i # RunOf(calls[c].task) /\ runs[i].status = "running"
          BY <4>2, <4>3, <4>4
        <5>2. PICK d \in Calls : Watches(calls, d, runs[i].task)
          BY <2>1, <5>1
        <5>3. d # c
          BY <2>1, <5>1, <5>2, RunOfIs DEF Watches
        <5> QED
          BY <3>2, <5>2, <5>3 DEF Watches
      <4> QED
        BY <4>3, <4>4
    <3> QED
      BY <3>1, <3>3, <3>4, <3>5 DEF RunsGo
  <2> QED
    BY <2>1, <2>3, <2>4, <2>5, NextShape DEF Dies, Gathers
<1> QED
  BY <1>1, <1>2 DEF Watched

\* The limit of a target is never exceeded by bound runs, and unless something
\* dies or cannot be posted, whatever counts against it is being watched.
THEOREM TheLimitHolds == Spec => []LimitCountsLiveRuns
<1> DEFINE LInv == RoomAhead /\ BoundOK /\ Watched
<1>1. Init => LInv
  <2> SUFFICES ASSUME Init PROVE LInv
    OBVIOUS
  <2>1. RoomAhead /\ Watched
    BY DEF Init, MailInit, RoomAhead, Watched
  <2>2. \A h, th : ActiveRuns(th, h) = {}
    BY DEF Init, ActiveRuns
  <2>3. BoundOK
    <3>1. 0 <= MaxActive
      BY SubAgentRunsAssumption
    <3>2. \A h, th : Cardinality(ActiveRuns(th, h)) = 0
      BY <2>2, FS_EmptySet
    <3> QED
      BY <3>1, <3>2 DEF BoundOK
  <2> QED
    BY <2>1, <2>3
<1>2. IInv /\ LInv /\ [Next]_vars => LInv'
  <2>1. ASSUME UNCHANGED vars, LInv PROVE LInv'
    BY <2>1 DEF vars, mail, RoomAhead, BoundOK, ActiveRuns, Watched, Orderly, Watches, May
  <2> QED
    BY <2>1, RoomAheadOK, BoundStep, WatchedStep
<1>3. IInv /\ LInv => LimitCountsLiveRuns
  <2> SUFFICES ASSUME IInv, LInv, NEW i \in DOMAIN runs
        PROVE  /\ Mode[runs[i].target] = "bound" =>
                    Cardinality(ActiveRuns(runs[i].thread, runs[i].target)) <= MaxActive
               /\ Orderly /\ runs[i].status = "running" =>
                    \E c \in Calls : At(c, "working") /\ calls[c].task = runs[i].task
    BY DEF LimitCountsLiveRuns, Orderly
  <2>1. runs[i].target \in Agents /\ runs[i].thread \in Messages
    <3>1. runs[i] \in Run
      BY DEF IInv, TypeOK
    <3> QED
      BY <3>1 DEF Run
  <2> QED
    BY <2>1 DEF BoundOK, Watched, Watches, At, Free
<1> QED
  BY <1>1, <1>2, <1>3, Invariance, PTL DEF Spec

-----------------------------------------------------------------------------
(* Tasks *)

Quiet == scenario.events \intersect {"api", "torn_write", "torn_rebuild"} = {}

Calm == scenario.events \subseteq {"slow_turn", "rebuild"}

\* The call has the task in its hands.
Onto(call, m) == call # NoCall /\ call.at # "next" /\ call.task = m

\* A turn's worker has leased the very task it works on.
WorkersBatch(call, T) ==
  call # NoCall /\ call.at = "working" /\ Mode[T[call.task].to] = "worker" => call.batch = {call.task}

TasksTaken == \A m \in Messages : tables[m].kind = "task" => Taken(tables[m])

InHands ==
  \A m \in Messages : tables[m].kind = "task" /\ tables[m].status = "leased" =>
    \E c \in Calls : Onto(calls[c], m)

Attended ==
  /\ Quiet => /\ TasksTaken
              /\ \A c \in Calls : /\ WorkersBatch(calls[c], tables)
                                  /\ calls[c] # NoCall => calls[c].by # 0
  /\ Calm => tables = ledger /\ InHands

\* What a step of a call makes of the tasks.
TasksGo(c, new) ==
  \A m \in Messages : tables'[m].kind = "task" =>
    \/ tables'[m] = tables[m] /\ (Calm /\ Onto(calls[c], m) => Onto(new, m))
    \/ Taken(tables'[m]) /\ (Calm /\ tables'[m].status = "leased" => Onto(new, m))

Attends(c) ==
  \E new : /\ Continue(c, new)
           /\ new # NoCall => new.by # 0
           /\ TasksGo(c, new)
           /\ WorkersBatch(new, tables')
           /\ Calm => tables' = ledger'

\* What cannot happen in a calm, and in a quiet, scenario.
LEMMA CalmIs ==
  /\ Calm => /\ Quiet /\ ~ May("put_back") /\ ~ May("run_fails") /\ ~ May("disk_fails")
             /\ ~ May("crash")
  /\ Quiet => ~ May("api") /\ ~ May("torn_write") /\ ~ May("torn_rebuild")
BY DEF Calm, Quiet, May

\* With the room ahead of its messages, no report is refused.
LEMMA NotRefused ==
  ASSUME IInv, RoomAhead, ~ May("put_back"), NEW t \in Messages, tables[t].kind = "task"
  PROVE  ~ Refused(tables[t])
<1>1. tables[t] # NoMail /\ MailOK(ledger, tables)
  BY DEF NoMail, IInv
<1>2. SameMail(tables[t], ledger[t]) /\ ledger[t] # NoMail /\ tables[t] \in MailRow
  BY <1>1, RowKept, KeptSame DEF MailOK
<1>3. revision \in Nat /\ tables[t].revision \in Nat /\ ledger[t].revision <= revision
  BY <1>2, VirtualMailAssumption DEF RoomAhead, IInv, TypeOK, MailTypeOK, MailRow
<1> QED
  BY <1>2, <1>3 DEF Refused, SameMail

\* A call that writes nothing and lets nothing go.
LEMMA AttendsSame ==
  ASSUME IInv, Attended, Quiet, NEW c \in Calls, UNCHANGED mail, NEW new, Continue(c, new),
         new # NoCall => new.by # 0,
         Calm => \A m \in Messages : Onto(calls[c], m) => Onto(new, m),
         WorkersBatch(new, tables)
  PROVE  Attends(c)
<1>1. TasksGo(c, new) /\ tables' = tables /\ ledger' = ledger
  BY DEF TasksGo, mail
<1> QED
  BY <1>1 DEF Attends, Attended

\* A turn begins with no task.
LEMMA StartTurnAttends ==
  ASSUME IInv, Attended, Quiet, NEW c \in Calls, StartTurn(c)
  PROVE  Attends(c)
<1>1. PICK plan \in Plans :
        Continue(c, [by |-> revision, at |-> "next", todo |-> plan, batch |-> {},
                     task |-> 0, own |-> 0, reports |-> {}])
  BY DEF StartTurn
<1> DEFINE new == [by |-> revision, at |-> "next", todo |-> plan, batch |-> {},
                   task |-> 0, own |-> 0, reports |-> {}]
<1>2. new.by # 0 /\ new.at = "next"
  BY VirtualMailAssumption DEF IInv, TypeOK, MailTypeOK
<1>3. Continue(c, new) /\ UNCHANGED mail /\ calls[c] = NoCall
  BY <1>1 DEF StartTurn, Free, mail
<1> HIDE DEF new
<1>4. WorkersBatch(new, tables) /\ \A m \in Messages : Onto(calls[c], m) => Onto(new, m)
  BY <1>2, <1>3 DEF WorkersBatch, Onto
<1> QED
  BY <1>2, <1>3, <1>4, AttendsSame

\* A call throws before it has a task, or fails: not in a calm scenario.
LEMMA LeaveAttends ==
  ASSUME IInv, Attended, RoomAhead, Quiet, NEW c \in Calls, DelegateRefused(c) \/ WorkerFails(c)
  PROVE  Attends(c)
<1>1. Continue(c, NoCall) /\ UNCHANGED mail
  BY DEF DelegateRefused, WorkerFails, Leave, mail
<1>2. WorkersBatch(NoCall, tables)
  BY DEF WorkersBatch
<1>3. Calm => \A m \in Messages : ~ Onto(calls[c], m)
  <2>1. CASE DelegateRefused(c)
    BY <2>1 DEF DelegateRefused, At, Onto
  <2>2. CASE WorkerFails(c)
    <3>1. calls[c] # NoCall /\ calls[c].at # "next"
      BY <2>2 DEF WorkerFails, At, Free
    <3>2. calls[c].task \in Messages /\ tables[calls[c].task].kind = "task"
      BY <3>1 DEF IInv, CallsOK, CallOK, IsTask
    <3> QED
      BY <2>2, <3>2, NotRefused, CalmIs DEF WorkerFails
  <2> QED
    BY <2>1, <2>2
<1> QED
  BY <1>1, <1>2, <1>3, AttendsSame

\* A run that is accepted is worked on.
LEMMA SpawnedAttends ==
  ASSUME IInv, Attended, Quiet, NEW c \in Calls, Spawned(c)
  PROVE  Attends(c)
<1> DEFINE new == [calls[c] EXCEPT !.at = "working"]
<1>1. /\ calls[c] # NoCall /\ calls[c] \in Call /\ calls[c].at = "spawning"
      /\ CallOK(calls[c], ledger, tables, runs)
      /\ Continue(c, new) /\ UNCHANGED mail
  BY DEF Spawned, At, Free, IInv, TypeOK, CallsOK, mail
<1>2. /\ new.by = calls[c].by /\ new.at = "working" /\ new.task = calls[c].task /\ new \in Call
      /\ Mode[tables[calls[c].task].to] # "worker"
  BY <1>1 DEF Call, CallOK
<1> HIDE DEF new
<1>3. WorkersBatch(new, tables) /\ \A m \in Messages : Onto(calls[c], m) => Onto(new, m)
  BY <1>1, <1>2, NoCallAssumption DEF WorkersBatch, Onto
<1>4. new.by # 0
  BY <1>1, <1>2 DEF Attended
<1> QED
  BY <1>1, <1>3, <1>4, AttendsSame

\* A call lets go of its task, which has been settled.
LEMMA AttendsSettled ==
  ASSUME IInv, Attended, Quiet, NEW c \in Calls, calls[c] # NoCall, NEW new, Continue(c, new),
         new = NoCall \/ (new.at = "next" /\ new.by = calls[c].by),
         Taken(tables'[calls[c].task]),
         Calm => tables'[calls[c].task].status # "leased" /\ tables' = ledger',
         \A m \in Messages \ {calls[c].task} : tables'[m] = tables[m] \/ tables'[m].kind # "task"
  PROVE  Attends(c)
<1>1. TasksGo(c, new)
  BY DEF TasksGo, Onto
<1>2. WorkersBatch(new, tables') /\ (new # NoCall => new.by # 0)
  BY DEF WorkersBatch, Attended
<1> QED
  BY <1>1, <1>2 DEF Attends

\* One that is not leaves its task: not in a calm scenario.
LEMMA SpawnFailsAttends ==
  ASSUME IInv, Attended, Quiet, NEW c \in Calls, SpawnFails(c)
  PROVE  Attends(c)
<1> DEFINE t == calls[c].task
           new == Thrown(calls[c])
<1>1. /\ calls[c] # NoCall /\ calls[c] \in Call /\ calls[c].at # "next"
      /\ CallOK(calls[c], ledger, tables, runs) /\ May("run_fails")
      /\ Continue(c, new) /\ tables' = [tables EXCEPT ![t] = Settled(@, "blocked")]
      /\ tables \in [Messages -> MailRow \union {NoMail}]
  BY DEF SpawnFails, Block, At, Free, IInv, TypeOK, CallsOK, MailOK
<1>2. t \in Messages /\ tables[t].kind = "task"
  BY <1>1 DEF CallOK, IsTask
<1>3. tables[t] \in MailRow /\ tables'[t] = Settled(tables[t], "blocked")
      /\ \A m \in Messages \ {t} : tables'[m] = tables[m]
  BY <1>1, <1>2 DEF NoMail
<1>4. Taken(tables'[t]) /\ ~ Calm
  <2>1. ~ Calm
    BY <1>1, CalmIs
  <2>2. Settled(tables[t], "blocked").status = "blocked"
    BY <1>3 DEF Settled, MailRow
  <2> QED
    BY <1>3, <2>1, <2>2 DEF Taken
<1>5. new = NoCall \/ (new.at = "next" /\ new.by = calls[c].by)
  BY <1>1, ThrownIs DEF Call
<1> HIDE DEF new, t
<1>6. Taken(tables'[calls[c].task]) /\ \A m \in Messages \ {calls[c].task} : tables'[m] = tables[m]
  BY <1>3, <1>4 DEF t
<1> QED
  BY <1>1, <1>4, <1>5, <1>6, AttendsSettled

\* A report is not lost: not in a calm scenario.
LEMMA ReportFailsAttends ==
  ASSUME IInv, Attended, RoomAhead, Quiet, NEW c \in Calls, ReportFails(c)
  PROVE  Attends(c)
<1> DEFINE t == calls[c].task
           new == Thrown(calls[c])
<1>1. /\ calls[c] # NoCall /\ calls[c].at # "next" /\ Mode[tables[t].to] # "worker"
      /\ Refused(tables[t]) \/ May("disk_fails")
      /\ Continue(c, new) /\ tables' = [tables EXCEPT ![t] = Settled(@, "blocked")]
      /\ tables \in [Messages -> MailRow \union {NoMail}]
  BY DEF ReportFails, At, Free, IInv, MailOK
<1>2. t \in Messages /\ tables[t].kind = "task" /\ calls[c] \in Call /\ tables[t] \in MailRow
  BY <1>1, WorkingOK
<1>3. tables'[t] = Settled(tables[t], "blocked") /\ \A m \in Messages \ {t} : tables'[m] = tables[m]
  BY <1>1, <1>2
<1>4. Taken(tables'[t]) /\ ~ Calm
  BY <1>1, <1>2, <1>3, CalmIs, NotRefused DEF Taken, Settled, MailRow
<1>5. new = NoCall \/ (new.at = "next" /\ new.by = calls[c].by)
  BY <1>2, ThrownIs DEF Call
<1> HIDE DEF new, t
<1>6. Taken(tables'[calls[c].task]) /\ \A m \in Messages \ {calls[c].task} : tables'[m] = tables[m]
  BY <1>3, <1>4 DEF t
<1> QED
  BY <1>1, <1>4, <1>5, <1>6, AttendsSettled

\* What is not written by a call's waves, and not torn, is recorded.
LEMMA Recorded ==
  ASSUME Quiet, NEW c \in Calls, NEW waves, NEW newRuns, NEW new
  PROVE  /\ Commit(waves, newRuns, c, new) => Record(waves) /\ Continue(c, new)
         /\ ~ Torn(waves, newRuns)
BY CalmIs DEF Commit, Torn

\* A block that is recorded whole leaves the tables with the ledger.
LEMMA RecordSame ==
  ASSUME NEW waves, Record(waves), tables = ledger
  PROVE  tables' = ledger'
BY DEF Record, Appended

\* A run that ends settles its task.
LEMMA RunEndsAttends ==
  ASSUME IInv, Attended, Quiet, NEW c \in Calls, RunEnds(c)
  PROVE  Attends(c)
<1> DEFINE t == calls[c].task
           row == tables[t]
           rep == Report(t, row)
<1>1. PICK m \in Messages, thrown \in BOOLEAN, status \in {"completed", "failed"} :
        LET marked == Staled(t, row, thrown)
            waves == marked \o Submit(m, rep)
                       \o (IF marked = <<>> /\ Open(row) THEN Consume(t, row) ELSE <<>>)
            ended == [runs EXCEPT ![RunOf(t)].status = RunStatus(row, status)]
        IN  /\ NextMessage(m)
            /\ ~ Refused(row)
            /\ \/ Commit(waves, ended, c, Onward(Reported(calls[c], m)))
               \/ Torn(waves, ended)
  BY DEF RunEnds
<1> DEFINE waves == Ending(m, t, row, thrown)
           new == Onward(Reported(calls[c], m))
<1>2. /\ calls[c] # NoCall /\ calls[c].at # "next" /\ Mode[tables[t].to] # "worker"
      /\ ledger[m] = NoMail /\ ~ Refused(row)
  BY <1>1 DEF RunEnds, At, Free, NextMessage
<1>3. /\ t \in Messages /\ tables[t] = ledger[t] /\ tables[t].status = "leased"
      /\ tables[t].kind = "task" /\ tables[t] \in MailRow /\ calls[c] \in Call
  BY <1>2, WorkingOK
<1>4. Reporting(rep) /\ MailOK(ledger, tables)
  BY <1>2, <1>3, ReportIs DEF IInv
<1>5. PICK s \in {"consumed", "stale"} : Writes(waves, m, rep, t, Settled(row, s))
  BY <1>2, <1>3, <1>4, EndingOK
<1>6. Record(waves) /\ Continue(c, new)
  BY <1>1, Recorded DEF Ending
<1>7. /\ tables'[m] = rep /\ tables'[t] = Settled(row, s)
      /\ \A l \in Messages \ {m, t} : tables'[l] = tables[l]
  BY <1>5, <1>6 DEF Writes, Record
<1>8. Settled(row, s).status = s
  BY <1>3 DEF Settled, MailRow
<1>9. tables'[m].kind # "task"
  BY <1>4, <1>7 DEF Reporting
<1>10. new = NoCall \/ (new.at = "next" /\ new.by = calls[c].by)
  <2>1. Reported(calls[c], m) \in {calls[c], [calls[c] EXCEPT !.reports = @ \union {m}]}
    BY DEF Reported
  <2>2. Reported(calls[c], m).by = calls[c].by /\ DOMAIN Reported(calls[c], m) = DOMAIN calls[c]
    BY <1>3, <2>1 DEF Call
  <2>3. new \in {NoCall, [Reported(calls[c], m) EXCEPT !.at = "next"]}
    BY ThrownIs
  <2> QED
    BY <1>3, <2>2, <2>3 DEF Call
<1>11. Calm => tables' = ledger'
  BY <1>6, RecordSame DEF Attended
<1> HIDE DEF new, rep, waves, row
<1>12. Taken(tables'[t]) /\ tables'[t].status # "leased"
  BY <1>7, <1>8 DEF Taken
<1>13. \A l \in Messages \ {t} : tables'[l] = tables[l] \/ tables'[l].kind # "task"
  BY <1>7, <1>9
<1> QED
  BY <1>2, <1>6, <1>10, <1>11, <1>12, <1>13, AttendsSettled

\* So does a worker.
LEMMA WorkerEndsAttends ==
  ASSUME IInv, Attended, Quiet, NEW c \in Calls, WorkerEnds(c)
  PROVE  Attends(c)
<1> DEFINE t == calls[c].task
           row == tables[t]
           rest == [calls[c] EXCEPT !.at = "next", !.batch = {}]
           rep == Report(t, row)
<1>1. /\ calls[c] # NoCall /\ calls[c].at = "working" /\ ~ Refused(row) /\ Mode[row.to] = "worker"
      /\ IF Stale(row)
         THEN Commit(MarkStale(t, row), runs, c, rest)
         ELSE \E m \in Messages :
                /\ NextMessage(m)
                /\ Commit(Submit(m, rep) \o (IF t \in calls[c].batch THEN Consume(t, row) ELSE <<>>),
                          runs, c, Reported(rest, m))
  BY DEF WorkerEnds, At, Free
<1>2. /\ calls[c] \in Call /\ CallOK(calls[c], ledger, tables, runs) /\ MailOK(ledger, tables)
  BY <1>1 DEF IInv, TypeOK, CallsOK
<1>3. t \in Messages /\ tables[t].kind = "task" /\ tables[t] \in MailRow
  <2>1. t \in Messages /\ tables[t].kind = "task"
    BY <1>1, <1>2 DEF CallOK, IsTask
  <2> QED
    BY <1>1, <1>2, <2>1, ReportIs
<1>4. t \in calls[c].batch /\ tables[t].status = "leased"
  <2>1. t \in calls[c].batch
    BY <1>1 DEF Attended, WorkersBatch
  <2> QED
    BY <1>1, <2>1, HeldOK DEF Held
<1>5. rest \in Call /\ rest.by = calls[c].by /\ rest.at = "next"
  BY <1>2 DEF Call
<1>6. \A s \in {"stale", "consumed"} : Taken(Settled(row, s)) /\ Settled(row, s).status # "leased"
  BY <1>3 DEF Taken, Settled, MailRow
<1>7. \A waves : Record(waves) => (Calm => tables' = ledger')
  BY RecordSame DEF Attended
<1>8. CASE Stale(row)
  <2> DEFINE w == Event(t, Settled(row, "stale"))
  <2>1. MarkStale(t, row) = <<w>>
    BY <1>4 DEF MarkStale, Open
  <2>2. Record(<<w>>) /\ Continue(c, rest)
    BY <1>1, <1>8, <2>1, Recorded
  <2>3. /\ GoodWave(w, ledger, tables) /\ After(tables, w)[t] = Settled(row, "stale")
        /\ \A l \in Messages \ {t} : After(tables, w)[l] = tables[l]
    BY <1>2, <1>3, <1>4, SettleOK
  <2> HIDE DEF w
  <2>4. tables' = After(tables, w)
    BY <1>2, <2>2, <2>3, OneWave DEF Record
  <2> HIDE DEF rest
  <2> QED
    BY <1>1, <1>5, <1>6, <1>7, <2>2, <2>3, <2>4, AttendsSettled
<1>9. CASE ~ Stale(row)
  <2>1. PICK m \in Messages :
          /\ NextMessage(m)
          /\ Commit(Submit(m, rep) \o (IF t \in calls[c].batch THEN Consume(t, row) ELSE <<>>),
                    runs, c, Reported(rest, m))
    BY <1>1, <1>9
  <2>2. ledger[m] = NoMail /\ Reporting(rep)
    BY <1>1, <1>3, <2>1, ReportIs DEF NextMessage
  <2> DEFINE waves == Submit(m, rep) \o Consume(t, row)
             new == Reported(rest, m)
  <2>3. Writes(waves, m, rep, t, Settled(row, "consumed"))
    BY <1>2, <1>3, <1>4, <2>2, SubmitConsume
  <2>4. Record(waves) /\ Continue(c, new)
    BY <1>4, <2>1, Recorded
  <2>5. /\ tables'[m] = rep /\ tables'[t] = Settled(row, "consumed")
        /\ \A l \in Messages \ {m, t} : tables'[l] = tables[l]
    BY <2>3, <2>4 DEF Writes, Record
  <2>6. tables'[m].kind # "task"
    BY <2>2, <2>5 DEF Reporting
  <2>7. new.at = "next" /\ new.by = calls[c].by
    BY <1>5 DEF Reported, Call
  <2>8. Calm => tables' = ledger'
    BY <1>7, <2>4
  <2> HIDE DEF new, waves, rep, row
  <2>9. Taken(tables'[t]) /\ tables'[t].status # "leased"
    BY <1>6, <2>5
  <2>10. \A l \in Messages \ {t} : tables'[l] = tables[l] \/ tables'[l].kind # "task"
    BY <2>5, <2>6
  <2> QED
    BY <1>1, <2>4, <2>7, <2>8, <2>9, <2>10, AttendsSettled
<1> QED
  BY <1>8, <1>9

\* Collecting settles reports, no task.
LEMMA CollectAttends ==
  ASSUME IInv, Attended, Quiet, NEW c \in Calls, Collect(c)
  PROVE  Attends(c)
<1> DEFINE waves == IF calls[c].reports = {} THEN <<>> ELSE Collection(c)
<1>1. /\ calls[c] # NoCall /\ calls[c].at = "next" /\ Commit(waves, runs, c, NoCall)
      /\ MailOK(ledger, tables)
  BY DEF Collect, At, Free, IInv
<1>2. \A m \in Messages : tables[m].kind = "report" \/ Written(tables, waves)[m] = tables[m]
  <2>1. Written(tables, <<>>) = tables
    BY <1>1, WrittenNone DEF MailOK
  <2> QED
    BY <1>1, <2>1, CollectionOK
<1> HIDE DEF waves
<1>3. Record(waves) /\ Continue(c, NoCall)
  BY <1>1, Recorded
<1>4. Calm => tables' = ledger'
  BY <1>3, RecordSame DEF Attended
<1>5. \A m \in Messages : tables'[m].kind = "task" => tables'[m] = tables[m]
  <2> TAKE m \in Messages
  <2> HAVE tables'[m].kind = "task"
  <2>1. tables[m].kind # "report"
    <3>1. CASE tables[m] = NoMail
      BY <3>1 DEF NoMail
    <3>2. CASE tables[m] # NoMail
      <4>1. SameMail(tables'[m], tables[m])
        <5>1. MailOK(ledger', tables') /\ Kept(ledger, tables, ledger', tables')
          BY CollectStep DEF Step, MailStep
        <5> QED
          BY <1>1, <3>2, <5>1, RowKept
      <4> QED
        BY <4>1 DEF SameMail
    <3> QED
      BY <3>1, <3>2
  <2> QED
    BY <1>2, <1>3, <2>1 DEF Record
<1>6. TasksGo(c, NoCall) /\ WorkersBatch(NoCall, tables')
  BY <1>1, <1>5 DEF TasksGo, WorkersBatch, Onto
<1> QED
  BY <1>3, <1>4, <1>6 DEF Attends

\* The first task in a thread finds no run in it.
LEMMA NewThread ==
  ASSUME IInv, NEW m \in Messages, ledger[m] = NoMail, NEW row, row.thread = m, MaxActive # 0
  PROVE  ~ LimitReached(row)
<1>1. ASSUME NEW i \in DOMAIN runs PROVE runs[i].thread # m
  <2>1. RunOK(runs[i], ledger, tables) /\ MailOK(ledger, tables)
    BY DEF IInv, RunsOK
  <2>2. runs[i].task \in Messages /\ ledger[runs[i].task] # NoMail
    BY <2>1 DEF RunOK, NoMail
  <2> QED
    BY <2>1, <2>2 DEF RunOK, MailOK
<1>2. ActiveRuns(row.thread, row.to) = {}
  BY <1>1 DEF ActiveRuns
<1>3. Cardinality(ActiveRuns(row.thread, row.to)) = 0
  BY <1>2, FS_EmptySet
<1> QED
  BY <1>3, SubAgentRunsAssumption DEF LimitReached

\* The turn leases the task it posts, and the limit does not refuse it: the thread
\* of the task is its own and has no run yet.
LEMMA DelegateAttends ==
  ASSUME IInv, Attended, Quiet, MaxActive # 0, NEW c \in Calls, Delegate(c)
  PROVE  Attends(c)
<1>1. /\ calls[c] # NoCall /\ calls[c] \in Call /\ calls[c].by \in 1 .. MaxRevision
      /\ calls[c].at = "next" /\ calls[c].todo # <<>> /\ calls[c].todo \in Seq(Helpers)
      /\ MailOK(ledger, tables)
  BY DEF Delegate, ByTurn, At, Free, Call, IInv, TypeOK
<1>2. PICK m \in Messages :
        LET target == Head(calls[c].todo)
            task == Posted("task", target, m, 0, calls[c].by)
            call == [calls[c] EXCEPT !.todo = Tail(@), !.own = m]
        IN  /\ MayTask(m)
            /\ \E t \in QueuedFor(target) \union {m} :
                 LET row == IF t = m THEN task ELSE tables[t]
                     waves == Submit(m, task) \o Lease(t, row, 0)
                 IN  IF Mode[target] = "worker"
                     THEN Commit(waves, runs, c,
                            [call EXCEPT !.task = m, !.at = "working", !.batch = {m} \intersect {t}])
                     ELSE Process(c, call, waves, t, row)
  BY DEF Delegate
<1> DEFINE target == Head(calls[c].todo)
           task == Posted("task", target, m, 0, calls[c].by)
           call == [calls[c] EXCEPT !.todo = Tail(@), !.own = m]
           waves == Submit(m, task) \o Lease(m, task, 0)
<1>3. target \in Helpers /\ Tail(calls[c].todo) \in Seq(Helpers) /\ ledger[m] = NoMail
  BY <1>1, <1>2 DEF MayTask, NextMessage
<1>4. QueuedFor(target) = {}
  <2>1. \A t \in QueuedFor(target) : tables[t].kind = "task" /\ ~ Taken(tables[t]) /\ t \in Messages
    BY <1>1, <1>3, HelpersTasks DEF QueuedFor, Taken
  <2> QED
    BY <2>1 DEF Attended, TasksTaken
<1>5. IF Mode[target] = "worker"
      THEN Commit(waves, runs, c,
             [call EXCEPT !.task = m, !.at = "working", !.batch = {m} \intersect {m}])
      ELSE Process(c, call, waves, m, task)
  BY <1>2, <1>4
<1>6. /\ task.thread = m /\ task.to = target /\ task.kind = "task"
  BY DEF Posted
<1>7. /\ Written(tables, waves)[m] = Leased(task, 0)
      /\ \A l \in Messages \ {m} : Written(tables, waves)[l] = tables[l]
  <2> DEFINE by == calls[c].by
             tk == task
             ws == waves
  <2>1. Delegation(target, m, by, tk, m, tk, ws)
    BY DEF Delegation
  <2> HIDE DEF tk, ws, by, target
  <2>2. /\ Written(tables, ws)[m] = Leased(tk, 0)
        /\ \A l \in Messages \ {m} : Written(tables, ws)[l] = tables[l]
    BY <1>1, <1>3, <2>1, DelegateWaves DEF by
  <2> QED
    BY <2>2 DEF tk, ws
<1>8. Leased(task, 0).status = "leased" /\ Leased(task, 0).to = target
  BY DEF Leased, Posted
<1>9. call \in Call /\ call.by = calls[c].by
  BY <1>1, <1>3 DEF Call
<1>10. calls[c].by # 0
  BY <1>1
<1> HIDE DEF waves, call, task

\* The task is in the hands of the call.
<1>11. ASSUME NEW new, Record(waves), Continue(c, new), new # NoCall, new.by = calls[c].by,
              new.at # "next", new.task = m,
              Mode[target] = "worker" => new.batch = {m}
       PROVE  Attends(c)
  <2>1. /\ tables'[m] = Leased(task, 0)
        /\ \A l \in Messages \ {m} : tables'[l] = tables[l]
    BY <1>7, <1>11 DEF Record
  <2>2. TasksGo(c, new)
    <3>1. Taken(tables'[m]) /\ Onto(new, m)
      BY <1>8, <1>11, <2>1 DEF Taken, Onto
    <3>2. \A l \in Messages : ~ Onto(calls[c], l)
      BY <1>1 DEF Onto
    <3> QED
      BY <2>1, <3>1, <3>2 DEF TasksGo
  <2>3. WorkersBatch(new, tables')
    BY <1>8, <1>11, <2>1 DEF WorkersBatch
  <2>4. Calm => tables' = ledger'
    BY <1>11, RecordSame DEF Attended
  <2> QED
    BY <1>10, <1>11, <2>2, <2>3, <2>4 DEF Attends
<1>12. CASE Mode[target] = "worker"
  <2> DEFINE new == [call EXCEPT !.task = m, !.at = "working", !.batch = {m} \intersect {m}]
  <2>1. Record(waves) /\ Continue(c, new)
    BY <1>5, <1>12, Recorded
  <2>2. new \in Call /\ new.by = calls[c].by /\ new.at = "working" /\ new.task = m /\ new.batch = {m}
    BY <1>9 DEF Call
  <2> HIDE DEF new
  <2> QED
    BY <1>11, <2>1, <2>2, NoCallAssumption
<1>13. CASE Mode[target] # "worker"
  <2>1. ~ LimitReached(task)
    BY <1>3, <1>6, NewThread
  <2> DEFINE bound == [call EXCEPT !.task = m, !.at = "working"]
             burst == [call EXCEPT !.task = m, !.at = "spawning"]
  <2>2. \/ Commit(waves, Accepted(m, task), c, bound)
        \/ Commit(waves, runs, c, burst)
    BY <1>5, <1>13, <2>1 DEF Process
  <2>3. Record(waves) /\ (Continue(c, bound) \/ Continue(c, burst))
    BY <2>2, Recorded
  <2>4. /\ bound \in Call /\ bound.by = calls[c].by /\ bound.at = "working" /\ bound.task = m
        /\ burst \in Call /\ burst.by = calls[c].by /\ burst.at = "spawning" /\ burst.task = m
    BY <1>9 DEF Call
  <2> HIDE DEF bound, burst
  <2> QED
    BY <1>11, <1>13, <2>3, <2>4, NoCallAssumption
<1> QED
  BY <1>12, <1>13

\* A step of a call keeps the tasks attended.
LEMMA AttendsKept ==
  ASSUME IInv, Attended, UNCHANGED scenario, MailStep, NEW c \in Calls, Quiet, Attends(c)
  PROVE  Attended'
<1>1. PICK new : /\ Continue(c, new)
                 /\ new # NoCall => new.by # 0
                 /\ TasksGo(c, new)
                 /\ WorkersBatch(new, tables')
                 /\ Calm => tables' = ledger'
  BY DEF Attends
<1>2. calls'[c] = new /\ \A d \in Calls \ {c} : calls'[d] = calls[d]
  BY <1>1 DEF Continue, IInv, TypeOK
<1>3. /\ TasksTaken
      /\ \A d \in Calls : /\ WorkersBatch(calls[d], tables)
                          /\ calls[d] # NoCall => calls[d].by # 0
  BY DEF Attended
<1>4. TasksTaken'
  BY <1>1, <1>3 DEF TasksTaken, TasksGo
<1>5. ASSUME NEW d \in Calls PROVE WorkersBatch(calls'[d], tables') /\ (calls'[d] # NoCall => calls'[d].by # 0)
  <2>1. CASE d = c
    BY <1>1, <1>2, <2>1
  <2>2. CASE d # c
    <3>1. calls[d] # NoCall /\ calls[d].at = "working" => tables'[calls[d].task].to = tables[calls[d].task].to
      <4> SUFFICES ASSUME calls[d] # NoCall, calls[d].at = "working"
                   PROVE  tables'[calls[d].task].to = tables[calls[d].task].to
        OBVIOUS
      <4>1. calls[d].task \in Messages /\ tables[calls[d].task].kind = "task"
        BY DEF IInv, CallsOK, CallOK, IsTask
      <4>2. SameMail(tables'[calls[d].task], tables[calls[d].task])
        BY <4>1, RowKept DEF MailStep, IInv, NoMail
      <4> QED
        BY <4>2 DEF SameMail
    <3> QED
      BY <1>2, <1>3, <2>2, <3>1 DEF WorkersBatch
  <2> QED
    BY <2>1, <2>2
<1>6. ASSUME Calm PROVE tables' = ledger' /\ InHands'
  <2>1. ASSUME NEW m \in Messages, tables'[m].kind = "task", tables'[m].status = "leased"
        PROVE  \E d \in Calls : Onto(calls'[d], m)
    <3>1. CASE Onto(new, m)
      BY <1>2, <3>1
    <3>2. CASE ~ Onto(new, m)
      <4>1. tables'[m] = tables[m] /\ ~ Onto(calls[c], m)
        BY <1>1, <1>6, <2>1, <3>2 DEF TasksGo
      <4>2. PICK d \in Calls : Onto(calls[d], m)
        BY <1>6, <2>1, <4>1 DEF Attended, InHands
      <4> QED
        BY <1>2, <4>1, <4>2
    <3> QED
      BY <3>1, <3>2
  <2> QED
    BY <1>1, <1>6, <2>1 DEF InHands
<1> QED
  BY <1>4, <1>5, <1>6 DEF Attended, Quiet, Calm

\* The room moves, the process dies between two blocks, the tables are rebuilt.
LEMMA AttendedAlone ==
  ASSUME IInv, Attended, UNCHANGED scenario, Quiet,
         MailArrives \/ PutBack \/ RebuildTables \/ Crash
  PROVE  Attended'
<1>1. CASE MailArrives \/ PutBack
  BY <1>1 DEF MailArrives, PutBack, NewMail, RoomPutBack, mail, Attended, Quiet, Calm, TasksTaken, InHands
<1>2. CASE Crash
  BY <1>2, CalmIs DEF Crash, mail, Attended, Quiet, Calm, TasksTaken, InHands, WorkersBatch
<1>3. CASE RebuildTables
  <2>1. tables' = ledger /\ ledger' = ledger /\ calls' = calls
    BY <1>3 DEF RebuildTables, Rebuild
  <2>2. \A m \in Messages : ledger[m].to = tables[m].to /\ ledger[m].kind = tables[m].kind
                            /\ (Taken(tables[m]) => Taken(ledger[m]))
    <3> TAKE m \in Messages
    <3>1. RowOK(ledger[m], tables[m]) /\ ~ May("torn_write") /\ ~ May("torn_rebuild")
      BY CalmIs DEF IInv, MailOK
    <3>2. tables[m] = NoMail => ledger[m] = NoMail
      BY <3>1 DEF RowOK, NoMail
    <3> QED
      BY <3>1, <3>2 DEF RowOK, SameMail
  <2>3. TasksTaken'
    BY <2>1, <2>2 DEF Attended, TasksTaken
  <2>4. \A d \in Calls : WorkersBatch(calls'[d], tables') /\ (calls'[d] # NoCall => calls'[d].by # 0)
    <3>1. \A d \in Calls : calls[d] # NoCall /\ calls[d].at = "working" => calls[d].task \in Messages
      BY DEF IInv, CallsOK, CallOK, IsTask
    <3> QED
      BY <2>1, <2>2, <3>1 DEF Attended, WorkersBatch
  <2>5. Calm => tables' = ledger' /\ InHands'
    BY <2>1 DEF Attended, InHands
  <2> QED
    BY <2>3, <2>4, <2>5 DEF Attended, Quiet, Calm
<1> QED
  BY <1>1, <1>2, <1>3

\* No step leaves a task unattended.
LEMMA AttendedStep ==
  ASSUME IInv, RoomAhead, Attended, MaxActive # 0, Next
  PROVE  Attended'
<1>1. UNCHANGED scenario
  BY NextRest
<1>2. CASE ~ Quiet
  BY <1>1, <1>2, CalmIs DEF Attended, Quiet, Calm
<1>3. CASE Quiet
  <2>0. ~ RebuildDies
    BY <1>3, CalmIs DEF RebuildDies
  <2>3. MailStep
    BY <2>0, NextStep DEF Step
  <2>1. ASSUME NEW c \in Calls, StartTurn(c) \/ ApiDispatch(c) \/ CallStep(c) PROVE Attends(c)
    <3>1. ~ ApiDispatch(c)
      BY <1>3, CalmIs DEF ApiDispatch
    <3>2. ~ ApiContinues(c)
      BY <1>3 DEF ApiContinues, At, ByTurn, Free, Attended
    <3> QED
      BY <1>3, <2>1, <3>1, <3>2, StartTurnAttends, DelegateAttends, LeaveAttends, SpawnedAttends,
         SpawnFailsAttends, RunEndsAttends, ReportFailsAttends, WorkerEndsAttends, CollectAttends
         DEF CallStep
  <2>2. ~ ApiSubmit
    BY <1>3, CalmIs DEF ApiSubmit
  <2> QED
    BY <1>1, <1>3, <2>0, <2>1, <2>2, <2>3, AttendsKept, AttendedAlone DEF Next
<1> QED
  BY <1>2, <1>3

\* Without the API and torn writes no task is left in a mailbox, and if nothing
\* fails either, none is leased and forgotten: unless no run is allowed at all.
THEOREM NoTaskIsForgotten ==
  ASSUME MaxActive # 0
  PROVE  Spec => []TasksAreAttended
<1> DEFINE AInv == RoomAhead /\ Attended
<1>1. Init => AInv
  BY DEF Init, MailInit, RoomAhead, Attended, TasksTaken, InHands, WorkersBatch, NoMail
<1>2. IInv /\ AInv /\ [Next]_vars => AInv'
  <2>1. ASSUME UNCHANGED vars, AInv PROVE AInv'
    BY <2>1 DEF vars, mail, RoomAhead, May, Attended, TasksTaken, InHands, WorkersBatch, Quiet, Calm
  <2> QED
    BY <2>1, RoomAheadOK, AttendedStep
<1>3. IInv /\ AInv => TasksAreAttended
  <2> SUFFICES ASSUME IInv, AInv, NEW m \in Messages, tables[m].kind = "task"
        PROVE  /\ Quiet => tables[m].status # "queued"
               /\ Calm /\ tables[m].status = "leased" =>
                    \E c \in Calls : ~ Free(c) /\ calls[c].task = m
    BY DEF TasksAreAttended, Quiet, Calm
  <2> QED
    BY DEF Attended, TasksTaken, Taken, InHands, Onto, Free
<1> QED
  BY <1>1, <1>2, <1>3, Invariance, PTL DEF Spec
=============================================================================
