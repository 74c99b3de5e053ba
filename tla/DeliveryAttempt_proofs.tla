------------------------ MODULE DeliveryAttempt_proofs ------------------------
(***************************************************************************)
(* Theorems about DeliveryAttempt, for any number of messages and events,  *)
(* any limit of a stage and any number of crashes.                         *)
(***************************************************************************)
EXTENDS DeliveryAttempt, FiniteSetTheorems, SequenceTheorems, TLAPS

\* Of every source the observations of s are in the order they were made.
Rising(s) ==
  \A i, j \in DOMAIN s : (i < j /\ s[i][1] = s[j][1]) => s[i][2] < s[j][2]

\* Of every source the observations in S were made before those in T.
Before(S, T) == \A o \in S, p \in T : o[1] = p[1] => o[2] < p[2]

-----------------------------------------------------------------------------
(* The invariant.                                                          *)

AttemptType ==
  [state : {"none", "preparing", "dispatching", "accepted", "rejected", "unknown",
            "abandoned"},
   crossed : BOOLEAN, evidence : BOOLEAN, gap : BOOLEAN]
SomeCommand == Commands \cup {Nobody}
Events == Seq(Observations)

ProviderTypes ==
  /\ provider \in {"claude-code", "codex"}
  /\ session \in {"none", "open", "dead", "closing"}
  /\ prompt \in SomeCommand /\ outbox \in SomeCommand
  /\ wire \in [Commands -> {"none", "written", "working", "ended"}]
  /\ writes \in [Commands -> Nat] /\ emitted \in [Sources -> 0 .. LastEvent]
  /\ taken \subseteq Commands /\ lost \subseteq Observations /\ stream \in Events
RowTypes ==
  /\ queue \in [Commands -> {"queued", "dispatching", "delivery_unknown", "removed"}]
  /\ attempt \in [Commands -> AttemptType]
  /\ turn \in [Commands -> {"none", "running", "ended", "failed"}]
  /\ paused \in BOOLEAN
JournalTypes ==
  /\ log \in Events /\ staged \in [Commands -> Events]
  /\ \A c \in Commands : Len(staged[c]) <= StageLimit
BootTypes ==
  /\ boot \in [pc : {"recover", "draining", "reconciling", "up"}, todo : SUBSET Commands]
  /\ resolver \in SomeCommand /\ crashes \in 0 .. MaxCrashes
DispTypes ==
  disp \in [pc : {"idle", "opening", "starting", "waiting", "accepted", "preparing"},
            cmd : SomeCommand, snap : Events, rest : {<<>>}]
ConsTypes ==
  cons \in [pc : {"idle", "draining", "effects", "reconciling", "direct"},
            cmd : SomeCommand, snap : Events, rest : Events]
Types ==
  ProviderTypes /\ RowTypes /\ JournalTypes /\ BootTypes /\ DispTypes /\ ConsTypes

\* Which activities can be under way beside each other, and what they leave
\* behind when they end.
ActivitiesOK ==
  /\ boot.pc # "up" =>
       /\ session = "none" /\ disp.pc = "idle" /\ cons.pc = "idle"
       /\ resolver = Nobody
  /\ session = "none" => stream = <<>>
  /\ session # "open" =>
       /\ prompt = Nobody /\ outbox = Nobody
       /\ provider = "claude-code" => \A c \in Commands : wire[c] \in {"none", "ended"}
  /\ disp.pc # "idle" => disp.cmd \in Commands
  /\ disp.pc = "waiting" => session = "open"
  /\ cons.pc \in {"draining", "effects", "reconciling"} => cons.cmd \in Commands
  /\ cons.pc = "idle" => cons.rest = <<>>
  /\ resolver # Nobody => provider = "claude-code"

\* Where the rows of a message and what its process knows stand to each other.
MessageOK(c) ==
  /\ queue[c] = "queued" => attempt[c].state = "none"
  /\ attempt[c].state = "none" => prompt # c
  /\ attempt[c].state \in {"none", "preparing"} => wire[c] = "none" /\ outbox # c
  /\ writes[c] = IF wire[c] = "none" THEN 0 ELSE 1
  /\ outbox = c => wire[c] = "none"
  /\ (wire[c] = "written" \/ outbox = c) => attempt[c].state \in Open
  /\ wire[c] \in {"none", "written"} => c \notin taken
  /\ wire[c] = "working" => c \in taken
  /\ attempt[c].evidence => c \in taken
MessagesOK == \A c \in Commands : MessageOK(c)

\* A turn nothing was sent for has emitted nothing; Claude's adapter announces
\* it at the hand-over.
SilentOK ==
  \A c \in Commands :
    (\/ attempt[c].state = "none"
     \/ disp.pc = "starting" /\ disp.cmd = c
     \/ provider = "codex" /\ wire[c] = "none") => emitted[c] = 0

\* The message the dispatcher is about.
DispatchOK ==
  /\ disp.pc = "opening" =>
       attempt[disp.cmd].state = "none" /\ queue[disp.cmd] # "queued" /\ ~LaneHeld
  /\ disp.pc = "starting" =>
       attempt[disp.cmd].state = "preparing" /\ prompt # disp.cmd
  /\ disp.pc = "waiting" =>
       /\ attempt[disp.cmd].state \in Unresolved /\ ~attempt[disp.cmd].evidence
       /\ prompt = disp.cmd => attempt[disp.cmd].state = "preparing"
  /\ disp.pc \in {"accepted", "preparing"} => disp.cmd \in taken

\* One message holds the lane, and only that one has a stage.
Holds(c) ==
  \/ attempt[c].state \in Unresolved
  \/ attempt[c].state = "accepted" /\ staged[c] # <<>>
LaneOK ==
  /\ \A c, d \in Commands : Holds(c) /\ Holds(d) => c = d
  /\ \A c \in Commands : staged[c] # <<>> => attempt[c].state \in Unresolved \cup {"accepted"}

\* An observation passes from the stream (str) to a stage (st) or to the rest
\* of a batch (rs), and from there to the journal (lg); em is how many were
\* emitted.  What is further on was made earlier.
Flow(lg, st, rs, str, em) ==
  /\ Rising(lg) /\ Rising(rs) /\ Rising(str)
  /\ \A o \in Elements(lg) \cup Elements(rs) \cup Elements(str) : o[2] <= em[o[1]]
  /\ Before(Elements(lg), Elements(rs)) /\ Before(Elements(lg), Elements(str))
  /\ Before(Elements(rs), Elements(str))
  /\ \A c \in Commands :
       /\ Rising(st[c])
       /\ \A o \in Elements(st[c]) : o[1] = c /\ o[2] <= em[c]
       /\ Before(Elements(lg), Elements(st[c]))
       /\ Before(Elements(st[c]), Elements(rs)) /\ Before(Elements(st[c]), Elements(str))

\* The rest of a batch is about messages without a stage.
RestOK(st, rs) ==
  \A c \in Commands : st[c] # <<>> => \A o \in Elements(rs) : o[1] # c

\* What is prepared is what the stage begins with, unless another activity has
\* admitted it.
SnapsOK ==
  /\ (disp.pc = "preparing" /\ attempt[disp.cmd].state # "accepted") =>
       /\ Len(disp.snap) <= Len(staged[disp.cmd])
       /\ disp.snap = Prefix(staged[disp.cmd], Len(disp.snap))
  /\ cons.pc = "draining" =>
       attempt[cons.cmd].state = "accepted" /\ cons.snap = staged[cons.cmd]
  /\ (cons.pc = "reconciling" /\ attempt[cons.cmd].state # "accepted") =>
       cons.snap = staged[cons.cmd]

\* NothingForgotten, of the parts of the pipeline.
Remembered(lg, st, rs, str, em, ls, rows) ==
  \A c \in Sources : \A k \in 1 .. em[c] :
    \/ <<c, k>> \in Elements(lg) \cup Elements(str) \cup Elements(rs) \cup ls
    \/ c # Nobody /\ (<<c, k>> \in Elements(st[c]) \/ rows[c].gap)

JournalOK ==
  /\ Flow(log, staged, cons.rest, stream, emitted)
  /\ RestOK(staged, cons.rest)
  /\ Remembered(log, staged, cons.rest, stream, emitted, lost, attempt)
  /\ SnapsOK

IInv ==
  /\ Types /\ ActivitiesOK /\ MessagesOK /\ SilentOK /\ DispatchOK
  /\ LaneOK /\ JournalOK

-----------------------------------------------------------------------------
(* Parts of a sequence.                                                    *)

\* Kth counts off the indices in I.
LEMMA KthCounts ==
  ASSUME NEW n \in Nat, NEW I \in SUBSET (1 .. n)
  PROVE  /\ Cardinality(I) \in Nat /\ Cardinality(I) <= n
         /\ \A k \in 1 .. Cardinality(I) : Kth(I, k) \in I
         /\ \A k, l \in 1 .. Cardinality(I) : k < l => Kth(I, k) < Kth(I, l)
         /\ \A i \in I : \E k \in 1 .. Cardinality(I) : Kth(I, k) = i
<1> DEFINE upTo(i) == {j \in I : j <= i}
           m == Cardinality(I)
           rank == [i \in I |-> Cardinality(upTo(i))]
<1>1. IsFiniteSet(I) /\ m \in Nat /\ m <= n
  <2>1. IsFiniteSet(1 .. n) /\ Cardinality(1 .. n) = n
    BY FS_Interval
  <2> QED BY <2>1, FS_Subset, FS_CardinalityType
<1>2. \A i \in I : IsFiniteSet(upTo(i)) /\ rank[i] \in 1 .. m
  <2> TAKE i \in I
  <2>1. upTo(i) \in SUBSET I /\ upTo(i) # {}
    OBVIOUS
  <2>2. IsFiniteSet(upTo(i)) /\ Cardinality(upTo(i)) <= m
    BY <1>1, <2>1, FS_Subset
  <2>3. Cardinality(upTo(i)) \in Nat /\ Cardinality(upTo(i)) # 0
    BY <2>1, <2>2, FS_CardinalityType, FS_EmptySet
  <2> QED BY <1>1, <2>2, <2>3
<1>3. \A i, j \in I : i < j => rank[i] < rank[j]
  <2> SUFFICES ASSUME NEW i \in I, NEW j \in I, i < j
               PROVE  rank[i] < rank[j]
    OBVIOUS
  <2>0. /\ \A k \in I : k <= i => k <= j
        /\ j <= j /\ ~(j <= i)
    OBVIOUS
  <2>1. upTo(i) \in SUBSET upTo(j) /\ j \in upTo(j) /\ j \notin upTo(i)
    BY <2>0
  <2>2. /\ Cardinality(upTo(i)) <= Cardinality(upTo(j))
        /\ Cardinality(upTo(j)) # Cardinality(upTo(i))
    BY <1>2, <2>1, FS_Subset
  <2>3. rank[i] \in Nat /\ rank[j] \in Nat
    BY <1>2
  <2> QED BY <2>2, <2>3
<1>4. rank \in Injection(I, 1 .. m)
  <2>1. \A i, j \in I : rank[i] = rank[j] => i = j
    <3> SUFFICES ASSUME NEW i \in I, NEW j \in I, i # j
                 PROVE  rank[i] # rank[j]
      OBVIOUS
    <3>1. i < j \/ j < i
      OBVIOUS
    <3>2. rank[i] \in Nat /\ rank[j] \in Nat
      BY <1>2
    <3> QED BY <1>3, <3>1, <3>2
  <2>2. rank \in [I -> 1 .. m]
    BY <1>2
  <2> QED BY <2>1, <2>2 DEF Injection, IsInjective
<1>5. rank \in Surjection(I, 1 .. m)
  <2>1. IsFiniteSet(1 .. m) /\ Cardinality(1 .. m) = m
    BY <1>1, FS_Interval
  <2> QED BY <1>4, <2>1, FS_Injection
<1>6. \A k \in 1 .. m : Kth(I, k) \in I /\ rank[Kth(I, k)] = k
  <2> TAKE k \in 1 .. m
  <2>1. PICK i \in I : rank[i] = k
    BY <1>5 DEF Surjection
  <2>2. \E x \in I : Cardinality({j \in I : j <= x}) = k
    BY <2>1
  <2>3. Kth(I, k) \in I /\ Cardinality({j \in I : j <= Kth(I, k)}) = k
    BY <2>2 DEF Kth
  <2> QED BY <2>3
<1>7. \A k, l \in 1 .. m : k < l => Kth(I, k) < Kth(I, l)
  <2> SUFFICES ASSUME NEW k \in 1 .. m, NEW l \in 1 .. m, k < l, ~(Kth(I, k) < Kth(I, l))
               PROVE  FALSE
    OBVIOUS
  <2>1. Kth(I, l) = Kth(I, k) \/ Kth(I, l) < Kth(I, k)
    <3>1. Kth(I, k) \in I /\ Kth(I, l) \in I
      BY <1>6
    <3>2. \A i, j \in I : i < j \/ i = j \/ j < i
      OBVIOUS
    <3> QED BY <3>1, <3>2
  <2>2. l = k \/ l < k
    BY <1>3, <1>6, <2>1
  <2> QED BY <2>2
<1>8. \A i \in I : \E k \in 1 .. m : Kth(I, k) = i
  <2> TAKE i \in I
  <2>1. rank[i] \in 1 .. m
    BY <1>2
  <2>2. Kth(I, rank[i]) \in I /\ rank[Kth(I, rank[i])] = rank[i]
    BY <1>6, <2>1
  <2>3. Kth(I, rank[i]) = i
    BY <1>4, <2>2 DEF Injection, IsInjective
  <2> QED BY <2>1, <2>3
<1> QED BY <1>1, <1>6, <1>7, <1>8

\* What is left out is left out, and the rest keeps its order.
LEMMA WithoutIs ==
  ASSUME NEW S, NEW s \in Seq(S), NEW G
  PROVE  /\ Without(s, G) \in Seq(S) /\ Len(Without(s, G)) <= Len(s)
         /\ Elements(Without(s, G)) = Elements(s) \ G
         /\ Rising(s) => Rising(Without(s, G))
<1> DEFINE I == {i \in DOMAIN s : s[i] \notin G}
           m == Cardinality(I)
           w == Without(s, G)
<1>1. Len(s) \in Nat /\ DOMAIN s = 1 .. Len(s) /\ \A i \in DOMAIN s : s[i] \in S
  BY LenProperties
<1>2. I \in SUBSET (1 .. Len(s))
  BY <1>1
<1> HIDE DEF I
<1>3. /\ m \in Nat /\ m <= Len(s)
      /\ \A k \in 1 .. m : Kth(I, k) \in I
      /\ \A k, l \in 1 .. m : k < l => Kth(I, k) < Kth(I, l)
      /\ \A i \in I : \E k \in 1 .. m : Kth(I, k) = i
  BY <1>1, <1>2, KthCounts
<1>4. w = [k \in 1 .. m |-> s[Kth(I, k)]]
  BY DEF Without, Among, I
<1> HIDE DEF m, w
<1>5. DOMAIN w = 1 .. m /\ \A k \in 1 .. m : w[k] = s[Kth(I, k)]
  BY <1>4
<1>6. \A k \in 1 .. m : Kth(I, k) \in DOMAIN s /\ s[Kth(I, k)] \notin G
  BY <1>3 DEF I
<1>7. w \in Seq(S) /\ Len(w) <= Len(s)
  <2>1. w \in [1 .. m -> S]
    BY <1>1, <1>4, <1>6
  <2>2. w \in Seq(S)
    BY <1>3, <2>1
  <2>3. Len(w) = m
    BY <1>3, <2>1
  <2> QED BY <1>3, <2>2, <2>3
<1>8. Elements(w) = Elements(s) \ G
  <2>1. ASSUME NEW o \in Elements(w) PROVE o \in Elements(s) \ G
    <3>1. PICK k \in 1 .. m : o = s[Kth(I, k)]
      BY <1>5 DEF Elements
    <3> QED BY <1>6, <3>1 DEF Elements
  <2>2. ASSUME NEW o \in Elements(s) \ G PROVE o \in Elements(w)
    <3>1. PICK i \in DOMAIN s : o = s[i]
      BY DEF Elements
    <3>2. i \in I
      BY <3>1 DEF I
    <3>3. PICK k \in 1 .. m : Kth(I, k) = i
      BY <1>3, <3>2
    <3> QED BY <1>5, <3>1, <3>3 DEF Elements
  <2> QED BY <2>1, <2>2
<1>9. ASSUME Rising(s) PROVE Rising(w)
  <2> SUFFICES ASSUME NEW i \in 1 .. m, NEW j \in 1 .. m, i < j, w[i][1] = w[j][1]
               PROVE  w[i][2] < w[j][2]
    BY <1>5 DEF Rising
  <2>1. Kth(I, i) < Kth(I, j)
    BY <1>3
  <2> QED BY <1>5, <1>6, <1>9, <2>1 DEF Rising
<1> QED BY <1>7, <1>8, <1>9 DEF w

LEMMA EmptyElements ==
  ASSUME NEW S, NEW s \in Seq(S)
  PROVE  s = <<>> <=> Elements(s) = {}
<1>1. Len(s) \in Nat /\ DOMAIN s = 1 .. Len(s)
  BY LenProperties
<1>2. ASSUME s # <<>> PROVE Elements(s) # {}
  <2>1. Len(s) \in Nat \ {0}
    BY <1>2, EmptySeq
  <2>2. 1 \in DOMAIN s
    BY <1>1, <2>1
  <2> QED BY <2>2 DEF Elements
<1>3. ASSUME s = <<>> PROVE Elements(s) = {}
  <2>1. Len(s) = 0
    BY <1>3, EmptySeq
  <2> QED BY <1>1, <2>1 DEF Elements
<1> QED BY <1>2, <1>3

LEMMA ElementsAre ==
  ASSUME NEW S, NEW s \in Seq(S)
  PROVE  Elements(s) \subseteq S
<1>1. \A i \in DOMAIN s : s[i] \in S
  BY LenProperties
<1> QED BY <1>1 DEF Elements

\* Two sequences in a row.
LEMMA Joined ==
  ASSUME NEW S, NEW s \in Seq(S), NEW t \in Seq(S)
  PROVE  /\ s \o t \in Seq(S)
         /\ Elements(s \o t) = Elements(s) \cup Elements(t)
         /\ (Rising(s) /\ Rising(t) /\ Before(Elements(s), Elements(t))) => Rising(s \o t)
<1> DEFINE m == Len(s)  n == Len(t)  u == s \o t
<1>1. /\ m \in Nat /\ DOMAIN s = 1 .. m
      /\ n \in Nat /\ DOMAIN t = 1 .. n
  BY LenProperties
<1>2. /\ u \in Seq(S) /\ Len(u) = m + n
      /\ \A i \in 1 .. m + n : u[i] = IF i <= m THEN s[i] ELSE t[i - m]
  BY ConcatProperties
<1>3. DOMAIN u = 1 .. m + n
  BY <1>2, LenProperties
<1> HIDE DEF m, n, u
<1>4. Elements(u) = Elements(s) \cup Elements(t)
  <2>1. ASSUME NEW o \in Elements(u) PROVE o \in Elements(s) \cup Elements(t)
    <3>1. PICK i \in 1 .. m + n : o = u[i]
      BY <1>3 DEF Elements
    <3>2. CASE i <= m
      <4>1. i \in DOMAIN s /\ o = s[i]
        BY <1>1, <1>2, <3>1, <3>2
      <4> QED BY <4>1 DEF Elements
    <3>3. CASE ~(i <= m)
      <4>1. i - m \in DOMAIN t /\ o = t[i - m]
        BY <1>1, <1>2, <3>1, <3>3
      <4> QED BY <4>1 DEF Elements
    <3> QED BY <3>2, <3>3
  <2>2. ASSUME NEW o \in Elements(s) PROVE o \in Elements(u)
    <3>1. PICK i \in 1 .. m : o = s[i]
      BY <1>1 DEF Elements
    <3>2. i \in 1 .. m + n /\ u[i] = o
      BY <1>1, <1>2, <3>1
    <3> QED BY <1>3, <3>2 DEF Elements
  <2>3. ASSUME NEW o \in Elements(t) PROVE o \in Elements(u)
    <3>1. PICK i \in 1 .. n : o = t[i]
      BY <1>1 DEF Elements
    <3>2. m + i \in 1 .. m + n /\ ~(m + i <= m) /\ (m + i) - m = i
      BY <1>1
    <3>3. u[m + i] = o
      BY <1>2, <3>1, <3>2
    <3> QED BY <1>3, <3>2, <3>3 DEF Elements
  <2> QED BY <2>1, <2>2, <2>3
<1>5. ASSUME Rising(s), Rising(t), Before(Elements(s), Elements(t))
      PROVE  Rising(u)
  <2> SUFFICES ASSUME NEW i \in 1 .. m + n, NEW j \in 1 .. m + n, i < j, u[i][1] = u[j][1]
               PROVE  u[i][2] < u[j][2]
    BY <1>3 DEF Rising
  <2>1. CASE j <= m
    <3>1. i \in DOMAIN s /\ j \in DOMAIN s /\ u[i] = s[i] /\ u[j] = s[j]
      BY <1>1, <1>2, <2>1
    <3> QED BY <1>5, <3>1 DEF Rising
  <2>2. CASE i <= m /\ ~(j <= m)
    <3>1. i \in DOMAIN s /\ j - m \in DOMAIN t /\ u[i] = s[i] /\ u[j] = t[j - m]
      BY <1>1, <1>2, <2>2
    <3>2. u[i] \in Elements(s) /\ u[j] \in Elements(t)
      BY <3>1 DEF Elements
    <3> QED BY <1>5, <3>2 DEF Before
  <2>3. CASE ~(i <= m)
    <3>1. /\ i - m \in DOMAIN t /\ j - m \in DOMAIN t /\ i - m < j - m
          /\ u[i] = t[i - m] /\ u[j] = t[j - m]
      BY <1>1, <1>2, <2>3
    <3> QED BY <1>5, <3>1 DEF Rising
  <2> QED BY <1>1, <2>1, <2>2, <2>3
<1> QED BY <1>2, <1>4, <1>5 DEF u

\* The first n elements; what is left without them comes after them.
LEMMA PrefixIs ==
  ASSUME NEW S, NEW s \in Seq(S), NEW n \in 0 .. Len(s)
  PROVE  /\ Prefix(s, n) \in Seq(S) /\ Len(Prefix(s, n)) = n
         /\ Elements(Prefix(s, n)) \subseteq Elements(s)
         /\ n = Len(s) => Prefix(s, n) = s
         /\ Rising(s) =>
              /\ Rising(Prefix(s, n))
              /\ Before(Elements(Prefix(s, n)), Elements(s) \ Elements(Prefix(s, n)))
<1> DEFINE p == Prefix(s, n)
<1>1. Len(s) \in Nat /\ DOMAIN s = 1 .. Len(s) /\ \A i \in DOMAIN s : s[i] \in S
  BY LenProperties
<1>2. \A i \in 1 .. n : s[i] \in S
  BY <1>1
<1>3. /\ p \in Seq(S) /\ Len(p) = IF 1 <= n THEN n - 1 + 1 ELSE 0
      /\ \A i \in 1 .. n - 1 + 1 : p[i] = s[1 + i - 1]
  BY <1>2, SubSeqProperties DEF Prefix
<1>4. Len(p) = n /\ \A i \in 1 .. n : p[i] = s[i]
  BY <1>1, <1>3
<1>5. DOMAIN p = 1 .. n
  BY <1>3, <1>4, LenProperties
<1> HIDE DEF p
<1>6. Elements(p) \subseteq Elements(s)
  BY <1>1, <1>4, <1>5 DEF Elements
<1>7. n = Len(s) => p = s
  BY <1>1, <1>3, <1>4, SeqEqual
<1>8. ASSUME Rising(s) PROVE Rising(p)
  BY <1>1, <1>4, <1>5, <1>8 DEF Rising
<1>9. ASSUME Rising(s) PROVE Before(Elements(p), Elements(s) \ Elements(p))
  <2> SUFFICES ASSUME NEW o \in Elements(p), NEW q \in Elements(s) \ Elements(p), o[1] = q[1]
               PROVE  o[2] < q[2]
    BY DEF Before
  <2>1. PICK i \in 1 .. n : o = s[i]
    BY <1>4, <1>5 DEF Elements
  <2>2. PICK j \in 1 .. Len(s) : q = s[j]
    BY <1>1 DEF Elements
  <2>3. j \notin 1 .. n
    BY <1>4, <1>5, <2>2 DEF Elements
  <2>4. i < j
    BY <1>1, <2>3
  <2> QED BY <1>1, <1>9, <2>1, <2>2, <2>4 DEF Rising
<1> QED BY <1>3, <1>4, <1>6, <1>7, <1>8, <1>9 DEF p

-----------------------------------------------------------------------------
(* Messages, observations and rows.                                        *)

LEMMA Basics ==
  /\ Nobody \notin Commands /\ Commands \subseteq Nat /\ Nobody = 0
  /\ Sources = Commands \cup {Nobody} /\ SomeCommand = Sources
  /\ LastEvent \in Nat /\ 1 <= LastEvent /\ StageLimit \in Nat
  /\ \A o \in Observations :
       /\ o[1] \in Sources /\ o[2] \in 1 .. LastEvent /\ o[2] \in Nat
       /\ o = <<o[1], o[2]>>
BY DeliveryAssumption DEF Nobody, Commands, Sources, SomeCommand, Observations

LEMMA OldestIs ==
  ASSUME NEW S \in SUBSET Commands
  PROVE  /\ S = {} => Oldest(S) = Nobody
         /\ S # {} => Oldest(S) \in S
<1>1. CASE S = {}
  BY <1>1 DEF Oldest
<1>2. CASE S # {}
  <2>0. \A i \in S : i \in Nat
    BY Basics
  <2>1. LastCommand \in Nat /\ S \in SUBSET (1 .. LastCommand)
    BY DeliveryAssumption DEF Commands
  <2>2. /\ Cardinality(S) \in Nat
        /\ \A k \in 1 .. Cardinality(S) : Kth(S, k) \in S
        /\ \A k, l \in 1 .. Cardinality(S) : k < l => Kth(S, k) < Kth(S, l)
        /\ \A i \in S : \E k \in 1 .. Cardinality(S) : Kth(S, k) = i
    BY <2>1, KthCounts
  <2>3. 1 \in 1 .. Cardinality(S)
    BY <1>2, <2>2
  <2>4. Kth(S, 1) \in S /\ \A d \in S : Kth(S, 1) <= d
    <3> SUFFICES ASSUME NEW d \in S PROVE Kth(S, 1) \in S /\ Kth(S, 1) <= d
      BY <2>2, <2>3
    <3>1. PICK k \in 1 .. Cardinality(S) : Kth(S, k) = d
      BY <2>2
    <3>2. k = 1 \/ 1 < k
      BY <2>2
    <3>3. Kth(S, 1) \in S /\ (k = 1 \/ Kth(S, 1) < Kth(S, k))
      BY <2>2, <2>3, <3>2
    <3>4. Kth(S, 1) \in Nat /\ d \in Nat
      BY <2>0, <3>3
    <3> QED BY <3>1, <3>3, <3>4
  <2>5. Oldest(S) = CHOOSE c \in S : \A d \in S : c <= d
    BY <1>2 DEF Oldest
  <2> QED BY <1>2, <2>4, <2>5
<1> QED BY <1>1, <1>2

\* What becomes of a row that keeps its place in the lane.
Same(a, b) ==
  /\ b.state = a.state \/ (a.state \in Unresolved /\ b.state \in Open)
  /\ a.gap => b.gap

\* A row that an observation may have found no room for.
Marked(a, b) ==
  /\ b.state = a.state \/ (a.state = "dispatching" /\ b.state = "unknown")
  /\ b.evidence = a.evidence
  /\ a.gap => b.gap

LEMMA Rows ==
  ASSUME NEW a \in AttemptType
  PROVE  /\ ToUnknown(a) \in AttemptType /\ Same(a, ToUnknown(a)) /\ Marked(a, ToUnknown(a))
         /\ WithGap(a) \in AttemptType /\ Same(a, WithGap(a)) /\ Marked(a, WithGap(a))
         /\ WithGap(a).gap
         /\ WithEvidence(a) \in AttemptType /\ Same(a, WithEvidence(a))
         /\ WithEvidence(a).state = a.state
         /\ WithEvidence(a).evidence => a.evidence \/ a.state \in Open
         /\ a.evidence => WithEvidence(a).evidence
         /\ SignalledUnknown(a) \in AttemptType
         /\ a.state \in Unresolved =>
              /\ Same(a, SignalledUnknown(a))
              /\ SignalledUnknown(a).state \in {"preparing", "unknown"}
              /\ SignalledUnknown(a).state = "preparing" => a.state = "preparing"
         /\ SignalledUnknown(a).evidence = a.evidence
BY DEF AttemptType, ToUnknown, WithGap, WithEvidence, SignalledUnknown, Same, Marked,
       Open, Unresolved

-----------------------------------------------------------------------------
(* The pipeline of observations.                                           *)

LEMMA JoinedEvents ==
  ASSUME NEW s \in Events, NEW t \in Events
  PROVE  /\ s \o t \in Events
         /\ Elements(s \o t) = Elements(s) \cup Elements(t)
         /\ (Rising(s) /\ Rising(t) /\ Before(Elements(s), Elements(t))) => Rising(s \o t)
<1>1. s \in Seq(Observations) /\ t \in Seq(Observations)
  BY DEF Events
<1> HIDE DEF Events
<1>2. /\ s \o t \in Seq(Observations)
      /\ Elements(s \o t) = Elements(s) \cup Elements(t)
      /\ (Rising(s) /\ Rising(t) /\ Before(Elements(s), Elements(t))) => Rising(s \o t)
  BY <1>1, Joined
<1> QED BY <1>2 DEF Events

\* A prefix of a stage goes to the journal (admit, drainAccepted).
Journaled(lg, p) == lg \o Without(p, Elements(lg))
Rest(st, c, p) == [st EXCEPT ![c] = Without(@, Elements(p))]

LEMMA JournaledIs ==
  ASSUME NEW lg \in Events, NEW p \in Events
  PROVE  /\ Journaled(lg, p) \in Events
         /\ Elements(Journaled(lg, p)) = Elements(lg) \cup Elements(p)
         /\ (Rising(lg) /\ Rising(p) /\ Before(Elements(lg), Elements(p)))
               => Rising(Journaled(lg, p))
<1> DEFINE w == Without(p, Elements(lg))
<1>1. w \in Events /\ Elements(w) = Elements(p) \ Elements(lg) /\ (Rising(p) => Rising(w))
  BY WithoutIs DEF Events
<1> HIDE DEF w
<1>2. /\ lg \o w \in Events /\ Elements(lg \o w) = Elements(lg) \cup Elements(w)
      /\ (Rising(lg) /\ Rising(w) /\ Before(Elements(lg), Elements(w))) => Rising(lg \o w)
  BY <1>1, JoinedEvents
<1>3. Before(Elements(lg), Elements(p)) => Before(Elements(lg), Elements(w))
  BY <1>1 DEF Before
<1> QED BY <1>1, <1>2, <1>3 DEF Journaled, w

LEMMA StageIsJournaled ==
  ASSUME NEW lg \in Events, NEW st \in [Commands -> Events], NEW rs, NEW str, NEW em,
         NEW c \in Commands, NEW n \in 0 .. Len(st[c]),
         Flow(lg, st, rs, str, em), RestOK(st, rs),
         NEW p, p = Prefix(st[c], n)
  PROVE  /\ Journaled(lg, p) \in Events
         /\ Rest(st, c, p) \in [Commands -> Events]
         /\ \A d \in Commands : Len(Rest(st, c, p)[d]) <= Len(st[d])
         /\ \A d \in Commands : st[d] = <<>> => Rest(st, c, p)[d] = <<>>
         /\ Flow(Journaled(lg, p), Rest(st, c, p), rs, str, em)
         /\ RestOK(Rest(st, c, p), rs)
         /\ \A ls, rows : Remembered(lg, st, rs, str, em, ls, rows)
               => Remembered(Journaled(lg, p), Rest(st, c, p), rs, str, em, ls, rows)
<1> DEFINE lg2 == Journaled(lg, p)
           st2 == Rest(st, c, p)
<1>1. /\ p \in Events /\ Elements(p) \subseteq Elements(st[c])
      /\ Rising(p) /\ Before(Elements(p), Elements(st[c]) \ Elements(p))
  BY PrefixIs DEF Events, Flow
<1>2. /\ lg2 \in Events /\ Elements(lg2) = Elements(lg) \cup Elements(p)
      /\ (Rising(lg) /\ Rising(p) /\ Before(Elements(lg), Elements(p))) => Rising(lg2)
  BY <1>1, JournaledIs
<1>3. Before(Elements(lg), Elements(p))
  BY <1>1 DEF Flow, Before
<1>4. Rising(lg2)
  BY <1>1, <1>2, <1>3 DEF Flow
<1>5. /\ st2 \in [Commands -> Events] /\ Elements(st2[c]) = Elements(st[c]) \ Elements(p)
      /\ Rising(st2[c]) /\ Len(st2[c]) <= Len(st[c])
      /\ \A d \in Commands : d # c => st2[d] = st[d]
  <2>1. /\ Without(st[c], Elements(p)) \in Events
        /\ Len(Without(st[c], Elements(p))) <= Len(st[c])
        /\ Elements(Without(st[c], Elements(p))) = Elements(st[c]) \ Elements(p)
        /\ Rising(Without(st[c], Elements(p)))
    BY WithoutIs DEF Events, Flow
  <2> QED BY <2>1 DEF Rest
<1> HIDE DEF lg2, st2
<1>6. \A d \in Commands : Elements(st2[d]) \subseteq Elements(st[d])
  BY <1>5
<1>7. \A d \in Commands : st[d] = <<>> => st2[d] = <<>>
  <2> SUFFICES ASSUME NEW d \in Commands, st[d] = <<>> PROVE st2[d] = <<>>
    OBVIOUS
  <2>1. Elements(st[d]) = {}
    BY EmptyElements DEF Events
  <2>2. Elements(st2[d]) = {}
    BY <1>6, <2>1
  <2> QED BY <1>5, <2>2, EmptyElements DEF Events
<1>8. RestOK(st2, rs)
  BY <1>7 DEF RestOK
<1>9. \A d \in Commands : Len(st2[d]) <= Len(st[d])
  <2> SUFFICES ASSUME NEW d \in Commands PROVE Len(st2[d]) <= Len(st[d])
    OBVIOUS
  <2>1. Len(st[d]) \in Nat
    BY LenProperties DEF Events
  <2> QED BY <1>5, <2>1
<1>10. Flow(lg2, st2, rs, str, em)
  <2>1. \A o \in Elements(lg2) \cup Elements(rs) \cup Elements(str) : o[2] <= em[o[1]]
    BY <1>1, <1>2 DEF Flow
  <2>2. Before(Elements(lg2), Elements(rs)) /\ Before(Elements(lg2), Elements(str))
    BY <1>1, <1>2 DEF Flow, Before
  <2>3. ASSUME NEW d \in Commands
        PROVE  /\ Rising(st2[d])
               /\ \A o \in Elements(st2[d]) : o[1] = d /\ o[2] <= em[d]
               /\ Before(Elements(st2[d]), Elements(rs)) /\ Before(Elements(st2[d]), Elements(str))
    <3>1. Rising(st2[d])
      BY <1>5 DEF Flow
    <3> QED BY <1>6, <3>1 DEF Flow, Before
  <2>4. ASSUME NEW d \in Commands
        PROVE  Before(Elements(lg2), Elements(st2[d]))
    <3>1. Before(Elements(lg), Elements(st2[d]))
      BY <1>6 DEF Flow, Before
    <3>2. Before(Elements(p), Elements(st2[d]))
      <4>1. CASE d = c
        BY <1>1, <1>5, <4>1
      <4>2. CASE d # c
        BY <1>1, <1>6, <4>2 DEF Flow, Before
      <4> QED BY <4>1, <4>2
    <3> QED BY <1>2, <3>1, <3>2 DEF Before
  <2> QED BY <1>4, <2>1, <2>2, <2>3, <2>4 DEF Flow
<1>11. ASSUME NEW ls, NEW rows, Remembered(lg, st, rs, str, em, ls, rows)
       PROVE  Remembered(lg2, st2, rs, str, em, ls, rows)
  BY <1>1, <1>2, <1>5, <1>11, Basics DEF Remembered
<1> QED BY <1>2, <1>5, <1>7, <1>8, <1>9, <1>10, <1>11 DEF lg2, st2

\* The events of a batch that are about c, and the others.
LEMMA Sorted ==
  ASSUME NEW c, NEW ev \in Events
  PROVE  /\ Of(c, ev) \in Events /\ Elements(Of(c, ev)) = {o \in Elements(ev) : o[1] = c}
         /\ NotOf(c, ev) \in Events /\ Elements(NotOf(c, ev)) = {o \in Elements(ev) : o[1] # c}
         /\ Rising(ev) => Rising(Of(c, ev)) /\ Rising(NotOf(c, ev))
BY WithoutIs DEF Of, NotOf, Events

\* A batch is shared out: n of the events about c that its stage has not got yet
\* join it (observe), the others are the rest of the batch.
Fresh(st, c, ev) == Without(Of(c, ev), Elements(st[c]))
Shared(st, c, ev, n) == [st EXCEPT ![c] = @ \o Prefix(Fresh(st, c, ev), n)]

\* The stage only grows, the pipeline keeps its order, and nothing is forgotten
\* if all of them have joined the stage or the gap is marked.
SharedOut(lg, st, ev, str, em, c, n) ==
  /\ Shared(st, c, ev, n) \in [Commands -> Events]
  /\ \A d \in Commands : d # c => Shared(st, c, ev, n)[d] = st[d]
  /\ Len(Shared(st, c, ev, n)[c]) = Len(st[c]) + n
  /\ Shared(st, c, ev, n)[c] = <<>> => st[c] = <<>>
  /\ Prefix(Shared(st, c, ev, n)[c], Len(st[c])) = st[c]
  /\ \A k \in 0 .. Len(st[c]) : Prefix(Shared(st, c, ev, n)[c], k) = Prefix(st[c], k)
  /\ Flow(lg, Shared(st, c, ev, n), NotOf(c, ev), str, em)
  /\ RestOK(Shared(st, c, ev, n), NotOf(c, ev))
  /\ \A ls, rows, rows2 :
       /\ Remembered(lg, st, ev, str, em, ls, rows)
       /\ \A d \in Commands : rows[d].gap => rows2[d].gap
       /\ n = Len(Fresh(st, c, ev)) \/ rows2[c].gap
       => Remembered(lg, Shared(st, c, ev, n), NotOf(c, ev), str, em, ls, rows2)

LEMMA BatchIsShared ==
  ASSUME NEW lg, NEW st \in [Commands -> Events], NEW ev \in Events, NEW str, NEW em,
         NEW c \in Commands, NEW n \in 0 .. Len(Fresh(st, c, ev)),
         Flow(lg, st, ev, str, em),
         \A d \in Commands : d # c /\ st[d] # <<>> => \A o \in Elements(ev) : o[1] # d
  PROVE  SharedOut(lg, st, ev, str, em, c, n)
<1> DEFINE fresh == Fresh(st, c, ev)
           st2 == Shared(st, c, ev, n)
           q == Prefix(fresh, n)
           rs == NotOf(c, ev)
<1>0. n \in 0 .. Len(fresh)
  OBVIOUS
<1>1. /\ Of(c, ev) \in Events /\ Elements(Of(c, ev)) = {o \in Elements(ev) : o[1] = c}
      /\ rs \in Events /\ Elements(rs) = {o \in Elements(ev) : o[1] # c}
      /\ Rising(Of(c, ev)) /\ Rising(rs)
  BY Sorted DEF Flow
<1> HIDE DEF rs
<1>2. /\ fresh \in Events /\ Elements(fresh) = Elements(Of(c, ev)) \ Elements(st[c])
      /\ Rising(fresh)
  BY <1>1, WithoutIs DEF Events, Fresh
<1> HIDE DEF fresh
<1>3. /\ q \in Events /\ Len(q) = n /\ Elements(q) \subseteq Elements(fresh) /\ Rising(q)
      /\ n = Len(fresh) => q = fresh
  BY <1>0, <1>2, PrefixIs DEF Events
<1> HIDE DEF q
<1>4. \A o \in Elements(q) : o \in Elements(ev) /\ o[1] = c
  BY <1>1, <1>2, <1>3
<1>5. Before(Elements(st[c]), Elements(q))
  BY <1>4 DEF Flow, Before
<1>6. /\ st[c] \in Events /\ st2[c] = st[c] \o q /\ \A d \in Commands : d # c => st2[d] = st[d]
  BY DEF q, Shared, fresh
<1>7. /\ st2[c] \in Events /\ Elements(st2[c]) = Elements(st[c]) \cup Elements(q)
      /\ Rising(st2[c])
  <2>1. Rising(st[c])
    BY DEF Flow
  <2>2. /\ st[c] \o q \in Events /\ Elements(st[c] \o q) = Elements(st[c]) \cup Elements(q)
        /\ (Rising(st[c]) /\ Rising(q) /\ Before(Elements(st[c]), Elements(q)))
              => Rising(st[c] \o q)
    BY <1>3, <1>6, JoinedEvents
  <2> QED BY <1>3, <1>5, <1>6, <2>1, <2>2
<1>8. st2 \in [Commands -> Events]
  BY <1>6, <1>7 DEF Shared
<1> HIDE DEF st2
<1>9. /\ Len(st[c]) \in Nat /\ n \in Nat /\ Len(st2[c]) = Len(st[c]) + n
      /\ \A i \in 1 .. Len(st[c]) + n :
           st2[c][i] = IF i <= Len(st[c]) THEN st[c][i] ELSE q[i - Len(st[c])]
  BY <1>3, <1>6, ConcatProperties, LenProperties DEF Events
<1>10. st2[c] = <<>> => st[c] = <<>>
  <2> SUFFICES ASSUME st2[c] = <<>> PROVE st[c] = <<>>
    OBVIOUS
  <2>1. Elements(st2[c]) = {}
    BY <1>7, EmptyElements DEF Events
  <2> QED BY <1>6, <1>7, <2>1, EmptyElements DEF Events
<1>11. ASSUME NEW k \in 0 .. Len(st[c])
       PROVE  Prefix(st2[c], k) = Prefix(st[c], k)
  <2>1. \A i \in 1 .. k : st2[c][i] = st[c][i] /\ st[c][i] \in Observations
    <3>1. \A i \in 1 .. Len(st[c]) : st[c][i] \in Observations
      BY <1>6, ElementOfSeq DEF Events
    <3> QED BY <1>9, <3>1
  <2>2. /\ Prefix(st2[c], k) \in Events /\ Len(Prefix(st2[c], k)) = k
        /\ \A i \in 1 .. k : Prefix(st2[c], k)[i] = st2[c][i]
    <3>1. \A i \in 1 .. k : st2[c][i] \in Observations
      BY <2>1
    <3>2. /\ SubSeq(st2[c], 1, k) \in Seq(Observations)
          /\ Len(SubSeq(st2[c], 1, k)) = IF 1 <= k THEN k - 1 + 1 ELSE 0
          /\ \A i \in 1 .. k - 1 + 1 : SubSeq(st2[c], 1, k)[i] = st2[c][1 + i - 1]
      BY <3>1, SubSeqProperties
    <3> QED BY <3>2 DEF Prefix, Events
  <2>3. /\ Prefix(st[c], k) \in Events /\ Len(Prefix(st[c], k)) = k
        /\ \A i \in 1 .. k : Prefix(st[c], k)[i] = st[c][i]
    <3>1. \A i \in 1 .. k : st[c][i] \in Observations
      BY <2>1
    <3>2. /\ SubSeq(st[c], 1, k) \in Seq(Observations)
          /\ Len(SubSeq(st[c], 1, k)) = IF 1 <= k THEN k - 1 + 1 ELSE 0
          /\ \A i \in 1 .. k - 1 + 1 : SubSeq(st[c], 1, k)[i] = st[c][1 + i - 1]
      BY <3>1, SubSeqProperties
    <3> QED BY <3>2 DEF Prefix, Events
  <2> QED BY <2>1, <2>2, <2>3, SeqEqual DEF Events
<1>12. Prefix(st2[c], Len(st[c])) = st[c]
  <2>0. Len(st[c]) \in 0 .. Len(st[c]) /\ st[c] \in Seq(Observations)
    BY <1>6, <1>9 DEF Events
  <2>1. Prefix(st[c], Len(st[c])) = st[c]
    BY <2>0, PrefixIs
  <2> QED BY <1>9, <1>11, <2>1
<1>13. Flow(lg, st2, rs, str, em)
  <2>1. Elements(rs) \subseteq Elements(ev)
    BY <1>1
  <2>2. /\ \A o \in Elements(lg) \cup Elements(rs) \cup Elements(str) : o[2] <= em[o[1]]
        /\ Before(Elements(lg), Elements(rs)) /\ Before(Elements(rs), Elements(str))
    BY <2>1 DEF Flow, Before
  <2>3. ASSUME NEW d \in Commands
        PROVE  /\ Rising(st2[d])
               /\ \A o \in Elements(st2[d]) : o[1] = d /\ o[2] <= em[d]
               /\ Before(Elements(lg), Elements(st2[d]))
               /\ Before(Elements(st2[d]), Elements(rs))
               /\ Before(Elements(st2[d]), Elements(str))
    <3>1. CASE d # c
      BY <1>6, <2>1, <3>1 DEF Flow, Before
    <3>2. CASE d = c
      <4>1. \A o \in Elements(st2[c]) : o \in Elements(st[c]) \/ (o \in Elements(ev) /\ o[1] = c)
        BY <1>4, <1>7
      <4>2. \A o \in Elements(st2[c]) : o[1] = c /\ o[2] <= em[c]
        BY <4>1 DEF Flow
      <4>3. Before(Elements(lg), Elements(st2[c])) /\ Before(Elements(st2[c]), Elements(str))
        BY <4>1 DEF Flow, Before
      <4>4. Before(Elements(st2[c]), Elements(rs))
        BY <1>1, <4>2 DEF Before
      <4> QED BY <1>7, <3>2, <4>2, <4>3, <4>4
    <3> QED BY <3>1, <3>2
  <2> QED BY <1>1, <2>2, <2>3 DEF Flow
<1>14. RestOK(st2, rs)
  BY <1>1, <1>6 DEF RestOK
<1>15. ASSUME NEW ls, NEW rows, NEW rows2, Remembered(lg, st, ev, str, em, ls, rows),
              \A d \in Commands : rows[d].gap => rows2[d].gap,
              n = Len(fresh) \/ rows2[c].gap
       PROVE  Remembered(lg, st2, rs, str, em, ls, rows2)
  <2> SUFFICES ASSUME NEW d \in Sources, NEW k \in 1 .. em[d]
               PROVE  \/ <<d, k>> \in Elements(lg) \cup Elements(str) \cup Elements(rs) \cup ls
                      \/ d # Nobody /\ (<<d, k>> \in Elements(st2[d]) \/ rows2[d].gap)
    BY DEF Remembered
  <2>1. \/ <<d, k>> \in Elements(lg) \cup Elements(str) \cup Elements(ev) \cup ls
        \/ d # Nobody /\ (<<d, k>> \in Elements(st[d]) \/ rows[d].gap)
    BY <1>15 DEF Remembered
  <2>2. CASE <<d, k>> \in Elements(ev) /\ d # c
    BY <1>1, <2>2
  <2>3. CASE <<d, k>> \in Elements(ev) /\ d = c
    <3>1. c # Nobody
      BY Basics
    <3>2. CASE rows2[c].gap
      BY <2>3, <3>1, <3>2
    <3>3. CASE n = Len(fresh)
      <4>1. <<d, k>> \in Elements(st2[c])
        BY <1>1, <1>2, <1>3, <1>7, <2>3, <3>3
      <4> QED BY <2>3, <3>1, <4>1
    <3> QED BY <1>15, <3>2, <3>3
  <2>4. CASE d # Nobody /\ (<<d, k>> \in Elements(st[d]) \/ rows[d].gap)
    <3>1. d \in Commands
      BY <2>4, Basics
    <3>2. Elements(st[d]) \subseteq Elements(st2[d])
      BY <1>6, <1>7, <3>1
    <3> QED BY <1>15, <2>4, <3>1, <3>2
  <2> QED BY <2>1, <2>2, <2>3, <2>4
<1> QED BY <1>6, <1>8, <1>9, <1>10, <1>11, <1>12, <1>13, <1>14, <1>15 DEF SharedOut, rs, fresh, st2

\* A batch is taken out of the stream.
LEMMA BatchIsRead ==
  ASSUME NEW lg, NEW st, NEW str \in Events, NEW em, Flow(lg, st, <<>>, str, em)
  PROVE  /\ Flow(lg, st, str, <<>>, em)
         /\ \A ls, rows : Remembered(lg, st, <<>>, str, em, ls, rows)
               => Remembered(lg, st, str, <<>>, em, ls, rows)
<1>1. Elements(<<>>) = {} /\ Rising(<<>>)
  BY EmptyElements, EmptySeq DEF Rising, Elements
<1> QED BY <1>1 DEF Flow, Before, Remembered

\* What is in memory is lost: nothing of it is further on.
LEMMA MemoryIsLost ==
  ASSUME NEW lg, NEW st, NEW rs, NEW str, NEW em, Flow(lg, st, rs, str, em)
  PROVE  /\ Flow(lg, st, <<>>, <<>>, em)
         /\ \A ls, rows : Remembered(lg, st, rs, str, em, ls, rows)
               => Remembered(lg, st, <<>>, <<>>, em,
                             ls \cup Elements(str) \cup Elements(rs), rows)
<1>1. Elements(<<>>) = {} /\ Rising(<<>>)
  BY EmptyElements, EmptySeq DEF Rising, Elements
<1> QED BY <1>1 DEF Flow, Before, Remembered

\* The rest of a batch, but for what was dropped, is appended (AppendDirect).
LEMMA RestIsJournaled ==
  ASSUME NEW lg \in Events, NEW st \in [Commands -> Events], NEW rs \in Events, NEW str,
         NEW em, NEW gone, Flow(lg, st, rs, str, em), RestOK(st, rs),
         NEW p, p = Without(rs, gone)
  PROVE  /\ Journaled(lg, p) \in Events
         /\ Flow(Journaled(lg, p), st, <<>>, str, em)
         /\ \A ls, rows : Remembered(lg, st, rs, str, em, ls, rows)
               => Remembered(Journaled(lg, p), st, <<>>, str, em, ls \cup gone, rows)
<1> DEFINE lg2 == Journaled(lg, p)
<1>0. Elements(<<>>) = {} /\ Rising(<<>>)
  BY EmptyElements, EmptySeq DEF Rising, Elements
<1>1. p \in Events /\ Elements(p) = Elements(rs) \ gone /\ Rising(p)
  BY WithoutIs DEF Events, Flow
<1>2. /\ lg2 \in Events /\ Elements(lg2) = Elements(lg) \cup Elements(p)
      /\ (Rising(lg) /\ Rising(p) /\ Before(Elements(lg), Elements(p))) => Rising(lg2)
  BY <1>1, JournaledIs
<1>3. Before(Elements(lg), Elements(p))
  BY <1>1 DEF Flow, Before
<1>4. Rising(lg2)
  BY <1>1, <1>2, <1>3 DEF Flow
<1> HIDE DEF lg2
<1>5. Flow(lg2, st, <<>>, str, em)
  <2>1. \A o \in Elements(lg2) : o \in Elements(lg) \/ o \in Elements(rs)
    BY <1>1, <1>2
  <2>2. /\ \A o \in Elements(lg2) \cup Elements(str) : o[2] <= em[o[1]]
        /\ Before(Elements(lg2), Elements(str))
    BY <2>1 DEF Flow, Before
  <2>3. ASSUME NEW d \in Commands
        PROVE  Before(Elements(lg2), Elements(st[d]))
    <3>1. CASE st[d] = <<>>
      BY <1>0, <3>1 DEF Before
    <3>2. CASE st[d] # <<>>
      <4>1. \A o \in Elements(rs) : o[1] # d
        BY <3>2 DEF RestOK
      <4>2. \A o \in Elements(st[d]) : o[1] = d
        BY DEF Flow
      <4> QED BY <2>1, <4>1, <4>2 DEF Flow, Before
    <3> QED BY <3>1, <3>2
  <2> QED BY <1>0, <1>4, <2>2, <2>3 DEF Flow, Before
<1>6. ASSUME NEW ls, NEW rows, Remembered(lg, st, rs, str, em, ls, rows)
      PROVE  Remembered(lg2, st, <<>>, str, em, ls \cup gone, rows)
  BY <1>1, <1>2, <1>6 DEF Remembered
<1> QED BY <1>2, <1>5, <1>6 DEF lg2

\* The provider makes the next observation of c.
NextOf(em, c) == <<c, em[c] + 1>>
OneMore(em, c) == [em EXCEPT ![c] = @ + 1]

LEMMA NextIsEmitted ==
  ASSUME NEW lg \in Events, NEW st \in [Commands -> Events], NEW rs \in Events,
         NEW str \in Events, NEW em \in [Sources -> Nat], NEW c \in Sources,
         em[c] < LastEvent, Flow(lg, st, rs, str, em)
  PROVE  /\ NextOf(em, c) \in Observations
         /\ Append(str, NextOf(em, c)) \in Events
         /\ Flow(lg, st, rs, Append(str, NextOf(em, c)), OneMore(em, c))
         /\ Flow(lg, st, rs, str, OneMore(em, c))
         /\ \A ls, rows : Remembered(lg, st, rs, str, em, ls, rows) =>
              /\ Remembered(lg, st, rs, Append(str, NextOf(em, c)), OneMore(em, c), ls, rows)
              /\ Remembered(lg, st, rs, str, OneMore(em, c), ls \cup {NextOf(em, c)}, rows)
<1> DEFINE event == NextOf(em, c)
           em2 == OneMore(em, c)
<1>1. /\ event \in Observations /\ event[1] = c /\ event[2] = em[c] + 1
      /\ event = <<c, em[c] + 1>>
  <2>1. em[c] + 1 \in 1 .. LastEvent
    BY Basics
  <2> QED BY <2>1 DEF Observations, NextOf
<1>2. /\ em2 \in [Sources -> Nat] /\ em2[c] = em[c] + 1
      /\ \A d \in Sources : em[d] <= em2[d] /\ (d # c => em2[d] = em[d])
  BY DEF OneMore
<1> HIDE DEF event, em2
<1>3. <<event>> \in Events /\ Elements(<<event>>) = {event} /\ Rising(<<event>>)
  BY <1>1 DEF Events, Elements, Rising
<1>4. Append(str, event) = str \o <<event>>
  BY <1>1, AppendIsConcat DEF Events
<1>5. \A o \in Elements(lg) \cup Elements(rs) \cup Elements(str) :
         o[1] \in Sources /\ o[2] \in Nat /\ o[2] <= em[o[1]]
  BY ElementsAre, Basics DEF Events, Flow
<1>6. \A d \in Commands : \A o \in Elements(st[d]) :
         o[1] = d /\ d \in Sources /\ o[2] \in Nat /\ o[2] <= em[d]
  BY ElementsAre, Basics DEF Events, Flow
<1>7. /\ Before(Elements(lg), {event}) /\ Before(Elements(rs), {event})
      /\ Before(Elements(str), {event})
  BY <1>1, <1>5 DEF Before
<1>8. \A d \in Commands : Before(Elements(st[d]), {event})
  BY <1>1, <1>6 DEF Before
<1>9. /\ \A o \in Elements(lg) \cup Elements(rs) \cup Elements(str) \cup {event} :
            o[2] <= em2[o[1]]
      /\ \A d \in Commands : \A o \in Elements(st[d]) : o[1] = d /\ o[2] <= em2[d]
  BY <1>1, <1>2, <1>5, <1>6
<1> DEFINE str2 == Append(str, event)
<1>10. /\ str2 \in Events /\ Elements(str2) = Elements(str) \cup {event}
       /\ (Rising(str) /\ Before(Elements(str), {event})) => Rising(str2)
  <2>1. /\ str \o <<event>> \in Events
        /\ Elements(str \o <<event>>) = Elements(str) \cup Elements(<<event>>)
        /\ (Rising(str) /\ Rising(<<event>>) /\ Before(Elements(str), Elements(<<event>>)))
              => Rising(str \o <<event>>)
    BY <1>3, JoinedEvents
  <2> QED BY <1>3, <1>4, <2>1
<1> HIDE DEF str2
<1>11. Flow(lg, st, rs, str, em2)
  BY <1>9 DEF Flow
<1>12. Flow(lg, st, rs, str2, em2)
  BY <1>7, <1>8, <1>9, <1>10 DEF Flow, Before
<1>13. ASSUME NEW ls, NEW rows, Remembered(lg, st, rs, str, em, ls, rows)
       PROVE  /\ Remembered(lg, st, rs, str2, em2, ls, rows)
              /\ Remembered(lg, st, rs, str, em2, ls \cup {event}, rows)
  <2> SUFFICES ASSUME NEW d \in Sources, NEW k \in 1 .. em2[d]
               PROVE  \/ <<d, k>> = event
                      \/ <<d, k>> \in Elements(lg) \cup Elements(str) \cup Elements(rs) \cup ls
                      \/ d # Nobody /\ (<<d, k>> \in Elements(st[d]) \/ rows[d].gap)
    BY <1>10 DEF Remembered
  <2>1. (d = c /\ k = em[c] + 1) \/ k \in 1 .. em[d]
    BY <1>2
  <2> QED BY <1>1, <1>13, <2>1 DEF Remembered
<1> QED BY <1>1, <1>10, <1>11, <1>12, <1>13 DEF str2, event, em2

-----------------------------------------------------------------------------
(* Steps of the lane.                                                      *)

LaneStep == [Lane!LaneNext]_(Lane!laneVars)
OneHolds == \A c, d \in Commands : Holds(c) /\ Holds(d) => c = d

LEMMA Outcomes ==
  ASSUME RowTypes, NEW c \in Commands
  PROVE  /\ Outcome(c) = "queued" <=> attempt[c].state = "none"
         /\ Outcome(c) = "offered" <=> attempt[c].state \in Unresolved
         /\ Outcome(c) = "delivered" <=> (attempt[c].state = "accepted" /\ staged[c] # <<>>)
         /\ Outcome(c) = "settled" <=> (attempt[c].state = "accepted" /\ staged[c] = <<>>)
         /\ Outcome(c) = "refused" <=> attempt[c].state = "rejected"
         /\ Outcome(c) = "abandoned" <=> attempt[c].state = "abandoned"
         /\ Holds(c) <=> Outcome(c) \in {"offered", "delivered"}
<1>1. attempt[c].state \in {"none", "preparing", "dispatching", "accepted", "rejected",
                            "unknown", "abandoned"}
  BY DEF RowTypes, AttemptType
<1> QED BY <1>1 DEF Outcome, Unresolved, Holds

\* What a step may do to the outcome of c, the one message it is about.
Moves(c, from, to) ==
  \/ to = from /\ taken' = taken
  \/ /\ from = "queued" /\ to = "offered" /\ taken' = taken
     /\ \A d \in Commands : ~Holds(d)
  \/ from = "offered" /\ to = "offered" /\ c \notin taken /\ taken' = taken \cup {c}
  \/ from = "offered" /\ to \in {"delivered", "settled"} /\ c \in taken /\ taken' = taken
  \/ from = "delivered" /\ to = "settled" /\ taken' = taken
  \/ from = "offered" /\ to = "refused" /\ c \notin taken /\ taken' = taken
  \/ from = "offered" /\ to = "abandoned" /\ taken' = taken

LEMMA LaneMoves ==
  ASSUME RowTypes, RowTypes', LaneOK, NEW c \in Commands,
         \A d \in Commands \ {c} : Outcome(d)' = Outcome(d),
         Moves(c, Outcome(c), Outcome(c)')
  PROVE  /\ LaneStep /\ OneHolds'
         /\ Outcome(c) # "queued" => (LaneHeld' => LaneHeld)
<1> DEFINE out == [d \in Commands |-> Outcome(d)]
<1>1. \A d \in Commands : Holds(d) <=> out[d] \in {"offered", "delivered"}
  BY Outcomes
<1>2. \A d \in Commands : Holds(d)' <=> out'[d] \in {"offered", "delivered"}
  <2> SUFFICES ASSUME NEW d \in Commands
               PROVE  Holds(d)' <=> out'[d] \in {"offered", "delivered"}
    OBVIOUS
  <2>1. Holds(d)' <=> Outcome(d)' \in {"offered", "delivered"}
    <3>1. attempt'[d].state \in {"none", "preparing", "dispatching", "accepted",
                                 "rejected", "unknown", "abandoned"}
      BY DEF RowTypes, AttemptType
    <3> QED BY <3>1 DEF Outcome, Unresolved, Holds
  <2> QED BY <2>1
<1>3. out[c] = Outcome(c) /\ out'[c] = Outcome(c)' /\ \A d \in Commands \ {c} : out'[d] = out[d]
  OBVIOUS
<1>4. out' = [out EXCEPT ![c] = Outcome(c)']
  OBVIOUS
<1>5. LaneStep
  <2>1. CASE Outcome(c)' = Outcome(c) /\ taken' = taken
    <3>1. out' = out
      BY <1>4, <2>1
    <3> QED BY <2>1, <3>1 DEF LaneStep, Lane!laneVars
  <2>2. CASE /\ Outcome(c) = "queued" /\ Outcome(c)' = "offered" /\ taken' = taken
             /\ \A d \in Commands : ~Holds(d)
    <3>1. Lane!Offer(c)
      BY <1>1, <1>3, <1>4, <2>2 DEF Lane!Offer, Lane!HoldsLane
    <3> QED BY <3>1 DEF LaneStep, Lane!LaneNext
  <2>3. CASE /\ Outcome(c) = "offered" /\ Outcome(c)' = "offered"
             /\ c \notin taken /\ taken' = taken \cup {c}
    <3>1. Lane!Take(c)
      BY <1>3, <1>4, <2>3 DEF Lane!Take
    <3> QED BY <3>1 DEF LaneStep, Lane!LaneNext
  <2>4. CASE /\ Outcome(c) = "offered" /\ Outcome(c)' \in {"delivered", "settled"}
             /\ c \in taken /\ taken' = taken
    <3>1. Lane!Deliver(c)
      BY <1>3, <1>4, <2>4 DEF Lane!Deliver
    <3> QED BY <3>1 DEF LaneStep, Lane!LaneNext
  <2>5. CASE Outcome(c) = "delivered" /\ Outcome(c)' = "settled" /\ taken' = taken
    <3>1. Lane!Settle(c)
      BY <1>3, <1>4, <2>5 DEF Lane!Settle
    <3> QED BY <3>1 DEF LaneStep, Lane!LaneNext
  <2>6. CASE Outcome(c) = "offered" /\ Outcome(c)' = "refused" /\ c \notin taken /\ taken' = taken
    <3>1. Lane!Refuse(c)
      BY <1>3, <1>4, <2>6 DEF Lane!Refuse
    <3> QED BY <3>1 DEF LaneStep, Lane!LaneNext
  <2>7. CASE Outcome(c) = "offered" /\ Outcome(c)' = "abandoned" /\ taken' = taken
    <3>1. Lane!Abandon(c)
      BY <1>3, <1>4, <2>7 DEF Lane!Abandon
    <3> QED BY <3>1 DEF LaneStep, Lane!LaneNext
  <2> QED BY <2>1, <2>2, <2>3, <2>4, <2>5, <2>6, <2>7 DEF Moves
<1>6. OneHolds'
  <2> SUFFICES ASSUME NEW d \in Commands, NEW e \in Commands, Holds(d)', Holds(e)'
               PROVE  d = e
    BY DEF OneHolds
  <2>1. CASE \A f \in Commands : ~Holds(f)
    BY <1>1, <1>2, <1>3, <2>1
  <2>2. CASE \E f \in Commands : Holds(f)
    <3>1. out'[c] \in {"offered", "delivered"} => out[c] \in {"offered", "delivered"}
      BY <1>3, <2>2 DEF Moves
    <3>2. Holds(d) /\ Holds(e)
      BY <1>1, <1>2, <1>3, <3>1
    <3> QED BY <3>2 DEF LaneOK
  <2> QED BY <2>1, <2>2
<1>7. ASSUME Outcome(c) # "queued" PROVE LaneHeld' => LaneHeld
  <2>1. out'[c] \in {"offered", "delivered"} => out[c] \in {"offered", "delivered"}
    BY <1>3, <1>7 DEF Moves
  <2>2. \A d \in Commands : Holds(d)' => Holds(d)
    BY <1>1, <1>2, <1>3, <2>1
  <2> QED BY <2>2 DEF LaneHeld, Holds
<1> QED BY <1>5, <1>6, <1>7

\* Nothing becomes of a message.
LEMMA LaneStays ==
  ASSUME RowTypes, RowTypes', LaneOK, UNCHANGED <<staged, taken>>,
         \A d \in Commands : Same(attempt[d], attempt'[d])
  PROVE  LaneStep /\ LaneOK' /\ (LaneHeld' => LaneHeld)
<1> DEFINE out == [d \in Commands |-> Outcome(d)]
<1>1. \A d \in Commands :
         /\ attempt'[d].state = attempt[d].state
            \/ {attempt[d].state, attempt'[d].state} \subseteq Unresolved
         /\ staged'[d] = staged[d]
  BY DEF Same, Open, Unresolved
<1>2. \A d \in Commands : Outcome(d)' = Outcome(d)
  BY <1>1 DEF Outcome, Unresolved
<1>3. LaneStep
  <2>1. out' = out
    BY <1>2
  <2> QED BY <2>1 DEF LaneStep, Lane!laneVars
<1>4. \A d \in Commands : Holds(d)' => Holds(d)
  BY <1>1 DEF Holds, Unresolved
<1>5. \A d \in Commands : staged'[d] # <<>> => attempt'[d].state \in Unresolved \cup {"accepted"}
  BY <1>1 DEF LaneOK
<1>6. LaneOK'
  BY <1>4, <1>5 DEF LaneOK
<1>7. LaneHeld' => LaneHeld
  BY <1>4 DEF LaneHeld, Holds
<1> QED BY <1>3, <1>6, <1>7

\* The pipeline stands still.
LEMMA JournalStays ==
  ASSUME ActivitiesOK, JournalOK, UNCHANGED <<log, stream, cons, staged, emitted, lost>>,
         disp' = disp \/ disp'.pc # "preparing",
         \A d \in Commands :
            /\ attempt'[d].state = "accepted" <=> attempt[d].state = "accepted"
            /\ attempt[d].gap => attempt'[d].gap
  PROVE  JournalOK'
<1>1. Flow(log, staged, cons.rest, stream, emitted)' /\ RestOK(staged, cons.rest)'
  BY DEF JournalOK, Flow, RestOK
<1>2. Remembered(log, staged, cons.rest, stream, emitted, lost, attempt)'
  <2>1. \A d \in Sources : d # Nobody => d \in Commands
    BY Basics
  <2> QED BY <2>1 DEF JournalOK, Remembered
<1>3. SnapsOK'
  BY DEF JournalOK, SnapsOK, ActivitiesOK
<1> QED BY <1>1, <1>2, <1>3 DEF JournalOK

\* Nothing is sent or taken; a process may go, and with it what it was about.
LEMMA MessagesStay ==
  ASSUME RowTypes, MessagesOK, UNCHANGED <<writes, taken>>,
         prompt' \in {prompt, Nobody}, outbox' \in {outbox, Nobody},
         \A d \in Commands :
            /\ queue'[d] = "queued" => queue[d] = "queued"
            /\ wire'[d] = wire[d] \/ (wire[d] # "none" /\ wire'[d] = "ended")
            /\ Same(attempt[d], attempt'[d])
            /\ attempt'[d].evidence => attempt[d].evidence \/ d \in taken
  PROVE  MessagesOK'
<1> SUFFICES ASSUME NEW d \in Commands PROVE MessageOK(d)'
  BY DEF MessagesOK
<1>1. MessageOK(d) /\ Nobody # d
  BY Basics DEF MessagesOK
<1>2. attempt'[d].state \in {"none", "preparing"} => attempt'[d].state = attempt[d].state
  BY DEF Same, Open
<1>3. attempt[d].state \in Open => attempt'[d].state \in Open
  BY DEF Same
<1>4. /\ wire'[d] = "none" <=> wire[d] = "none"
      /\ wire'[d] = "written" => wire[d] = "written"
      /\ wire'[d] = "working" => wire[d] = "working"
  OBVIOUS
<1>5. (prompt' = d => prompt = d) /\ (outbox' = d => outbox = d)
  BY <1>1
<1>6. attempt'[d].evidence => d \in taken
  BY <1>1 DEF MessageOK
<1>7. /\ queue'[d] = "queued" => attempt'[d].state = "none"
      /\ attempt'[d].state = "none" => prompt' # d
      /\ attempt'[d].state \in {"none", "preparing"} => wire'[d] = "none" /\ outbox' # d
  <2>1. attempt[d].state = "none" => attempt'[d].state = "none"
    BY DEF Same, Unresolved
  <2> QED BY <1>1, <1>2, <1>4, <1>5, <2>1 DEF MessageOK
<1>8. (wire'[d] = "written" \/ outbox' = d) => attempt'[d].state \in Open
  BY <1>1, <1>3, <1>4, <1>5 DEF MessageOK
<1>9. /\ writes'[d] = IF wire'[d] = "none" THEN 0 ELSE 1
      /\ outbox' = d => wire'[d] = "none"
      /\ wire'[d] \in {"none", "written"} => d \notin taken'
      /\ wire'[d] = "working" => d \in taken'
  BY <1>1, <1>4, <1>5 DEF MessageOK
<1> QED BY <1>6, <1>7, <1>8, <1>9 DEF MessageOK

LEMMA SilenceStays ==
  ASSUME SilentOK, UNCHANGED <<provider, emitted>>,
         disp' = disp \/ disp'.pc # "starting",
         \A d \in Commands :
            /\ attempt'[d].state = "none" => attempt[d].state = "none"
            /\ wire'[d] = "none" => wire[d] = "none"
  PROVE  SilentOK'
BY DEF SilentOK

LEMMA DispatchStays ==
  ASSUME ActivitiesOK, DispatchOK, disp' = disp, taken \subseteq taken',
         prompt' \in {prompt, Nobody},
         LaneHeld' => LaneHeld,
         \A d \in Commands : queue'[d] = "queued" => queue[d] = "queued",
         disp.pc \in {"opening", "starting", "waiting"}
            => Marked(attempt[disp.cmd], attempt'[disp.cmd])
  PROVE  DispatchOK'
<1>1. disp.pc # "idle" => disp.cmd \in Commands /\ disp.cmd # Nobody
  BY Basics DEF ActivitiesOK
<1>2. CASE disp.pc = "opening"
  BY <1>1, <1>2 DEF DispatchOK, Marked
<1>3. CASE disp.pc = "starting"
  BY <1>1, <1>3 DEF DispatchOK, Marked
<1>4. CASE disp.pc = "waiting"
  BY <1>1, <1>4 DEF DispatchOK, Marked, Unresolved
<1>5. CASE disp.pc \notin {"opening", "starting", "waiting"}
  BY <1>5 DEF DispatchOK
<1> QED BY <1>2, <1>3, <1>4, <1>5

\* The dispatcher rests.
LEMMA DispatchRests ==
  ASSUME disp'.pc = "idle"
  PROVE  DispatchOK'
BY DEF DispatchOK

LEMMA Unfold ==
  IInv =>
    /\ Types /\ ActivitiesOK /\ MessagesOK /\ SilentOK /\ DispatchOK /\ LaneOK /\ JournalOK
    /\ ProviderTypes /\ RowTypes /\ JournalTypes /\ BootTypes /\ DispTypes /\ ConsTypes
    /\ \A c \in Commands : attempt[c] \in AttemptType /\ Same(attempt[c], attempt[c])
                           /\ Marked(attempt[c], attempt[c])
BY DEF IInv, Types, RowTypes, Same, Marked

-----------------------------------------------------------------------------
(* The steps of the dispatcher.                                            *)

LEMMA DispatchNextKeeps ==
  ASSUME IInv, DispatchNext
  PROVE  IInv' /\ LaneStep
<1> USE Unfold DEF DispatchNext, procVars
<1>1. PICK head \in Commands :
        /\ queue[head] = "queued"
        /\ queue' = [queue EXCEPT ![head] = "dispatching"]
        /\ disp' = [Idle EXCEPT !.pc = "opening", !.cmd = head]
  <2> DEFINE S == {c \in Commands : queue[c] # "removed"}
  <2>1. Oldest(S) # Nobody
    OBVIOUS
  <2>2. Oldest(S) \in Commands
    BY <2>1, OldestIs
  <2> QED BY <2>2
<1>2. disp'.pc = "opening" /\ disp'.cmd = head /\ DispTypes'
  <2>1. <<>> \in Events
    BY EmptySeq DEF Events
  <2> QED BY <1>1, <2>1 DEF DispTypes, Idle, SomeCommand
<1>3. \A d \in Commands : queue'[d] = "queued" => queue[d] = "queued"
  BY <1>1 DEF RowTypes
<1>4. Types'
  BY <1>1, <1>2 DEF Types, ProviderTypes, RowTypes, JournalTypes, BootTypes, ConsTypes
<1>5. ActivitiesOK'
  BY <1>1, <1>2 DEF ActivitiesOK
<1>6. MessagesOK' /\ SilentOK'
  BY <1>2, <1>3, MessagesStay, SilenceStays
<1>7. LaneStep /\ LaneOK' /\ (LaneHeld' => LaneHeld)
  BY <1>4, LaneStays DEF Types
<1>8. DispatchOK'
  BY <1>1, <1>2, <1>7 DEF DispatchOK, MessagesOK, MessageOK, RowTypes
<1>9. JournalOK'
  BY <1>2, JournalStays
<1> QED BY <1>4, <1>5, <1>6, <1>7, <1>8, <1>9 DEF IInv

\* The catch of dispatchNext: the dispatcher rests, the row is in doubt.
LEMMA GiveUpIs ==
  ASSUME Types, NEW c \in Commands, GiveUp(c)
  PROVE  /\ DispTypes' /\ disp'.pc = "idle"
         /\ queue' \in [Commands -> {"queued", "dispatching", "delivery_unknown", "removed"}]
         /\ turn' \in [Commands -> {"none", "running", "ended", "failed"}]
         /\ \A d \in Commands : queue'[d] = "queued" => queue[d] = "queued"
         /\ UNCHANGED <<paused, log>>
<1>1. <<>> \in Events /\ Nobody \in SomeCommand
  BY EmptySeq DEF Events, SomeCommand
<1>2. DispTypes' /\ disp'.pc = "idle"
  BY <1>1 DEF GiveUp, DispTypes, Idle
<1> QED BY <1>2 DEF GiveUp, Types, RowTypes

LEMMA OpeningFailsKeeps ==
  ASSUME IInv, OpeningFails
  PROVE  IInv' /\ LaneStep
<1> USE Unfold DEF OpeningFails, procVars
<1>1. disp.cmd \in Commands
  BY DEF ActivitiesOK
<1>2. /\ DispTypes' /\ disp'.pc = "idle"
      /\ queue' \in [Commands -> {"queued", "dispatching", "delivery_unknown", "removed"}]
      /\ turn' \in [Commands -> {"none", "running", "ended", "failed"}]
      /\ \A d \in Commands : queue'[d] = "queued" => queue[d] = "queued"
      /\ UNCHANGED <<paused, log>>
  BY <1>1, GiveUpIs
<1>4. Types'
  BY <1>2 DEF Types, ProviderTypes, RowTypes, JournalTypes, BootTypes, ConsTypes
<1>5. ActivitiesOK'
  BY <1>2 DEF ActivitiesOK
<1>6. MessagesOK' /\ SilentOK'
  BY <1>2, MessagesStay, SilenceStays
<1>7. LaneStep /\ LaneOK' /\ (LaneHeld' => LaneHeld)
  BY <1>4, LaneStays DEF Types
<1>8. DispatchOK'
  BY <1>2, DispatchRests
<1>9. JournalOK'
  BY <1>2, JournalStays
<1> QED BY <1>4, <1>5, <1>6, <1>7, <1>8, <1>9 DEF IInv

LEMMA SessionReadyKeeps ==
  ASSUME IInv, SessionReady
  PROVE  IInv' /\ LaneStep
<1> USE Unfold DEF SessionReady
<1>1. PICK c \in Commands :
        /\ c = disp.cmd /\ boot.pc = "up"
        /\ attempt[c].state = "none" /\ queue[c] # "queued" /\ ~LaneHeld
  BY DEF ActivitiesOK, DispatchOK
<1>2. /\ disp'.pc = "starting" /\ disp'.cmd = c /\ DispTypes'
      /\ session' \in {"open", "dead"} /\ session' # "open" => session = "dead"
  BY <1>1 DEF DispTypes, ProviderTypes
<1> DEFINE row == [attempt[c] EXCEPT !.state = "preparing"]
<1>3. /\ row \in AttemptType /\ row.state = "preparing"
      /\ row.gap = attempt[c].gap /\ row.evidence = attempt[c].evidence
      /\ attempt' = [attempt EXCEPT ![c] = row]
  BY <1>1 DEF AttemptType
<1> HIDE DEF row
<1>4. /\ attempt' \in [Commands -> AttemptType] /\ attempt'[c] = row
      /\ \A d \in Commands : d # c => attempt'[d] = attempt[d]
  BY <1>1, <1>3 DEF RowTypes
<1>5. Types'
  BY <1>2, <1>4 DEF Types, ProviderTypes, RowTypes, JournalTypes, BootTypes, ConsTypes
<1>6. ActivitiesOK'
  BY <1>1, <1>2 DEF ActivitiesOK
<1>7. MessagesOK'
  <2> SUFFICES ASSUME NEW d \in Commands PROVE MessageOK(d)'
    BY DEF MessagesOK
  <2>1. MessageOK(d)
    BY DEF MessagesOK
  <2>2. CASE d # c
    BY <1>4, <2>1, <2>2 DEF MessageOK
  <2>3. CASE d = c
    BY <1>1, <1>3, <1>4, <2>1, <2>3 DEF MessageOK, Open
  <2> QED BY <2>2, <2>3
<1>8. SilentOK'
  BY <1>1, <1>2, <1>3, <1>4 DEF SilentOK
<1>9. LaneStep /\ OneHolds'
  <2>1. \A d \in Commands : ~Holds(d)
    BY <1>1 DEF LaneHeld, Holds
  <2>2. Outcome(c) = "queued" /\ Outcome(c)' = "offered"
    BY <1>1, <1>3, <1>4 DEF Outcome, Unresolved
  <2>3. \A d \in Commands \ {c} : Outcome(d)' = Outcome(d)
    BY <1>4 DEF Outcome
  <2>4. Moves(c, Outcome(c), Outcome(c)')
    BY <2>1, <2>2 DEF Moves
  <2> QED BY <1>1, <1>5, <2>3, <2>4, LaneMoves DEF Types
<1>10. LaneOK'
  BY <1>1, <1>3, <1>4, <1>9 DEF LaneOK, OneHolds, Unresolved
<1>11. DispatchOK'
  BY <1>1, <1>2, <1>3, <1>4 DEF DispatchOK, MessagesOK, MessageOK
<1>12. JournalOK'
  BY <1>1, <1>2, <1>3, <1>4, JournalStays
<1> QED BY <1>5, <1>6, <1>7, <1>8, <1>9, <1>10, <1>11, <1>12 DEF IInv

LEMMA HandOverKeeps ==
  ASSUME IInv, HandOver
  PROVE  IInv' /\ LaneStep
<1> USE Unfold DEF HandOver, dbVars
<1>1. PICK c \in Commands :
        /\ c = disp.cmd /\ c \in Sources /\ boot.pc = "up"
        /\ attempt[c].state = "preparing" /\ prompt # c
        /\ ~attempt[c].evidence /\ wire[c] = "none" /\ emitted[c] = 0
  <2> DEFINE c == disp.cmd
  <2>1. c \in Commands /\ boot.pc = "up" /\ attempt[c].state = "preparing" /\ prompt # c
    BY DEF ActivitiesOK, DispatchOK
  <2>2. wire[c] = "none" /\ c \notin taken
    BY <2>1 DEF MessagesOK, MessageOK
  <2>3. ~attempt[c].evidence
    BY <2>1, <2>2 DEF MessagesOK, MessageOK
  <2>4. emitted[c] = 0
    BY <2>1 DEF SilentOK
  <2>5. c \in Sources
    BY <2>1, Basics
  <2> QED BY <2>1, <2>2, <2>3, <2>4, <2>5
<1>2. disp'.pc = "waiting" /\ disp'.cmd = c /\ DispTypes'
  BY <1>1 DEF DispTypes
<1>3. /\ Flow(log, staged, cons.rest, stream', emitted')
      /\ Remembered(log, staged, cons.rest, stream', emitted', lost, attempt)
      /\ stream' \in Events /\ emitted' \in [Sources -> 0 .. LastEvent]
      /\ \A d \in Sources : d # c => emitted'[d] = emitted[d]
      /\ provider # "claude-code" => emitted' = emitted
  <2>1. CASE provider = "claude-code"
    <3>1. emitted' = OneMore(emitted, c) /\ stream' = Append(stream, NextOf(emitted, c))
      BY <1>1, <2>1 DEF NextOf, OneMore, ProviderTypes
    <3>2. /\ log \in Events /\ staged \in [Commands -> Events] /\ cons.rest \in Events
          /\ stream \in Events /\ emitted \in [Sources -> Nat] /\ emitted[c] < LastEvent
      <4>1. 0 .. LastEvent \subseteq Nat /\ 0 < LastEvent
        BY Basics
      <4> QED BY <1>1, <4>1 DEF ProviderTypes, JournalTypes, ConsTypes
    <3>3. /\ Flow(log, staged, cons.rest, stream, emitted)
          /\ Remembered(log, staged, cons.rest, stream, emitted, lost, attempt)
      BY DEF JournalOK
    <3>4. /\ stream' \in Events
          /\ Flow(log, staged, cons.rest, stream', emitted')
          /\ Remembered(log, staged, cons.rest, stream', emitted', lost, attempt)
      BY <1>1, <3>1, <3>2, <3>3, NextIsEmitted
    <3>5. emitted' \in [Sources -> 0 .. LastEvent]
      BY <1>1, <3>1, Basics DEF ProviderTypes, OneMore
    <3> QED BY <1>1, <2>1, <3>1, <3>4, <3>5 DEF OneMore, ProviderTypes
  <2>2. CASE provider # "claude-code"
    BY <2>2 DEF ProviderTypes, JournalOK
  <2> QED BY <2>1, <2>2
<1>4. Types'
  BY <1>1, <1>2, <1>3 DEF Types, ProviderTypes, RowTypes, JournalTypes, BootTypes, ConsTypes, SomeCommand
<1>5. ActivitiesOK'
  BY <1>1, <1>2 DEF ActivitiesOK
<1>6. MessagesOK'
  <2> SUFFICES ASSUME NEW d \in Commands PROVE MessageOK(d)'
    BY DEF MessagesOK
  <2>1. MessageOK(d)
    BY DEF MessagesOK
  <2>2. d = c => prompt' = d /\ attempt[d].state # "none"
    BY <1>1
  <2>3. d # c => prompt' # d
    BY <1>1
  <2> QED BY <2>1, <2>2, <2>3 DEF MessageOK
<1>7. SilentOK'
  <2> SUFFICES ASSUME NEW d \in Commands,
                      attempt[d].state = "none" \/ (provider = "codex" /\ wire[d] = "none")
               PROVE  emitted'[d] = 0
    BY <1>2 DEF SilentOK
  <2>1. emitted[d] = 0 /\ d \in Sources
    BY Basics DEF SilentOK
  <2>2. CASE d = c
    BY <1>1, <1>3, <2>1, <2>2
  <2> QED BY <1>3, <2>1, <2>2
<1>8. LaneStep /\ LaneOK' /\ (LaneHeld' => LaneHeld)
  BY <1>4, LaneStays DEF Types
<1>9. DispatchOK'
  BY <1>1, <1>2 DEF DispatchOK, Unresolved
<1>10. JournalOK'
  BY <1>2, <1>3 DEF JournalOK, SnapsOK, RestOK
<1> QED BY <1>4, <1>5, <1>6, <1>7, <1>8, <1>9, <1>10 DEF IInv

LEMMA MarkPossiblySentKeeps ==
  ASSUME IInv, MarkPossiblySent
  PROVE  IInv' /\ LaneStep
<1> USE Unfold DEF MarkPossiblySent, taskVars
<1> DEFINE c == prompt
<1>1. c \in Commands /\ session = "open" /\ c # Nobody
  BY Basics DEF ActivitiesOK, ProviderTypes, SomeCommand
<1>2. CASE attempt[c].state # "preparing"
  <2>1. Types'
    BY <1>2, SMTT(30) DEF Types, ProviderTypes, RowTypes, JournalTypes, BootTypes, DispTypes, ConsTypes,
                SomeCommand
  <2>2. ActivitiesOK'
    BY <1>2 DEF ActivitiesOK
  <2>3. MessagesOK' /\ SilentOK'
    BY <1>2, MessagesStay, SilenceStays
  <2>4. LaneStep /\ LaneOK' /\ (LaneHeld' => LaneHeld)
    BY <1>2, <2>1, LaneStays DEF Types
  <2>5. disp.pc \in {"opening", "starting", "waiting"} => disp.cmd \in Commands
    BY DEF ActivitiesOK
  <2>6. DispatchOK'
    BY <1>2, <2>4, <2>5, DispatchStays
  <2>7. JournalOK'
    BY <1>2, JournalStays
  <2> QED BY <2>1, <2>2, <2>3, <2>4, <2>6, <2>7 DEF IInv
<1>3. CASE attempt[c].state = "preparing"
  <2> DEFINE row == [attempt[c] EXCEPT !.state = "dispatching", !.crossed = TRUE]
  <2>1. /\ row \in AttemptType /\ row.state = "dispatching"
        /\ row.gap = attempt[c].gap /\ row.evidence = attempt[c].evidence
        /\ attempt' = [attempt EXCEPT ![c] = row]
    BY <1>1, <1>3 DEF AttemptType
  <2>2. outbox' = c /\ prompt' = Nobody
    BY <1>3
  <2> HIDE DEF row, c
  <2>3. /\ attempt' \in [Commands -> AttemptType] /\ attempt'[c] = row
        /\ \A d \in Commands : d # c => attempt'[d] = attempt[d]
    BY <1>1, <2>1 DEF RowTypes
  <2>4. \A d \in Commands : Same(attempt[d], attempt'[d])
    BY <1>3, <2>1, <2>3 DEF Same, Unresolved, Open
  <2>5. Types'
    BY <1>1, <2>2, <2>3 DEF Types, ProviderTypes, RowTypes, JournalTypes, BootTypes, DispTypes,
                            ConsTypes, SomeCommand
  <2>6. ActivitiesOK'
    BY <1>1 DEF ActivitiesOK
  <2>7. MessagesOK'
    <3> SUFFICES ASSUME NEW d \in Commands PROVE MessageOK(d)'
      BY DEF MessagesOK
    <3>1. MessageOK(d) /\ prompt' # d
      BY <2>2, Basics DEF MessagesOK
    <3>2. CASE d # c
      BY <2>2, <2>3, <3>1, <3>2 DEF MessageOK
    <3>3. CASE d = c
      BY <1>3, <2>1, <2>2, <2>3, <3>1, <3>3 DEF MessageOK, Open
    <3> QED BY <3>2, <3>3
  <2>8. SilentOK'
    BY <1>3, <2>1, <2>3, SilenceStays
  <2>9. LaneStep /\ LaneOK' /\ (LaneHeld' => LaneHeld)
    BY <2>4, <2>5, LaneStays DEF Types
  <2>10. DispatchOK'
    <3>1. disp.pc # "idle" => disp.cmd \in Commands /\ disp.cmd # Nobody
      BY Basics DEF ActivitiesOK
    <3>2. disp.pc \in {"opening", "starting"} => disp.cmd # c
      BY <1>3, <3>1 DEF DispatchOK, c
    <3>3. disp.pc \in {"opening", "starting"} => attempt'[disp.cmd] = attempt[disp.cmd]
      BY <2>3, <3>1, <3>2
    <3>4. disp.pc = "waiting" => /\ attempt'[disp.cmd].state \in Unresolved
                                 /\ ~attempt'[disp.cmd].evidence
      BY <2>1, <2>3, <3>1 DEF DispatchOK, Unresolved
    <3> QED BY <2>2, <2>9, <3>1, <3>3, <3>4 DEF DispatchOK
  <2>11. JournalOK'
    BY <1>3, <2>1, <2>3, JournalStays
  <2> QED BY <2>5, <2>6, <2>7, <2>8, <2>9, <2>10, <2>11 DEF IInv
<1> QED BY <1>2, <1>3

LEMMA WrittenKeeps ==
  ASSUME IInv, Written
  PROVE  IInv' /\ LaneStep
<1> USE Unfold DEF Written, dbVars, taskVars
<1> DEFINE c == outbox
<1>1. c \in Commands /\ session = "open" /\ c # Nobody
  BY Basics DEF ActivitiesOK, ProviderTypes, SomeCommand
<1>2. wire[c] = "none" /\ writes[c] = 0 /\ attempt[c].state \in Open /\ c \notin taken
  BY <1>1 DEF MessagesOK, MessageOK
<1> HIDE DEF c
<1>3. /\ wire' = [wire EXCEPT ![c] = "written"] /\ writes' = [writes EXCEPT ![c] = @ + 1]
      /\ outbox' = Nobody
  BY DEF c
<1>4. /\ wire'[c] = "written" /\ writes'[c] = 1
      /\ \A d \in Commands : d # c => wire'[d] = wire[d] /\ writes'[d] = writes[d]
  BY <1>1, <1>2, <1>3 DEF ProviderTypes
<1>5. Types'
  <2>1. wire' \in [Commands -> {"none", "written", "working", "ended"}]
    BY <1>3 DEF ProviderTypes
  <2>2. writes' \in [Commands -> Nat]
    <3>1. writes' = [d \in Commands |-> writes'[d]]
      BY <1>3 DEF ProviderTypes
    <3>2. \A d \in Commands : writes'[d] \in Nat
      BY <1>4 DEF ProviderTypes
    <3> QED BY <3>1, <3>2
  <2> QED BY <1>3, <2>1, <2>2, SMTT(30) DEF Types, ProviderTypes, RowTypes, JournalTypes, BootTypes,
                                  DispTypes, ConsTypes, SomeCommand
<1>6. ActivitiesOK'
  BY <1>1, <1>3 DEF ActivitiesOK
<1>7. MessagesOK'
  <2> SUFFICES ASSUME NEW d \in Commands PROVE MessageOK(d)'
    BY DEF MessagesOK
  <2>1. MessageOK(d) /\ outbox' # d
    BY <1>3, Basics DEF MessagesOK
  <2>2. CASE d # c
    BY <1>4, <2>1, <2>2 DEF MessageOK
  <2>3. CASE d = c
    BY <1>2, <1>4, <2>1, <2>3 DEF MessageOK, Open
  <2> QED BY <2>2, <2>3
<1>8. SilentOK'
  BY <1>4, SilenceStays
<1>9. LaneStep /\ LaneOK' /\ (LaneHeld' => LaneHeld)
  BY <1>5, LaneStays DEF Types
<1>10. disp.pc \in {"opening", "starting", "waiting"} => disp.cmd \in Commands
  BY DEF ActivitiesOK
<1>11. DispatchOK'
  BY <1>9, <1>10, DispatchStays
<1>12. JournalOK'
  BY JournalStays
<1> QED BY <1>5, <1>6, <1>7, <1>8, <1>9, <1>11, <1>12 DEF IInv

\* A message that has emitted nothing has no stage.
LEMMA SilentIsUnstaged ==
  ASSUME IInv, NEW c \in Commands, emitted[c] = 0
  PROVE  staged[c] = <<>>
<1>1. staged[c] \in Events
  BY Unfold DEF JournalTypes
<1>2. \A o \in Elements(staged[c]) : o[2] <= 0
  BY Unfold DEF JournalOK, Flow
<1>3. Elements(staged[c]) \subseteq Observations
  BY <1>1, ElementsAre DEF Events
<1>4. Elements(staged[c]) = {}
  BY <1>2, <1>3, Basics
<1> QED BY <1>1, <1>4, EmptyElements DEF Events

LEMMA NotSentKeeps ==
  ASSUME IInv, NotSent
  PROVE  IInv' /\ LaneStep
<1> USE Unfold DEF NotSent
<1>1. PICK c \in Commands :
        /\ c = disp.cmd /\ attempt[c].state = "preparing" /\ wire[c] = "none" /\ c \notin taken
        /\ emitted[c] = 0 /\ outbox # c
  <2> DEFINE c == disp.cmd
  <2>1. c \in Commands /\ attempt[c].state = "preparing"
    BY DEF ActivitiesOK, DispatchOK
  <2>2. wire[c] = "none" /\ c \notin taken /\ outbox # c
    BY <2>1 DEF MessagesOK, MessageOK
  <2>3. emitted[c] = 0
    BY <2>1, <2>2 DEF SilentOK
  <2> QED BY <2>1, <2>2, <2>3
<1>2. /\ DispTypes' /\ disp'.pc = "idle"
      /\ queue' \in [Commands -> {"queued", "dispatching", "delivery_unknown", "removed"}]
      /\ turn' \in [Commands -> {"none", "running", "ended", "failed"}]
      /\ \A d \in Commands : queue'[d] = "queued" => queue[d] = "queued"
      /\ UNCHANGED <<paused, log>>
  BY <1>1, GiveUpIs
<1> DEFINE row == [attempt[c] EXCEPT !.state = "rejected"]
<1>3. /\ row \in AttemptType /\ row.state = "rejected"
      /\ row.gap = attempt[c].gap /\ row.evidence = attempt[c].evidence
      /\ attempt' = [attempt EXCEPT ![c] = row]
  BY <1>1 DEF AttemptType
<1> HIDE DEF row
<1>4. /\ attempt' \in [Commands -> AttemptType] /\ attempt'[c] = row
      /\ \A d \in Commands : d # c => attempt'[d] = attempt[d]
  BY <1>3 DEF RowTypes
<1>5. Types'
  <2>1. prompt' = Nobody /\ Nobody \in SomeCommand
    BY DEF SomeCommand
  <2>2. ProviderTypes'
    BY <2>1 DEF Types, ProviderTypes
  <2>3. RowTypes'
    BY <1>2, <1>4 DEF Types, RowTypes
  <2>4. JournalTypes' /\ BootTypes' /\ ConsTypes'
    BY <1>2 DEF Types, JournalTypes, BootTypes, ConsTypes
  <2> QED BY <1>2, <2>2, <2>3, <2>4 DEF Types
<1>6. ActivitiesOK'
  BY <1>2 DEF ActivitiesOK
<1>7. MessagesOK'
  <2> SUFFICES ASSUME NEW d \in Commands PROVE MessageOK(d)'
    BY DEF MessagesOK
  <2>1. MessageOK(d) /\ prompt' # d /\ (queue'[d] = "queued" => queue[d] = "queued")
    BY <1>2, Basics DEF MessagesOK
  <2>2. CASE d # c
    BY <1>4, <2>1, <2>2 DEF MessageOK
  <2>3. CASE d = c
    BY <1>1, <1>3, <1>4, <2>1, <2>3 DEF MessageOK
  <2> QED BY <2>2, <2>3
<1>8. SilentOK'
  BY <1>1, <1>2, <1>3, <1>4, SilenceStays
<1>9. staged[c] = <<>>
  BY <1>1, SilentIsUnstaged
<1>10. LaneStep /\ OneHolds'
  <2>1. Outcome(c) = "offered" /\ Outcome(c)' = "refused"
    BY <1>1, <1>3, <1>4 DEF Outcome, Unresolved
  <2>2. \A d \in Commands \ {c} : Outcome(d)' = Outcome(d)
    BY <1>4 DEF Outcome
  <2>3. Moves(c, Outcome(c), Outcome(c)')
    BY <1>1, <2>1 DEF Moves
  <2> QED BY <1>5, <2>2, <2>3, LaneMoves DEF Types
<1>11. LaneOK'
  BY <1>4, <1>9, <1>10 DEF LaneOK, OneHolds
<1>12. DispatchOK'
  BY <1>2, DispatchRests
<1>13. JournalOK'
  BY <1>1, <1>2, <1>3, <1>4, JournalStays
<1> QED BY <1>5, <1>6, <1>7, <1>8, <1>10, <1>11, <1>12, <1>13 DEF IInv

\* The call is resolved as unknown, because of a timeout or because the session
\* has gone.
LEMMA SignalledIs ==
  ASSUME IInv, disp.pc = "waiting",
         attempt' = [attempt EXCEPT ![disp.cmd] = SignalledUnknown(@)],
         GiveUp(disp.cmd)
  PROVE  /\ attempt' \in [Commands -> AttemptType]
         /\ \A d \in Commands : /\ Same(attempt[d], attempt'[d])
                                /\ attempt'[d].evidence = attempt[d].evidence
         /\ DispTypes' /\ disp'.pc = "idle"
         /\ queue' \in [Commands -> {"queued", "dispatching", "delivery_unknown", "removed"}]
         /\ turn' \in [Commands -> {"none", "running", "ended", "failed"}]
         /\ \A d \in Commands : queue'[d] = "queued" => queue[d] = "queued"
         /\ UNCHANGED <<paused, log>>
<1> USE Unfold
<1>1. disp.cmd \in Commands /\ attempt[disp.cmd].state \in Unresolved
  BY DEF ActivitiesOK, DispatchOK
<1>2. /\ DispTypes' /\ disp'.pc = "idle"
      /\ queue' \in [Commands -> {"queued", "dispatching", "delivery_unknown", "removed"}]
      /\ turn' \in [Commands -> {"none", "running", "ended", "failed"}]
      /\ \A d \in Commands : queue'[d] = "queued" => queue[d] = "queued"
      /\ UNCHANGED <<paused, log>>
  BY <1>1, GiveUpIs
<1>3. /\ SignalledUnknown(attempt[disp.cmd]) \in AttemptType
      /\ Same(attempt[disp.cmd], SignalledUnknown(attempt[disp.cmd]))
      /\ SignalledUnknown(attempt[disp.cmd]).evidence = attempt[disp.cmd].evidence
  BY <1>1, Rows
<1> QED BY <1>1, <1>2, <1>3 DEF RowTypes

LEMMA DispatchUnknownKeeps ==
  ASSUME IInv, DispatchUnknown
  PROVE  IInv' /\ LaneStep
<1> USE Unfold DEF DispatchUnknown
<1>1. /\ attempt' \in [Commands -> AttemptType]
      /\ \A d \in Commands : /\ Same(attempt[d], attempt'[d])
                             /\ attempt'[d].evidence = attempt[d].evidence
      /\ DispTypes' /\ disp'.pc = "idle"
      /\ queue' \in [Commands -> {"queued", "dispatching", "delivery_unknown", "removed"}]
      /\ turn' \in [Commands -> {"none", "running", "ended", "failed"}]
      /\ \A d \in Commands : queue'[d] = "queued" => queue[d] = "queued"
      /\ UNCHANGED <<paused, log>>
  BY SignalledIs
<1>2. prompt' \in {prompt, Nobody} /\ outbox' \in {outbox, Nobody}
  OBVIOUS
<1>3. Types'
  BY <1>1, <1>2, SMTT(30) DEF Types, ProviderTypes, RowTypes, JournalTypes, BootTypes, ConsTypes,
                    SomeCommand
<1>4. ActivitiesOK'
  BY <1>1, <1>2 DEF ActivitiesOK
<1>5. MessagesOK'
  BY <1>1, <1>2, MessagesStay
<1>6. \A d \in Commands :
         /\ attempt'[d].state = "none" => attempt[d].state = "none"
         /\ attempt'[d].state = "accepted" <=> attempt[d].state = "accepted"
         /\ attempt[d].gap => attempt'[d].gap
  BY <1>1 DEF Same, Open, Unresolved
<1>7. SilentOK'
  BY <1>1, <1>6, SilenceStays
<1>8. LaneStep /\ LaneOK' /\ (LaneHeld' => LaneHeld)
  BY <1>1, <1>3, LaneStays DEF Types
<1>9. DispatchOK'
  BY <1>1, DispatchRests
<1>10. JournalOK'
  BY <1>1, <1>6, JournalStays
<1> QED BY <1>3, <1>4, <1>5, <1>7, <1>8, <1>9, <1>10 DEF IInv

LEMMA ProviderRejectsKeeps ==
  ASSUME IInv, ProviderRejects
  PROVE  IInv' /\ LaneStep
<1> USE Unfold DEF ProviderRejects
<1>1. PICK c \in Commands :
        /\ c = disp.cmd /\ wire[c] = "written" /\ session = "open"
        /\ attempt[c].state \in Open /\ outbox # c /\ c \notin taken
        /\ ~attempt[c].evidence
  <2> DEFINE c == disp.cmd
  <2>1. c \in Commands /\ session = "open" /\ wire[c] = "written"
    BY DEF ActivitiesOK
  <2>2. attempt[c].state \in Open /\ outbox # c /\ c \notin taken /\ ~attempt[c].evidence
    BY <2>1 DEF MessagesOK, MessageOK
  <2> QED BY <2>1, <2>2
<1>2. /\ DispTypes' /\ disp'.pc = "idle"
      /\ queue' \in [Commands -> {"queued", "dispatching", "delivery_unknown", "removed"}]
      /\ turn' \in [Commands -> {"none", "running", "ended", "failed"}]
      /\ \A d \in Commands : queue'[d] = "queued" => queue[d] = "queued"
      /\ UNCHANGED <<paused, log>>
  BY <1>1, GiveUpIs
<1>3. /\ wire' \in [Commands -> {"none", "written", "working", "ended"}]
      /\ wire'[c] = "ended" /\ \A d \in Commands : d # c => wire'[d] = wire[d]
  BY <1>1 DEF ProviderTypes
<1> DEFINE a == attempt[c]
           refused == a.state \in Open /\ ~a.evidence /\ ~a.gap /\ staged[c] = <<>>
           row == IF refused THEN [a EXCEPT !.state = "rejected"] ELSE ToUnknown(a)
<1>4. attempt' = [attempt EXCEPT ![c] = row]
  BY <1>1
<1>5. /\ row \in AttemptType
      /\ refused => row.state = "rejected" /\ ~row.evidence /\ row.gap = a.gap
      /\ ~refused => Same(a, row) /\ Marked(a, row)
  <2>1. a \in AttemptType /\ ToUnknown(a) \in AttemptType /\ Same(a, ToUnknown(a))
        /\ Marked(a, ToUnknown(a))
    BY <1>1, Rows
  <2> QED BY <2>1 DEF AttemptType
<1>6. refused => staged[c] = <<>>
  OBVIOUS
<1> HIDE DEF row, refused, a
<1>7. /\ attempt' \in [Commands -> AttemptType] /\ attempt'[c] = row
      /\ \A d \in Commands : d # c => attempt'[d] = attempt[d]
  BY <1>1, <1>4, <1>5 DEF RowTypes
<1>8. Types'
  BY <1>2, <1>3, <1>7 DEF Types, ProviderTypes, RowTypes, JournalTypes, BootTypes, ConsTypes
<1>9. ActivitiesOK'
  BY <1>1, <1>2 DEF ActivitiesOK
<1>10. row.state # "none" /\ row.state # "accepted" /\ (a.gap => row.gap)
  BY <1>1, <1>5 DEF Same, Open, Unresolved, a
<1>11. SilentOK'
  BY <1>2, <1>3, <1>7, <1>10, SilenceStays
<1>12. DispatchOK'
  BY <1>2, DispatchRests
<1>13. JournalOK'
  <2>1. attempt[c].state # "accepted"
    BY <1>1 DEF Open
  <2> QED BY <1>2, <1>7, <1>10, <2>1, JournalStays DEF a
<1>14. CASE refused
  <2>1. MessagesOK'
    <3> SUFFICES ASSUME NEW d \in Commands PROVE MessageOK(d)'
      BY DEF MessagesOK
    <3>1. MessageOK(d) /\ (queue'[d] = "queued" => queue[d] = "queued")
      BY <1>2 DEF MessagesOK
    <3>2. CASE d # c
      BY <1>3, <1>7, <3>1, <3>2 DEF MessageOK
    <3>3. CASE d = c
      BY <1>1, <1>3, <1>5, <1>7, <1>14, <3>1, <3>3 DEF MessageOK, Open
    <3> QED BY <3>2, <3>3
  <2>2. LaneStep /\ OneHolds'
    <3>1. Outcome(c) = "offered" /\ Outcome(c)' = "refused"
      BY <1>1, <1>5, <1>7, <1>14 DEF Outcome, Unresolved, Open
    <3>2. \A d \in Commands \ {c} : Outcome(d)' = Outcome(d)
      BY <1>7 DEF Outcome
    <3>3. Moves(c, Outcome(c), Outcome(c)')
      BY <1>1, <3>1 DEF Moves
    <3> QED BY <1>8, <3>2, <3>3, LaneMoves DEF Types
  <2>3. LaneOK'
    BY <1>6, <1>7, <1>14, <2>2 DEF LaneOK, OneHolds
  <2> QED BY <1>8, <1>9, <1>11, <1>12, <1>13, <2>1, <2>2, <2>3 DEF IInv
<1>15. CASE ~refused
  <2>1. \A d \in Commands : Same(attempt[d], attempt'[d])
    BY <1>5, <1>7, <1>15 DEF a
  <2>2. \A d \in Commands : attempt'[d].evidence = attempt[d].evidence
    BY <1>5, <1>7, <1>15 DEF a, Marked
  <2>3. MessagesOK'
    BY <1>1, <1>2, <1>3, <2>1, <2>2, MessagesStay
  <2>4. LaneStep /\ LaneOK' /\ (LaneHeld' => LaneHeld)
    BY <1>8, <2>1, LaneStays DEF Types
  <2> QED BY <1>8, <1>9, <1>11, <1>12, <1>13, <2>3, <2>4 DEF IInv
<1> QED BY <1>14, <1>15

\* The process of a session goes, or the connection to it.
LEMMA CutShortIs ==
  ASSUME ProviderTypes, WorkIsCutShort
  PROVE  /\ wire' \in [Commands -> {"none", "written", "working", "ended"}]
         /\ \A d \in Commands : wire'[d] = wire[d] \/ (wire[d] # "none" /\ wire'[d] = "ended")
         /\ provider = "claude-code" => \A d \in Commands : wire'[d] \in {"none", "ended"}
         /\ prompt' = Nobody /\ outbox' = Nobody /\ UNCHANGED <<writes, taken, emitted>>
BY DEF ProviderTypes, WorkIsCutShort

LEMMA CallIsLostIs ==
  ASSUME IInv, CallIsLost
  PROVE  /\ attempt' \in [Commands -> AttemptType]
         /\ \A d \in Commands : /\ Same(attempt[d], attempt'[d])
                                /\ attempt'[d].evidence = attempt[d].evidence
         /\ DispTypes' /\ disp'.pc # "waiting"
         /\ disp'.pc = "idle" \/ (disp' = disp /\ attempt' = attempt)
         /\ queue' \in [Commands -> {"queued", "dispatching", "delivery_unknown", "removed"}]
         /\ turn' \in [Commands -> {"none", "running", "ended", "failed"}]
         /\ \A d \in Commands : queue'[d] = "queued" => queue[d] = "queued"
         /\ UNCHANGED <<paused, log>>
<1> USE Unfold DEF CallIsLost
<1>1. CASE disp.pc = "waiting"
  BY <1>1, SignalledIs
<1>2. CASE disp.pc # "waiting"
  BY <1>2 DEF RowTypes, DispTypes
<1> QED BY <1>1, <1>2

LEMMA SessionGoes ==
  ASSUME IInv, boot.pc = "up", session' \in {"dead", "closing"}, WorkIsCutShort, CallIsLost,
         UNCHANGED <<provider, stream, staged, boot, cons, lost, crashes>>,
         resolver' \in SomeCommand, resolver' # Nobody => provider = "claude-code"
  PROVE  IInv' /\ LaneStep
<1> USE Unfold
<1>1. /\ wire' \in [Commands -> {"none", "written", "working", "ended"}]
      /\ \A d \in Commands : wire'[d] = wire[d] \/ (wire[d] # "none" /\ wire'[d] = "ended")
      /\ provider = "claude-code" => \A d \in Commands : wire'[d] \in {"none", "ended"}
      /\ prompt' = Nobody /\ outbox' = Nobody /\ UNCHANGED <<writes, taken, emitted>>
  BY CutShortIs
<1>2. /\ attempt' \in [Commands -> AttemptType]
      /\ \A d \in Commands : /\ Same(attempt[d], attempt'[d])
                             /\ attempt'[d].evidence = attempt[d].evidence
      /\ DispTypes' /\ disp'.pc # "waiting"
      /\ disp'.pc = "idle" \/ (disp' = disp /\ attempt' = attempt)
      /\ queue' \in [Commands -> {"queued", "dispatching", "delivery_unknown", "removed"}]
      /\ turn' \in [Commands -> {"none", "running", "ended", "failed"}]
      /\ \A d \in Commands : queue'[d] = "queued" => queue[d] = "queued"
      /\ UNCHANGED <<paused, log>>
  BY CallIsLostIs
<1>3. Types'
  BY <1>1, <1>2 DEF Types, ProviderTypes, RowTypes, JournalTypes, BootTypes, ConsTypes,
                    SomeCommand
<1>4. disp'.pc # "idle" => disp'.cmd \in Commands
  BY <1>2 DEF ActivitiesOK
<1>5. ActivitiesOK'
  BY <1>1, <1>2, <1>4 DEF ActivitiesOK
<1>6. MessagesOK'
  BY <1>1, <1>2, MessagesStay
<1>7. \A d \in Commands :
         /\ attempt'[d].state = "none" => attempt[d].state = "none"
         /\ attempt'[d].state = "accepted" <=> attempt[d].state = "accepted"
         /\ attempt[d].gap => attempt'[d].gap
  BY <1>2 DEF Same, Open, Unresolved
<1>8. SilentOK'
  BY <1>1, <1>2, <1>7, SilenceStays
<1>9. LaneStep /\ LaneOK' /\ (LaneHeld' => LaneHeld)
  BY <1>1, <1>2, <1>3, LaneStays DEF Types
<1>10. DispatchOK'
  <2>1. CASE disp'.pc = "idle"
    BY <2>1, DispatchRests
  <2>2. CASE disp' = disp /\ attempt' = attempt
    <3>1. disp.pc \in {"opening", "starting", "waiting"} => disp.cmd \in Commands
      BY DEF ActivitiesOK
    <3>2. disp.pc \in {"opening", "starting", "waiting"}
             => Marked(attempt[disp.cmd], attempt'[disp.cmd])
      BY <2>2, <3>1
    <3> QED BY <1>1, <1>2, <1>9, <2>2, <3>2, DispatchStays
  <2> QED BY <1>2, <2>1, <2>2
<1>11. JournalOK'
  BY <1>1, <1>2, <1>7, JournalStays
<1> QED BY <1>3, <1>5, <1>6, <1>8, <1>9, <1>10, <1>11 DEF IInv

LEMMA SessionDiesKeeps ==
  ASSUME IInv, SessionDies
  PROVE  IInv' /\ LaneStep
<1> USE Unfold DEF SessionDies
<1>1. boot.pc = "up"
  BY DEF ActivitiesOK
<1>2. resolver' \in SomeCommand /\ (resolver' # Nobody => provider = "claude-code")
  BY DEF BootTypes, ActivitiesOK
<1> QED BY <1>1, <1>2, SessionGoes

LEMMA DispatchAcceptedKeeps ==
  ASSUME IInv, DispatchAccepted
  PROVE  IInv' /\ LaneStep
<1> USE Unfold DEF DispatchAccepted, procVars
<1>1. PICK c \in Commands : c = disp.cmd /\ c \in taken
  BY DEF ActivitiesOK, DispatchOK
<1>2. /\ attempt' = [attempt EXCEPT ![c] = WithEvidence(@)]
      /\ disp'.pc = "preparing" /\ disp'.cmd = c /\ disp'.snap = staged[c] /\ DispTypes'
  BY <1>1 DEF DispTypes, JournalTypes
<1>3. /\ attempt' \in [Commands -> AttemptType]
      /\ \A d \in Commands :
           /\ Same(attempt[d], attempt'[d]) /\ attempt'[d].state = attempt[d].state
           /\ attempt'[d].evidence => attempt[d].evidence \/ d \in taken
  <2>1. /\ WithEvidence(attempt[c]) \in AttemptType
        /\ Same(attempt[c], WithEvidence(attempt[c]))
        /\ WithEvidence(attempt[c]).state = attempt[c].state
    BY <1>1, Rows
  <2> QED BY <1>1, <1>2, <2>1 DEF RowTypes
<1>4. Types'
  BY <1>2, <1>3 DEF Types, ProviderTypes, RowTypes, JournalTypes, BootTypes, ConsTypes
<1>5. ActivitiesOK'
  BY <1>1, <1>2 DEF ActivitiesOK
<1>6. MessagesOK' /\ SilentOK'
  BY <1>2, <1>3, MessagesStay, SilenceStays
<1>7. LaneStep /\ LaneOK' /\ (LaneHeld' => LaneHeld)
  BY <1>3, <1>4, LaneStays DEF Types
<1>8. DispatchOK'
  BY <1>1, <1>2 DEF DispatchOK
<1>9. JournalOK'
  <2>1. Flow(log, staged, cons.rest, stream, emitted)' /\ RestOK(staged, cons.rest)'
    BY DEF JournalOK, Flow, RestOK
  <2>2. Remembered(log, staged, cons.rest, stream, emitted, lost, attempt)'
    <3>1. \A d \in Sources : d # Nobody => d \in Commands
      BY Basics
    <3> QED BY <1>3, <3>1 DEF JournalOK, Remembered, Same
  <2>3. Len(staged[c]) \in 0 .. Len(staged[c]) /\ Prefix(staged[c], Len(staged[c])) = staged[c]
    <3>1. staged[c] \in Seq(Observations)
      BY <1>1 DEF JournalTypes, Events
    <3>2. Len(staged[c]) \in 0 .. Len(staged[c])
      BY <3>1, LenProperties
    <3> QED BY <3>1, <3>2, PrefixIs
  <2>4. cons.pc \in {"draining", "reconciling"} => cons.cmd \in Commands
    BY DEF ActivitiesOK
  <2>5. SnapsOK'
    BY <1>2, <1>3, <2>3, <2>4 DEF JournalOK, SnapsOK
  <2> QED BY <2>1, <2>2, <2>5 DEF JournalOK
<1> QED BY <1>4, <1>5, <1>6, <1>7, <1>8, <1>9 DEF IInv

LEMMA PrefixElements ==
  ASSUME NEW s \in Events, NEW n \in 0 .. Len(s)
  PROVE  /\ Prefix(s, n) \in Events /\ Len(Prefix(s, n)) = n
         /\ \A i \in 1 .. n : Prefix(s, n)[i] = s[i]
<1>1. \A i \in 1 .. n : s[i] \in Observations
  BY LenProperties DEF Events
<1>2. /\ SubSeq(s, 1, n) \in Seq(Observations)
      /\ Len(SubSeq(s, 1, n)) = IF 1 <= n THEN n - 1 + 1 ELSE 0
      /\ \A i \in 1 .. n - 1 + 1 : SubSeq(s, 1, n)[i] = s[1 + i - 1]
  BY <1>1, SubSeqProperties
<1> QED BY <1>2 DEF Prefix, Events

\* What is prepared of a prefix is a prefix.
LEMMA ShorterPrefix ==
  ASSUME NEW s \in Events, NEW m \in 0 .. Len(s), NEW n \in 0 .. m
  PROVE  n \in 0 .. Len(s) /\ Prefix(Prefix(s, m), n) = Prefix(s, n)
<1>1. Len(s) \in Nat /\ n \in 0 .. Len(s)
  BY LenProperties DEF Events
<1>2. /\ Prefix(s, m) \in Events /\ Len(Prefix(s, m)) = m
      /\ \A i \in 1 .. m : Prefix(s, m)[i] = s[i]
  BY PrefixElements
<1>3. /\ Prefix(s, n) \in Events /\ Len(Prefix(s, n)) = n
      /\ \A i \in 1 .. n : Prefix(s, n)[i] = s[i]
  BY <1>1, PrefixElements
<1>4. /\ Prefix(Prefix(s, m), n) \in Events /\ Len(Prefix(Prefix(s, m), n)) = n
      /\ \A i \in 1 .. n : Prefix(Prefix(s, m), n)[i] = Prefix(s, m)[i]
  BY <1>2, PrefixElements
<1>5. \A i \in 1 .. n : Prefix(Prefix(s, m), n)[i] = Prefix(s, n)[i]
  BY <1>2, <1>3, <1>4
<1> QED BY <1>1, <1>3, <1>4, <1>5, SeqEqual DEF Events

\* A prefix of the stage of c goes to the journal.
LEMMA StageGoes ==
  ASSUME IInv, NEW c \in Commands, NEW n \in 0 .. Len(staged[c]),
         NEW p, p = Prefix(staged[c], n),
         log' = Appended(p), staged' = [staged EXCEPT ![c] = Without(@, Elements(p))],
         UNCHANGED <<stream, emitted, lost>>,
         \A d \in Commands : attempt[d].gap => attempt'[d].gap
  PROVE  /\ JournalTypes'
         /\ Flow(log', staged', cons.rest, stream', emitted') /\ RestOK(staged', cons.rest)
         /\ Remembered(log', staged', cons.rest, stream', emitted', lost', attempt')
         /\ \A d \in Commands : d # c => staged'[d] = staged[d]
         /\ \A d \in Commands : staged[d] = <<>> => staged'[d] = <<>>
<1> USE Unfold
<1>1. log' = Journaled(log, p) /\ staged' = Rest(staged, c, p)
  BY DEF Journaled, Rest, Appended
<1>2. /\ log \in Events /\ staged \in [Commands -> Events]
      /\ Flow(log, staged, cons.rest, stream, emitted) /\ RestOK(staged, cons.rest)
  BY DEF JournalTypes, JournalOK
<1>3. /\ log' \in Events /\ staged' \in [Commands -> Events]
      /\ \A d \in Commands : Len(staged'[d]) <= Len(staged[d])
      /\ \A d \in Commands : staged[d] = <<>> => staged'[d] = <<>>
      /\ Flow(log', staged', cons.rest, stream, emitted) /\ RestOK(staged', cons.rest)
      /\ \A ls, rows : Remembered(log, staged, cons.rest, stream, emitted, ls, rows)
           => Remembered(log', staged', cons.rest, stream, emitted, ls, rows)
  <2> DEFINE lg2 == Journaled(log, p)
             st2 == Rest(staged, c, p)
  <2>1. /\ lg2 \in Events /\ st2 \in [Commands -> Events]
        /\ \A d \in Commands : Len(st2[d]) <= Len(staged[d])
        /\ \A d \in Commands : staged[d] = <<>> => st2[d] = <<>>
        /\ Flow(lg2, st2, cons.rest, stream, emitted) /\ RestOK(st2, cons.rest)
        /\ \A ls, rows : Remembered(log, staged, cons.rest, stream, emitted, ls, rows)
             => Remembered(lg2, st2, cons.rest, stream, emitted, ls, rows)
    BY <1>2, StageIsJournaled
  <2>2. log' = lg2 /\ staged' = st2
    BY <1>1
  <2> HIDE DEF lg2, st2
  <2> QED BY <2>1, <2>2, ZenonT(40)
<1>4. JournalTypes'
  <2> SUFFICES ASSUME NEW d \in Commands PROVE Len(staged'[d]) <= StageLimit
    BY <1>3 DEF JournalTypes
  <2>1. Len(staged[d]) \in Nat /\ Len(staged'[d]) \in Nat
    BY <1>2, <1>3, LenProperties DEF Events
  <2> QED BY <1>3, <2>1, Basics DEF JournalTypes
<1>5. Remembered(log, staged, cons.rest, stream, emitted, lost, attempt')
  <2>1. \A d \in Sources : d # Nobody => d \in Commands
    BY Basics
  <2> QED BY <2>1 DEF JournalOK, Remembered
<1>6. \A d \in Commands : d # c => staged'[d] = staged[d]
  BY <1>2
<1> QED BY <1>3, <1>4, <1>5, <1>6

\* admit().
LEMMA AdmitIs ==
  ASSUME IInv, NEW c \in Commands, NEW p, Admit(c, p),
         attempt[c].state # "accepted" => \E n \in 0 .. Len(staged[c]) : p = Prefix(staged[c], n),
         UNCHANGED <<procVars, lost>>
  PROVE  /\ RowTypes' /\ JournalTypes'
         /\ Flow(log', staged', cons.rest, stream', emitted') /\ RestOK(staged', cons.rest)
         /\ Remembered(log', staged', cons.rest, stream', emitted', lost', attempt')
         /\ \A d \in Commands : d # c => staged'[d] = staged[d] /\ attempt'[d] = attempt[d]
         /\ attempt[c].state = "accepted" => attempt' = attempt /\ staged' = staged
         /\ attempt[c].state # "accepted" => attempt[c].evidence /\ attempt[c].state \in Open
         /\ attempt'[c].state = "accepted"
         /\ \A d \in Commands : queue'[d] = "queued" => queue[d] = "queued"
         /\ MessagesOK' /\ LaneStep /\ LaneOK' /\ (LaneHeld' => LaneHeld)
<1> USE Unfold DEF procVars
<1>1. CASE attempt[c].state = "accepted"
  <2>1. UNCHANGED dbVars
    BY <1>1 DEF Admit
  <2>2. RowTypes' /\ JournalTypes'
    BY <2>1 DEF RowTypes, JournalTypes, dbVars
  <2>3. MessagesOK'
    BY <2>1, MessagesStay DEF dbVars
  <2>4. LaneStep /\ LaneOK' /\ (LaneHeld' => LaneHeld)
    BY <2>1, <2>2, LaneStays DEF dbVars
  <2> QED BY <1>1, <2>1, <2>2, <2>3, <2>4 DEF dbVars, JournalOK
<1>2. CASE attempt[c].state # "accepted"
  <2>1. /\ attempt[c].evidence /\ attempt[c].state \in Open
        /\ attempt' = [attempt EXCEPT ![c].state = "accepted"]
        /\ turn' = Reduced([turn EXCEPT ![c] = IF @ = "none" THEN "running" ELSE @], p)
        /\ queue' = [queue EXCEPT ![c] = "removed"]
        /\ log' = Appended(p)
        /\ staged' = [staged EXCEPT ![c] = Without(@, Elements(p))]
        /\ UNCHANGED paused
    BY <1>2 DEF Admit
  <2> DEFINE row == [attempt[c] EXCEPT !.state = "accepted"]
  <2>2. row \in AttemptType /\ row.state = "accepted" /\ row.gap = attempt[c].gap
        /\ attempt' = [attempt EXCEPT ![c] = row]
    BY <2>1 DEF AttemptType
  <2> HIDE DEF row
  <2>3. /\ attempt' \in [Commands -> AttemptType] /\ attempt'[c] = row
        /\ \A d \in Commands : d # c => attempt'[d] = attempt[d]
    BY <2>2 DEF RowTypes
  <2>4. RowTypes'
    BY <2>1, <2>3 DEF RowTypes, Reduced
  <2>5. PICK n \in 0 .. Len(staged[c]) : p = Prefix(staged[c], n)
    BY <1>2
  <2>6. \A d \in Commands : attempt[d].gap => attempt'[d].gap
    BY <2>2, <2>3
  <2>7. /\ JournalTypes'
        /\ Flow(log', staged', cons.rest, stream', emitted') /\ RestOK(staged', cons.rest)
        /\ Remembered(log', staged', cons.rest, stream', emitted', lost', attempt')
        /\ \A d \in Commands : d # c => staged'[d] = staged[d]
    BY <2>1, <2>5, <2>6, StageGoes
  <2>8. c \in taken
    BY <2>1 DEF MessagesOK, MessageOK
  <2>9. \A d \in Commands : queue'[d] = "queued" => queue[d] = "queued" /\ d # c
    BY <2>1 DEF RowTypes
  <2>10. MessagesOK'
    <3> SUFFICES ASSUME NEW d \in Commands PROVE MessageOK(d)'
      BY DEF MessagesOK
    <3>1. MessageOK(d)
      BY DEF MessagesOK
    <3>2. CASE d # c
      BY <2>3, <2>9, <3>1, <3>2 DEF MessageOK
    <3>3. CASE d = c
      BY <2>2, <2>3, <2>8, <2>9, <3>1, <3>3 DEF MessageOK
    <3> QED BY <3>2, <3>3
  <2>11. LaneStep /\ OneHolds' /\ (LaneHeld' => LaneHeld)
    <3>1. Outcome(c) = "offered" /\ Outcome(c)' \in {"delivered", "settled"}
      BY <2>1, <2>2, <2>3 DEF Outcome, Unresolved, Open
    <3>2. \A d \in Commands \ {c} : Outcome(d)' = Outcome(d)
      BY <2>3, <2>7 DEF Outcome
    <3>3. Moves(c, Outcome(c), Outcome(c)')
      BY <2>8, <3>1 DEF Moves
    <3> QED BY <2>4, <3>1, <3>2, <3>3, LaneMoves
  <2>12. LaneOK'
    BY <2>2, <2>3, <2>7, <2>11 DEF LaneOK, OneHolds
  <2> QED BY <1>2, <2>1, <2>2, <2>3, <2>4, <2>7, <2>9, <2>10, <2>11, <2>12
<1> QED BY <1>1, <1>2

LEMMA PreparedIs ==
  ASSUME NEW snap \in Events, NEW p \in Prepared(snap)
  PROVE  \E n \in 0 .. Len(snap) : p = Prefix(snap, n)
<1>1. Len(snap) \in 0 .. Len(snap)
  BY LenProperties DEF Events
<1> QED BY <1>1 DEF Prepared

LEMMA DispatchAdmitsKeeps ==
  ASSUME IInv, DispatchAdmits
  PROVE  IInv' /\ LaneStep
<1> USE Unfold DEF DispatchAdmits
<1>1. PICK c \in Commands : c = disp.cmd
  BY DEF ActivitiesOK
<1>2. PICK p \in Prepared(disp.snap) : Admit(c, p)
  BY <1>1
<1>3. attempt[c].state # "accepted" => \E n \in 0 .. Len(staged[c]) : p = Prefix(staged[c], n)
  <2> SUFFICES ASSUME attempt[c].state # "accepted"
               PROVE  \E n \in 0 .. Len(staged[c]) : p = Prefix(staged[c], n)
    OBVIOUS
  <2>1. /\ disp.snap \in Events /\ staged[c] \in Events
        /\ Len(disp.snap) <= Len(staged[c])
        /\ disp.snap = Prefix(staged[c], Len(disp.snap))
    BY <1>1 DEF DispTypes, JournalTypes, JournalOK, SnapsOK
  <2>2. PICK n \in 0 .. Len(disp.snap) : p = Prefix(disp.snap, n)
    BY <1>2, <2>1, PreparedIs
  <2>3. Len(disp.snap) \in 0 .. Len(staged[c])
    BY <2>1, LenProperties DEF Events
  <2>4. n \in 0 .. Len(staged[c]) /\ Prefix(Prefix(staged[c], Len(disp.snap)), n) = Prefix(staged[c], n)
    BY <2>1, <2>3, ShorterPrefix
  <2>5. p = Prefix(staged[c], n)
    BY <2>1, <2>2, <2>4
  <2> QED BY <2>4, <2>5
<1>4. /\ RowTypes' /\ JournalTypes'
      /\ Flow(log', staged', cons.rest, stream', emitted') /\ RestOK(staged', cons.rest)
      /\ Remembered(log', staged', cons.rest, stream', emitted', lost', attempt')
      /\ \A d \in Commands : d # c => staged'[d] = staged[d] /\ attempt'[d] = attempt[d]
      /\ attempt[c].state = "accepted" => attempt' = attempt /\ staged' = staged
      /\ attempt[c].state # "accepted" => attempt[c].evidence /\ attempt[c].state \in Open
      /\ attempt'[c].state = "accepted"
      /\ \A d \in Commands : queue'[d] = "queued" => queue[d] = "queued"
      /\ MessagesOK' /\ LaneStep /\ LaneOK' /\ (LaneHeld' => LaneHeld)
  BY <1>2, <1>3, AdmitIs
<1>5. disp'.pc = "idle" /\ DispTypes'
  <2>1. <<>> \in Events
    BY EmptySeq DEF Events
  <2> QED BY <2>1 DEF DispTypes, Idle, SomeCommand
<1>6. Types'
  BY <1>4, <1>5 DEF Types, ProviderTypes, BootTypes, ConsTypes, procVars
<1>7. ActivitiesOK'
  BY <1>5 DEF ActivitiesOK, procVars
<1>8. SilentOK'
  <2>1. \A d \in Commands : attempt'[d].state = "none" => attempt[d].state = "none"
    BY <1>4
  <2> QED BY <1>5, <2>1, SilenceStays DEF procVars
<1>9. DispatchOK'
  BY <1>5, DispatchRests
<1>10. SnapsOK'
  <2>1. cons.pc \in {"draining", "reconciling"} => cons.cmd \in Commands
    BY DEF ActivitiesOK
  <2> QED BY <1>4, <1>5, <2>1 DEF JournalOK, SnapsOK
<1>11. JournalOK'
  BY <1>4, <1>10 DEF JournalOK
<1> QED BY <1>4, <1>6, <1>7, <1>8, <1>9, <1>11 DEF IInv

LEMMA ConsumerAdmitsKeeps ==
  ASSUME IInv, ConsumerAdmits
  PROVE  IInv' /\ LaneStep
<1> USE Unfold DEF ConsumerAdmits
<1>1. PICK c \in Commands : c = cons.cmd
  BY DEF ActivitiesOK
<1>2. PICK p \in Prepared(cons.snap) : Admit(c, p)
  BY <1>1
<1>3. attempt[c].state # "accepted" => \E n \in 0 .. Len(staged[c]) : p = Prefix(staged[c], n)
  <2>1. cons.snap \in Events
    BY DEF ConsTypes
  <2> QED BY <1>1, <1>2, <2>1, PreparedIs DEF JournalOK, SnapsOK
<1>4. /\ RowTypes' /\ JournalTypes'
      /\ Flow(log', staged', cons.rest, stream', emitted') /\ RestOK(staged', cons.rest)
      /\ Remembered(log', staged', cons.rest, stream', emitted', lost', attempt')
      /\ \A d \in Commands : d # c => staged'[d] = staged[d] /\ attempt'[d] = attempt[d]
      /\ attempt[c].state = "accepted" => attempt' = attempt /\ staged' = staged
      /\ attempt[c].state # "accepted" => attempt[c].evidence /\ attempt[c].state \in Open
      /\ attempt'[c].state = "accepted"
      /\ \A d \in Commands : queue'[d] = "queued" => queue[d] = "queued"
      /\ MessagesOK' /\ LaneStep /\ LaneOK' /\ (LaneHeld' => LaneHeld)
  BY <1>2, <1>3, AdmitIs
<1>5. /\ cons'.pc \in {"idle", "direct"} /\ cons'.rest = cons.rest /\ ConsTypes'
      /\ cons'.pc = "idle" => cons'.rest = <<>>
  <2>1. <<>> \in Events
    BY EmptySeq DEF Events
  <2> QED BY <2>1 DEF ConsTypes, Idle, SomeCommand, GoDirect
<1>6. Types'
  BY <1>4, <1>5 DEF Types, ProviderTypes, BootTypes, DispTypes, procVars
<1>7. ActivitiesOK'
  BY <1>5 DEF ActivitiesOK, procVars
<1>8. SilentOK'
  <2>1. \A d \in Commands : attempt'[d].state = "none" => attempt[d].state = "none"
    BY <1>4
  <2> QED BY <2>1, SilenceStays DEF procVars
<1>9. DispatchOK'
  <2>1. disp.pc \in {"opening", "starting", "waiting"} => disp.cmd \in Commands
    BY DEF ActivitiesOK
  <2>2. disp.pc \in {"opening", "starting", "waiting"}
           => Marked(attempt[disp.cmd], attempt'[disp.cmd])
    <3>1. CASE attempt[c].state = "accepted"
      BY <1>4, <2>1, <3>1
    <3>2. CASE attempt[c].state # "accepted"
      <4>1. disp.pc \in {"opening", "starting", "waiting"} => disp.cmd # c
        BY <1>4, <2>1, <3>2 DEF DispatchOK, Open
      <4> QED BY <1>4, <2>1, <4>1
    <3> QED BY <3>1, <3>2
  <2> QED BY <1>4, <2>2, DispatchStays DEF procVars
<1>10. SnapsOK'
  <2>1. disp.pc = "preparing" => disp.cmd \in Commands
    BY DEF ActivitiesOK
  <2> QED BY <1>4, <1>5, <2>1 DEF JournalOK, SnapsOK
<1>11. JournalOK'
  BY <1>4, <1>5, <1>10 DEF JournalOK
<1> QED BY <1>4, <1>6, <1>7, <1>8, <1>9, <1>11 DEF IInv

LEMMA BootAdmitsKeeps ==
  ASSUME IInv, NEW c \in Commands, BootAdmits(c)
  PROVE  IInv' /\ LaneStep
<1> USE Unfold DEF BootAdmits
<1>1. disp.pc = "idle" /\ cons.pc = "idle" /\ session = "none" /\ resolver = Nobody
  BY DEF ActivitiesOK
<1>2. PICK p \in Prepared(staged[c]) : Admit(c, p)
  OBVIOUS
<1>3. \E n \in 0 .. Len(staged[c]) : p = Prefix(staged[c], n)
  BY <1>2, PreparedIs DEF JournalTypes
<1>4. /\ RowTypes' /\ JournalTypes'
      /\ Flow(log', staged', cons.rest, stream', emitted') /\ RestOK(staged', cons.rest)
      /\ Remembered(log', staged', cons.rest, stream', emitted', lost', attempt')
      /\ \A d \in Commands : d # c => staged'[d] = staged[d] /\ attempt'[d] = attempt[d]
      /\ attempt'[c].state = "accepted"
      /\ MessagesOK' /\ LaneStep /\ LaneOK'
  BY <1>2, <1>3, AdmitIs
<1>5. Types'
  BY <1>4 DEF Types, ProviderTypes, BootTypes, DispTypes, ConsTypes, procVars
<1>6. ActivitiesOK'
  BY <1>1 DEF ActivitiesOK, procVars, BootTypes
<1>7. SilentOK'
  <2>1. \A d \in Commands : attempt'[d].state = "none" => attempt[d].state = "none"
    BY <1>4
  <2> QED BY <2>1, SilenceStays DEF procVars
<1>8. DispatchOK'
  BY <1>1, DispatchRests
<1>9. JournalOK'
  BY <1>1, <1>4 DEF JournalOK, SnapsOK
<1> QED BY <1>4, <1>5, <1>6, <1>7, <1>8, <1>9 DEF IInv

\* drainAccepted().
LEMMA DrainIs ==
  ASSUME IInv, NEW c \in Commands, NEW p, Drain(c, p),
         \E n \in 0 .. Len(staged[c]) : p = Prefix(staged[c], n),
         UNCHANGED <<procVars, lost>>
  PROVE  /\ RowTypes' /\ JournalTypes'
         /\ Flow(log', staged', cons.rest, stream', emitted') /\ RestOK(staged', cons.rest)
         /\ Remembered(log', staged', cons.rest, stream', emitted', lost', attempt')
         /\ \A d \in Commands : d # c => staged'[d] = staged[d]
         /\ attempt[c].state = "accepted" /\ attempt' = attempt /\ queue' = queue
         /\ MessagesOK' /\ LaneStep /\ LaneOK' /\ (LaneHeld' => LaneHeld)
<1> USE Unfold DEF procVars
<1>1. /\ attempt[c].state = "accepted" /\ log' = Appended(p) /\ turn' = Reduced(turn, p)
      /\ staged' = [staged EXCEPT ![c] = Without(@, Elements(p))]
      /\ UNCHANGED <<queue, attempt, paused>>
  BY DEF Drain
<1>2. /\ JournalTypes'
      /\ Flow(log', staged', cons.rest, stream', emitted') /\ RestOK(staged', cons.rest)
      /\ Remembered(log', staged', cons.rest, stream', emitted', lost', attempt')
      /\ \A d \in Commands : d # c => staged'[d] = staged[d]
      /\ \A d \in Commands : staged[d] = <<>> => staged'[d] = <<>>
  BY <1>1, StageGoes
<1>3. RowTypes'
  BY <1>1 DEF RowTypes, Reduced
<1>4. MessagesOK'
  BY <1>1, MessagesStay
<1>5. LaneStep /\ OneHolds' /\ (LaneHeld' => LaneHeld)
  <2>1. \/ Outcome(c) = "settled" /\ Outcome(c)' = "settled"
        \/ Outcome(c) = "delivered" /\ Outcome(c)' \in {"delivered", "settled"}
    BY <1>1, <1>2 DEF Outcome, Unresolved
  <2>2. \A d \in Commands \ {c} : Outcome(d)' = Outcome(d)
    BY <1>1, <1>2 DEF Outcome
  <2>3. Moves(c, Outcome(c), Outcome(c)')
    BY <2>1 DEF Moves
  <2> QED BY <1>3, <2>1, <2>2, <2>3, LaneMoves
<1>6. LaneOK'
  BY <1>1, <1>2, <1>5 DEF LaneOK, OneHolds
<1> QED BY <1>1, <1>2, <1>3, <1>4, <1>5, <1>6

LEMMA ConsumerDrainsKeeps ==
  ASSUME IInv, ConsumerDrains
  PROVE  IInv' /\ LaneStep
<1> USE Unfold DEF ConsumerDrains
<1>1. PICK c \in Commands : c = cons.cmd
  BY DEF ActivitiesOK
<1>2. PICK p \in Prepared(cons.snap) : Drain(c, p)
  BY <1>1
<1>3. \E n \in 0 .. Len(staged[c]) : p = Prefix(staged[c], n)
  <2>1. cons.snap \in Events
    BY DEF ConsTypes
  <2> QED BY <1>1, <1>2, <2>1, PreparedIs DEF JournalOK, SnapsOK
<1>4. /\ RowTypes' /\ JournalTypes'
      /\ Flow(log', staged', cons.rest, stream', emitted') /\ RestOK(staged', cons.rest)
      /\ Remembered(log', staged', cons.rest, stream', emitted', lost', attempt')
      /\ \A d \in Commands : d # c => staged'[d] = staged[d]
      /\ attempt[c].state = "accepted" /\ attempt' = attempt /\ queue' = queue
      /\ MessagesOK' /\ LaneStep /\ LaneOK' /\ (LaneHeld' => LaneHeld)
  BY <1>2, <1>3, DrainIs
<1>5. /\ cons'.pc \in {"idle", "effects"} /\ cons'.rest = cons.rest /\ ConsTypes'
      /\ cons'.pc = "idle" => cons'.rest = <<>>
      /\ cons'.pc = "effects" => cons'.cmd = c
  <2>1. <<>> \in Events
    BY EmptySeq DEF Events
  <2> QED BY <1>1, <2>1 DEF ConsTypes, Idle, SomeCommand
<1>6. Types'
  BY <1>4, <1>5 DEF Types, ProviderTypes, BootTypes, DispTypes, procVars
<1>7. ActivitiesOK'
  BY <1>5 DEF ActivitiesOK, procVars
<1>8. SilentOK'
  BY <1>4, SilenceStays DEF procVars
<1>9. DispatchOK'
  <2>1. disp.pc \in {"opening", "starting", "waiting"} => disp.cmd \in Commands
    BY DEF ActivitiesOK
  <2> QED BY <1>4, <2>1, DispatchStays DEF procVars
<1>10. SnapsOK'
  <2>1. disp.pc = "preparing" => disp.cmd \in Commands
    BY DEF ActivitiesOK
  <2> QED BY <1>4, <1>5, <2>1 DEF JournalOK, SnapsOK
<1>11. JournalOK'
  BY <1>4, <1>5, <1>10 DEF JournalOK
<1> QED BY <1>4, <1>6, <1>7, <1>8, <1>9, <1>11 DEF IInv

LEMMA BootDrainsKeeps ==
  ASSUME IInv, NEW c \in Commands, BootDrains(c)
  PROVE  IInv' /\ LaneStep
<1> USE Unfold DEF BootDrains
<1>1. disp.pc = "idle" /\ cons.pc = "idle" /\ session = "none" /\ resolver = Nobody
  BY DEF ActivitiesOK
<1>2. PICK p \in Prepared(staged[c]) : Drain(c, p)
  OBVIOUS
<1>3. \E n \in 0 .. Len(staged[c]) : p = Prefix(staged[c], n)
  BY <1>2, PreparedIs DEF JournalTypes
<1>4. /\ RowTypes' /\ JournalTypes'
      /\ Flow(log', staged', cons.rest, stream', emitted') /\ RestOK(staged', cons.rest)
      /\ Remembered(log', staged', cons.rest, stream', emitted', lost', attempt')
      /\ attempt' = attempt
      /\ MessagesOK' /\ LaneStep /\ LaneOK'
  BY <1>2, <1>3, DrainIs
<1>5. Types'
  BY <1>4 DEF Types, ProviderTypes, BootTypes, DispTypes, ConsTypes, procVars
<1>6. ActivitiesOK'
  BY <1>1 DEF ActivitiesOK, procVars, BootTypes
<1>7. SilentOK'
  BY <1>4, SilenceStays DEF procVars
<1>8. DispatchOK'
  BY <1>1, DispatchRests
<1>9. JournalOK'
  BY <1>1, <1>4 DEF JournalOK, SnapsOK
<1> QED BY <1>4, <1>5, <1>6, <1>7, <1>8, <1>9 DEF IInv

-----------------------------------------------------------------------------
(* The steps of the consumer.                                              *)

\* observe(), of the events of a batch that are about c.
LEMMA ObserveIs ==
  ASSUME IInv, NEW c \in Commands, NEW ev \in Events, NEW str,
         Observe(c, Of(c, ev)), log' = log,
         Flow(log, staged, ev, str, emitted),
         Remembered(log, staged, ev, str, emitted, lost, attempt),
         \A d \in Commands : d # c /\ staged[d] # <<>> => \A o \in Elements(ev) : o[1] # d
  PROVE  /\ attempt' \in [Commands -> AttemptType] /\ JournalTypes'
         /\ \A d \in Commands : Same(attempt[d], attempt'[d]) /\ Marked(attempt[d], attempt'[d])
         /\ \A d \in Commands : d # c => staged'[d] = staged[d]
         /\ staged'[c] = <<>> => staged[c] = <<>>
         /\ Len(staged[c]) <= Len(staged'[c])
         /\ \A k \in 0 .. Len(staged[c]) : Prefix(staged'[c], k) = Prefix(staged[c], k)
         /\ Flow(log, staged', NotOf(c, ev), str, emitted) /\ RestOK(staged', NotOf(c, ev))
         /\ Remembered(log, staged', NotOf(c, ev), str, emitted, lost, attempt')
<1> USE Unfold
<1> DEFINE fresh == Fresh(staged, c, ev)
           room == StageLimit - Len(staged[c])
           fits == IF Len(fresh) <= room THEN Len(fresh) ELSE room
           st2 == Shared(staged, c, ev, fits)
<1>1. staged \in [Commands -> Events] /\ Len(staged[c]) \in Nat /\ Len(staged[c]) <= StageLimit
  BY LenProperties DEF JournalTypes, Events
<1>2. Len(fresh) \in Nat
  <2>1. Of(c, ev) \in Events
    BY Sorted
  <2>2. fresh \in Events
    BY <2>1, WithoutIs DEF Events, Fresh
  <2> QED BY <2>2, LenProperties DEF Events
<1>3. /\ fits \in 0 .. Len(fresh) /\ Len(staged[c]) + fits <= StageLimit
      /\ fits = Len(fresh) \/ fits < Len(fresh)
  BY <1>1, <1>2, Basics
<1>4. /\ staged' = st2
      /\ attempt' = IF fits < Len(fresh) THEN [attempt EXCEPT ![c] = WithGap(@)] ELSE attempt
  BY DEF Observe, Fresh, Shared
<1> HIDE DEF fits
<1>5. /\ st2 \in [Commands -> Events]
      /\ \A d \in Commands : d # c => st2[d] = staged[d]
      /\ Len(st2[c]) = Len(staged[c]) + fits
      /\ st2[c] = <<>> => staged[c] = <<>>
      /\ \A k \in 0 .. Len(staged[c]) : Prefix(st2[c], k) = Prefix(staged[c], k)
      /\ Flow(log, st2, NotOf(c, ev), str, emitted) /\ RestOK(st2, NotOf(c, ev))
      /\ \A ls, rows, rows2 :
           /\ Remembered(log, staged, ev, str, emitted, ls, rows)
           /\ \A d \in Commands : rows[d].gap => rows2[d].gap
           /\ fits = Len(fresh) \/ rows2[c].gap
           => Remembered(log, st2, NotOf(c, ev), str, emitted, ls, rows2)
  <2>1. SharedOut(log, staged, ev, str, emitted, c, fits)
    BY <1>1, <1>3, BatchIsShared
  <2> QED BY <2>1 DEF SharedOut
<1> HIDE DEF fresh, st2
<1>6. /\ WithGap(attempt[c]) \in AttemptType /\ Same(attempt[c], WithGap(attempt[c]))
      /\ Marked(attempt[c], WithGap(attempt[c])) /\ WithGap(attempt[c]).gap
  BY Rows
<1>7. /\ attempt' \in [Commands -> AttemptType]
      /\ \A d \in Commands : Same(attempt[d], attempt'[d]) /\ Marked(attempt[d], attempt'[d])
      /\ fits = Len(fresh) \/ attempt'[c].gap
  <2>1. CASE fits < Len(fresh)
    BY <1>4, <1>6, <2>1 DEF RowTypes
  <2>2. CASE ~(fits < Len(fresh))
    BY <1>3, <1>4, <2>2 DEF RowTypes
  <2> QED BY <2>1, <2>2
<1>8. Remembered(log, st2, NotOf(c, ev), str, emitted, lost, attempt')
  BY <1>5, <1>7 DEF Same
<1>9. \A d \in Commands : Len(st2[d]) <= StageLimit
  BY <1>3, <1>5 DEF JournalTypes
<1>10. JournalTypes'
  BY <1>4, <1>5, <1>9 DEF JournalTypes
<1>11. Len(staged[c]) <= Len(st2[c])
  BY <1>1, <1>2, <1>3, <1>5
<1> QED BY <1>4, <1>5, <1>7, <1>8, <1>10, <1>11

\* The batch ev is shared out: what is about c, which holds the lane, goes to
\* its stage.
LEMMA BatchKeeps ==
  ASSUME IInv, NEW c \in Commands, NEW ev \in Events, Observe(c, Of(c, ev)), Holds(c),
         Flow(log, staged, ev, stream', emitted),
         Remembered(log, staged, ev, stream', emitted, lost, attempt),
         \A d \in Commands : d # c /\ staged[d] # <<>> => \A o \in Elements(ev) : o[1] # d,
         boot.pc = "up", stream' \in {stream, <<>>},
         UNCHANGED <<provider, session, prompt, outbox, wire, writes, taken, emitted,
                     queue, turn, paused, log, boot, disp, resolver, lost, crashes>>,
         ConsTypes', cons'.rest = NotOf(c, ev),
         cons'.pc = "idle" => cons'.rest = <<>>, cons'.pc # "effects",
         cons'.pc \in {"draining", "reconciling"} => cons'.cmd = c /\ cons'.snap = staged'[c],
         cons'.pc = "draining" => attempt[c].state = "accepted"
  PROVE  IInv' /\ LaneStep
<1> USE Unfold
<1>1. /\ attempt' \in [Commands -> AttemptType] /\ JournalTypes'
      /\ \A d \in Commands : Same(attempt[d], attempt'[d]) /\ Marked(attempt[d], attempt'[d])
      /\ \A d \in Commands : d # c => staged'[d] = staged[d]
      /\ staged'[c] = <<>> => staged[c] = <<>>
      /\ Len(staged[c]) <= Len(staged'[c])
      /\ \A k \in 0 .. Len(staged[c]) : Prefix(staged'[c], k) = Prefix(staged[c], k)
      /\ Flow(log, staged', NotOf(c, ev), stream', emitted) /\ RestOK(staged', NotOf(c, ev))
      /\ Remembered(log, staged', NotOf(c, ev), stream', emitted, lost, attempt')
  BY ObserveIs
<1>2. \A d \in Commands :
         /\ attempt'[d].state = attempt[d].state
            \/ {attempt[d].state, attempt'[d].state} \subseteq Unresolved
         /\ attempt'[d].state = "none" => attempt[d].state = "none"
         /\ attempt'[d].state = "accepted" <=> attempt[d].state = "accepted"
         /\ attempt'[d].evidence = attempt[d].evidence
  BY <1>1 DEF Marked, Unresolved
<1>3. RowTypes'
  BY <1>1 DEF RowTypes
<1>4. stream' \in Events
  BY EmptySeq DEF ProviderTypes, Events
<1>5. Types'
  BY <1>1, <1>3, <1>4 DEF Types, ProviderTypes, BootTypes, DispTypes
<1>6. ActivitiesOK'
  BY DEF ActivitiesOK
<1>7. MessagesOK' /\ SilentOK'
  BY <1>1, <1>2, MessagesStay, SilenceStays
<1>8. LaneStep /\ OneHolds' /\ (LaneHeld' => LaneHeld)
  <2>1. \A d \in Commands : Outcome(d)' = Outcome(d)
    BY <1>1, <1>2, ZenonT(40) DEF Outcome, Holds, Unresolved
  <2>2. Moves(c, Outcome(c), Outcome(c)')
    BY <2>1 DEF Moves
  <2>3. Outcome(c) # "queued"
    BY Outcomes
  <2> QED BY <1>3, <2>1, <2>2, <2>3, LaneMoves
<1>9. LaneOK'
  BY <1>1, <1>2, <1>8 DEF LaneOK, OneHolds, Holds, Unresolved
<1>10. DispatchOK'
  <2>1. disp.pc \in {"opening", "starting", "waiting"} => disp.cmd \in Commands
    BY DEF ActivitiesOK
  <2> QED BY <1>1, <1>8, <2>1, DispatchStays
<1>11. SnapsOK'
  <2>1. ASSUME disp.pc = "preparing", attempt'[disp.cmd].state # "accepted"
        PROVE  /\ Len(disp.snap) <= Len(staged'[disp.cmd])
               /\ disp.snap = Prefix(staged'[disp.cmd], Len(disp.snap))
    <3>1. /\ disp.cmd \in Commands
          /\ Len(disp.snap) <= Len(staged[disp.cmd])
          /\ disp.snap = Prefix(staged[disp.cmd], Len(disp.snap))
      BY <1>2, <2>1 DEF ActivitiesOK, JournalOK, SnapsOK
    <3>2. CASE disp.cmd # c
      BY <1>1, <3>1, <3>2
    <3>3. CASE disp.cmd = c
      <4>1. Len(disp.snap) \in Nat /\ Len(staged[c]) \in Nat /\ Len(staged'[c]) \in Nat
        BY <1>1, LenProperties DEF DispTypes, JournalTypes, Events
      <4>2. Len(disp.snap) \in 0 .. Len(staged[c])
        BY <3>1, <3>3, <4>1
      <4> QED BY <1>1, <3>1, <3>3, <4>1, <4>2
    <3> QED BY <3>2, <3>3
  <2> QED BY <1>2, <2>1 DEF SnapsOK
<1>12. JournalOK'
  BY <1>1, <1>11 DEF JournalOK
<1> QED BY <1>5, <1>6, <1>7, <1>8, <1>9, <1>10, <1>12 DEF IInv

\* The part of the handler after the accepted suffix.
LEMMA DistributeKeeps ==
  ASSUME IInv, NEW ev \in Events, Distribute(ev),
         Flow(log, staged, ev, stream', emitted),
         Remembered(log, staged, ev, stream', emitted, lost, attempt),
         \A d \in Commands : staged[d] # <<>> =>
            \/ attempt[d].state \in Unresolved
            \/ \A o \in Elements(ev) : o[1] # d,
         boot.pc = "up", stream' \in {stream, <<>>},
         UNCHANGED <<provider, session, prompt, outbox, wire, writes, taken, emitted,
                     queue, turn, paused, log, boot, disp, resolver, lost, crashes>>
  PROVE  IInv' /\ LaneStep
<1> USE Unfold
<1> DEFINE S == {c \in Commands : attempt[c].state \in Unresolved}
<1>1. /\ S = {} => UnresolvedLane = Nobody
      /\ S # {} => UnresolvedLane \in S
  BY OldestIs DEF UnresolvedLane
<1>2. <<>> \in Events /\ Nobody \in SomeCommand
  BY EmptySeq DEF Events, SomeCommand
<1>3. CASE UnresolvedLane = Nobody
  <2>1. S = {}
    BY <1>1, <1>3, Basics
  <2>2. GoDirect(ev) /\ UNCHANGED <<attempt, staged>>
    BY <1>3 DEF Distribute
  <2>3. /\ ConsTypes' /\ cons'.rest = ev /\ cons'.pc \in {"idle", "direct"}
        /\ cons'.pc = "idle" => cons'.rest = <<>>
    BY <1>2, <2>2 DEF GoDirect, ConsTypes, Idle
  <2>4. stream' \in Events
    BY <1>2 DEF ProviderTypes
  <2>5. Types'
    BY <2>2, <2>3, <2>4 DEF Types, ProviderTypes, RowTypes, JournalTypes, BootTypes, DispTypes
  <2>6. ActivitiesOK'
    BY <2>3 DEF ActivitiesOK
  <2>7. MessagesOK' /\ SilentOK'
    BY <2>2, MessagesStay, SilenceStays
  <2>8. LaneStep /\ LaneOK' /\ (LaneHeld' => LaneHeld)
    BY <2>2, <2>5, LaneStays DEF Types
  <2>9. DispatchOK'
    <3>1. disp.pc \in {"opening", "starting", "waiting"} => disp.cmd \in Commands
      BY DEF ActivitiesOK
    <3> QED BY <2>2, <2>8, <3>1, DispatchStays
  <2>10. RestOK(staged, ev)
    BY <2>1 DEF RestOK
  <2>11. JournalOK'
    BY <2>2, <2>3, <2>10 DEF JournalOK, SnapsOK
  <2> QED BY <2>5, <2>6, <2>7, <2>8, <2>9, <2>11 DEF IInv
<1>4. CASE UnresolvedLane # Nobody
  <2>1. PICK u \in Commands : u = UnresolvedLane /\ attempt[u].state \in Unresolved
    BY <1>1, <1>4
  <2>2. /\ Observe(u, Of(u, ev))
        /\ IF attempt[u].evidence /\ provider = "claude-code" /\ session # "closing"
             THEN cons' = [pc |-> "reconciling", cmd |-> u, snap |-> staged'[u],
                           rest |-> NotOf(u, ev)]
             ELSE GoDirect(NotOf(u, ev))
    BY <1>4, <2>1 DEF Distribute
  <2>3. Holds(u) /\ \A d \in Commands : d # u => attempt[d].state \notin Unresolved
    BY <2>1 DEF Holds, LaneOK
  <2>4. \A d \in Commands : d # u /\ staged[d] # <<>> => \A o \in Elements(ev) : o[1] # d
    BY <2>3
  <2>5. NotOf(u, ev) \in Events
    BY Sorted
  <2>6. staged'[u] \in Events
    <3>1. JournalTypes'
      BY <2>2, <2>4, ObserveIs
    <3> QED BY <3>1 DEF JournalTypes
  <2>7. /\ ConsTypes' /\ cons'.rest = NotOf(u, ev) /\ cons'.pc \in {"idle", "direct", "reconciling"}
        /\ cons'.pc = "idle" => cons'.rest = <<>>
        /\ cons'.pc = "reconciling" => cons'.cmd = u /\ cons'.snap = staged'[u]
    <3>1. CASE attempt[u].evidence /\ provider = "claude-code" /\ session # "closing"
      <4>1. cons' = [pc |-> "reconciling", cmd |-> u, snap |-> staged'[u], rest |-> NotOf(u, ev)]
        BY <2>2, <3>1
      <4> QED BY <2>5, <2>6, <4>1 DEF ConsTypes, SomeCommand
    <3>2. CASE ~(attempt[u].evidence /\ provider = "claude-code" /\ session # "closing")
      <4>1. GoDirect(NotOf(u, ev))
        BY <2>2, <3>2
      <4> QED BY <1>2, <2>5, <4>1 DEF ConsTypes, GoDirect, Idle
    <3> QED BY <3>1, <3>2
  <2> QED BY <2>2, <2>3, <2>4, <2>7, BatchKeeps
<1> QED BY <1>3, <1>4

LEMMA ConsumeBatchKeeps ==
  ASSUME IInv, ConsumeBatch
  PROVE  IInv' /\ LaneStep
<1> USE Unfold DEF ConsumeBatch
<1>1. boot.pc = "up" /\ cons.rest = <<>> /\ stream' = <<>> /\ stream \in Events
  BY DEF ActivitiesOK, ProviderTypes
<1>2. /\ Flow(log, staged, stream, <<>>, emitted)
      /\ Remembered(log, staged, stream, <<>>, emitted, lost, attempt)
  <2>1. /\ Flow(log, staged, <<>>, stream, emitted)
        /\ Remembered(log, staged, <<>>, stream, emitted, lost, attempt)
    BY <1>1 DEF JournalOK
  <2> QED BY <1>1, <2>1, BatchIsRead
<1> DEFINE S == {c \in Commands : attempt[c].state = "accepted" /\ staged[c] # <<>>}
<1>3. /\ S = {} => AcceptedWithStage = Nobody
      /\ S # {} => AcceptedWithStage \in S
  BY OldestIs DEF AcceptedWithStage
<1>4. CASE AcceptedWithStage = Nobody
  <2>1. S = {}
    BY <1>3, <1>4, Basics
  <2>2. \A d \in Commands : staged[d] # <<>> => attempt[d].state \in Unresolved
    BY <2>1 DEF LaneOK
  <2>3. Distribute(stream)
    BY <1>4
  <2> QED BY <1>1, <1>2, <2>2, <2>3, DistributeKeeps
<1>5. CASE AcceptedWithStage # Nobody
  <2>1. PICK s \in Commands :
          s = AcceptedWithStage /\ attempt[s].state = "accepted" /\ staged[s] # <<>>
    BY <1>3, <1>5
  <2>2. /\ Observe(s, Of(s, stream))
        /\ cons' = [pc |-> "draining", cmd |-> s, snap |-> staged'[s], rest |-> NotOf(s, stream)]
    BY <1>5, <2>1
  <2>3. Holds(s)
    BY <2>1 DEF Holds
  <2>4. \A d \in Commands : d # s => staged[d] = <<>>
    BY <2>3 DEF Holds, LaneOK
  <2>5. JournalTypes' /\ NotOf(s, stream) \in Events
    BY <1>1, <1>2, <2>2, <2>4, ObserveIs, Sorted
  <2>6. /\ ConsTypes' /\ cons'.rest = NotOf(s, stream) /\ cons'.pc = "draining"
        /\ cons'.cmd = s /\ cons'.snap = staged'[s]
    BY <2>2, <2>5 DEF ConsTypes, JournalTypes, SomeCommand
  <2> QED BY <1>1, <1>2, <2>1, <2>2, <2>3, <2>4, <2>6, BatchKeeps
<1> QED BY <1>4, <1>5

LEMMA ConsumerGoesOnKeeps ==
  ASSUME IInv, ConsumerGoesOn
  PROVE  IInv' /\ LaneStep
<1> USE Unfold DEF ConsumerGoesOn, procVars
<1>1. boot.pc = "up" /\ cons.rest \in Events
  BY DEF ActivitiesOK, ConsTypes
<1>2. /\ Flow(log, staged, cons.rest, stream', emitted) /\ RestOK(staged, cons.rest)
      /\ Remembered(log, staged, cons.rest, stream', emitted, lost, attempt)
  BY DEF JournalOK
<1> QED BY <1>1, <1>2, DistributeKeeps DEF RestOK

LEMMA AppendDirectKeeps ==
  ASSUME IInv, AppendDirect
  PROVE  IInv' /\ LaneStep
<1> USE Unfold DEF AppendDirect, procVars
<1>1. PICK gone \in SUBSET Elements(cons.rest) :
        /\ log' = Appended(Without(cons.rest, gone))
        /\ turn' = Reduced(turn, Without(cons.rest, gone)) /\ lost' = lost \cup gone
  OBVIOUS
<1>2. cons.rest \in Events /\ Elements(cons.rest) \subseteq Observations
  BY ElementsAre DEF ConsTypes, Events
<1> DEFINE p == Without(cons.rest, gone)
<1>3. /\ log' \in Events
      /\ Flow(log', staged, <<>>, stream, emitted)
      /\ Remembered(log', staged, <<>>, stream, emitted, lost', attempt)
  <2>1. /\ log \in Events /\ staged \in [Commands -> Events]
        /\ Flow(log, staged, cons.rest, stream, emitted) /\ RestOK(staged, cons.rest)
        /\ Remembered(log, staged, cons.rest, stream, emitted, lost, attempt)
    BY DEF JournalTypes, JournalOK
  <2> DEFINE lg2 == Journaled(log, p)
  <2>2. /\ lg2 \in Events
        /\ Flow(lg2, staged, <<>>, stream, emitted)
        /\ Remembered(lg2, staged, <<>>, stream, emitted, lost \cup gone, attempt)
    BY <1>2, <2>1, RestIsJournaled
  <2>3. log' = lg2
    BY <1>1 DEF Journaled, Appended
  <2> HIDE DEF lg2
  <2> QED BY <1>1, <2>2, <2>3
<1>4. <<>> \in Events /\ Elements(<<>>) = {}
  BY EmptyElements, EmptySeq DEF Events
<1>5. cons'.pc = "idle" /\ cons'.rest = <<>> /\ ConsTypes'
  BY <1>4 DEF ConsTypes, Idle, SomeCommand
<1>6. Types'
  <2>1. RowTypes'
    BY <1>1 DEF RowTypes, Reduced
  <2>2. lost' \subseteq Observations
    BY <1>1, <1>2 DEF ProviderTypes
  <2> QED BY <1>3, <1>5, <2>1, <2>2 DEF Types, ProviderTypes, JournalTypes, BootTypes, DispTypes
<1>7. ActivitiesOK'
  BY <1>5 DEF ActivitiesOK
<1>8. MessagesOK' /\ SilentOK'
  BY MessagesStay, SilenceStays
<1>9. LaneStep /\ LaneOK' /\ (LaneHeld' => LaneHeld)
  BY <1>6, LaneStays DEF Types
<1>10. DispatchOK'
  <2>1. disp.pc \in {"opening", "starting", "waiting"} => disp.cmd \in Commands
    BY DEF ActivitiesOK
  <2> QED BY <1>9, <2>1, DispatchStays
<1>11. JournalOK'
  <2>1. RestOK(staged, <<>>)
    BY <1>4 DEF RestOK
  <2> QED BY <1>3, <1>5, <2>1 DEF JournalOK, SnapsOK
<1> QED BY <1>6, <1>7, <1>8, <1>9, <1>10, <1>11 DEF IInv

-----------------------------------------------------------------------------
(* Boot, recovery of a session and the user.                               *)

\* A step that moves no message and no observation.
LEMMA QuietKeeps ==
  ASSUME IInv, Types', ActivitiesOK',
         UNCHANGED <<provider, prompt, outbox, wire, writes, taken, emitted, stream, staged,
                     log, disp, cons, lost>>,
         \A d \in Commands :
            /\ queue'[d] = "queued" => queue[d] = "queued"
            /\ Same(attempt[d], attempt'[d])
            /\ attempt'[d].evidence => attempt[d].evidence \/ d \in taken,
         disp.pc \in {"opening", "starting", "waiting"}
            => Marked(attempt[disp.cmd], attempt'[disp.cmd])
  PROVE  IInv' /\ LaneStep
<1> USE Unfold
<1>1. \A d \in Commands :
         /\ attempt'[d].state = "none" => attempt[d].state = "none"
         /\ attempt'[d].state = "accepted" <=> attempt[d].state = "accepted"
         /\ attempt[d].gap => attempt'[d].gap
  BY DEF Same, Open, Unresolved
<1>2. MessagesOK' /\ SilentOK'
  BY <1>1, MessagesStay, SilenceStays
<1>3. LaneStep /\ LaneOK' /\ (LaneHeld' => LaneHeld)
  BY LaneStays DEF Types
<1>4. DispatchOK'
  BY <1>3, DispatchStays
<1>5. JournalOK'
  BY <1>1, JournalStays
<1> QED BY <1>2, <1>3, <1>4, <1>5 DEF IInv

LEMMA BootRecoversKeeps ==
  ASSUME IInv, BootRecovers
  PROVE  IInv' /\ LaneStep
<1> USE Unfold DEF BootRecovers, procVars
<1>1. disp.pc = "idle" /\ cons.pc = "idle" /\ session = "none" /\ resolver = Nobody
  BY DEF ActivitiesOK
<1>2. \A d \in Commands : /\ ToUnknown(attempt[d]) \in AttemptType
                          /\ Same(attempt[d], ToUnknown(attempt[d]))
                          /\ Marked(attempt[d], ToUnknown(attempt[d]))
  BY Rows
<1>3. Types'
  BY <1>2 DEF Types, ProviderTypes, RowTypes, JournalTypes, BootTypes, DispTypes, ConsTypes
<1>4. ActivitiesOK'
  BY <1>1 DEF ActivitiesOK
<1>5. \A d \in Commands : Same(attempt[d], attempt'[d]) /\ Marked(attempt[d], attempt'[d])
  BY <1>2
<1>6. \A d \in Commands : attempt'[d].evidence = attempt[d].evidence
  BY <1>5 DEF Marked
<1> QED BY <1>1, <1>3, <1>4, <1>5, <1>6, QuietKeeps

LEMMA BootDrainedKeeps ==
  ASSUME IInv, BootDrained
  PROVE  IInv' /\ LaneStep
<1> USE Unfold DEF BootDrained, procVars, dbVars
<1>1. disp.pc = "idle" /\ cons.pc = "idle" /\ session = "none" /\ resolver = Nobody
  BY DEF ActivitiesOK
<1>2. Types'
  BY DEF Types, ProviderTypes, RowTypes, JournalTypes, BootTypes, DispTypes, ConsTypes
<1>3. ActivitiesOK'
  BY <1>1 DEF ActivitiesOK
<1> QED BY <1>1, <1>2, <1>3, QuietKeeps

LEMMA BootCompletesKeeps ==
  ASSUME IInv, BootCompletes
  PROVE  IInv' /\ LaneStep
<1> USE Unfold DEF BootCompletes, procVars
<1>1. disp.pc = "idle" /\ cons.pc = "idle" /\ session = "none" /\ resolver = Nobody
  BY DEF ActivitiesOK
<1>2. Types'
  BY ZenonT(40) DEF Types, ProviderTypes, RowTypes, JournalTypes, BootTypes, DispTypes, ConsTypes
<1>3. ActivitiesOK'
  BY <1>1 DEF ActivitiesOK, BootTypes
<1>4. \A d \in Commands : queue'[d] = "queued" => queue[d] = "queued"
  BY DEF RowTypes
<1> QED BY <1>1, <1>2, <1>3, <1>4, QuietKeeps

LEMMA BootReadsKeeps ==
  ASSUME IInv, NEW c \in Commands, BootReads(c)
  PROVE  IInv' /\ LaneStep
<1> USE Unfold DEF BootReads, procVars
<1>1. disp.pc = "idle" /\ cons.pc = "idle" /\ session = "none" /\ resolver = Nobody
  BY DEF ActivitiesOK
<1>2. /\ WithEvidence(attempt[c]) \in AttemptType
      /\ Same(attempt[c], WithEvidence(attempt[c]))
  BY Rows
<1>3. /\ attempt' \in [Commands -> AttemptType]
      /\ \A d \in Commands : /\ Same(attempt[d], attempt'[d])
                             /\ attempt'[d].evidence => attempt[d].evidence \/ d \in taken
      /\ boot' \in [pc : {"recover", "draining", "reconciling", "up"}, todo : SUBSET Commands]
      /\ boot'.pc = "reconciling"
  <2>1. CASE provider = "codex" /\ c \in taken /\ attempt' = [attempt EXCEPT ![c] = WithEvidence(@)]
             /\ UNCHANGED boot
    BY <1>2, <2>1 DEF RowTypes, BootTypes
  <2>2. CASE boot' = [boot EXCEPT !.todo = @ \ {c}] /\ UNCHANGED attempt
    BY <2>2 DEF RowTypes, BootTypes
  <2> QED BY <2>1, <2>2
<1>4. Types'
  BY <1>3 DEF Types, ProviderTypes, RowTypes, JournalTypes, BootTypes, DispTypes, ConsTypes
<1>5. ActivitiesOK'
  BY <1>1, <1>3 DEF ActivitiesOK
<1> QED BY <1>1, <1>3, <1>4, <1>5, QuietKeeps

LEMMA StreamEndsKeeps ==
  ASSUME IInv, StreamEnds
  PROVE  IInv' /\ LaneStep
<1> USE Unfold DEF StreamEnds, dbVars, taskVars
<1>1. Types'
  BY DEF Types, ProviderTypes, RowTypes, JournalTypes, BootTypes, DispTypes, ConsTypes
<1>2. ActivitiesOK'
  BY DEF ActivitiesOK
<1>3. disp.pc \in {"opening", "starting", "waiting"} => disp.cmd \in Commands
  BY DEF ActivitiesOK
<1> QED BY <1>1, <1>2, <1>3, QuietKeeps

LEMMA RecoverConversationKeeps ==
  ASSUME IInv, NEW c \in Commands, RecoverConversation(c)
  PROVE  IInv' /\ LaneStep
<1> USE Unfold DEF RecoverConversation, taskVars
<1>1. Types'
  BY DEF Types, ProviderTypes, RowTypes, JournalTypes, BootTypes, DispTypes, ConsTypes
<1>2. ActivitiesOK'
  BY DEF ActivitiesOK
<1>3. disp.pc \in {"opening", "starting", "waiting"} => disp.cmd \in Commands
  BY DEF ActivitiesOK
<1> QED BY <1>1, <1>2, <1>3, QuietKeeps

LEMMA UnpauseKeeps ==
  ASSUME IInv, Unpause
  PROVE  IInv' /\ LaneStep
<1> USE Unfold DEF Unpause, procVars, taskVars
<1>1. Types'
  BY ZenonT(40) DEF Types, ProviderTypes, RowTypes, JournalTypes, BootTypes, DispTypes, ConsTypes
<1>2. ActivitiesOK'
  BY DEF ActivitiesOK
<1>3. disp.pc \in {"opening", "starting", "waiting"} => disp.cmd \in Commands
  BY DEF ActivitiesOK
<1> QED BY <1>1, <1>2, <1>3, QuietKeeps

LEMMA ResolveStartsKeeps ==
  ASSUME IInv, NEW c \in Commands, ResolveStarts(c)
  PROVE  IInv' /\ LaneStep
<1> USE Unfold DEF ResolveStarts
<1>1. resolver' \in SomeCommand /\ provider = "claude-code" /\ boot.pc = "up"
  BY DEF SomeCommand
<1>2. CASE session = "none"
  <2>1. UNCHANGED <<procVars, dbVars, disp>>
    BY <1>2
  <2>2. Types'
    BY <1>1, <2>1 DEF Types, ProviderTypes, RowTypes, JournalTypes, BootTypes, DispTypes,
                      ConsTypes, procVars, dbVars
  <2>3. ActivitiesOK'
    BY <1>1, <2>1 DEF ActivitiesOK, procVars, dbVars
  <2>4. disp.pc \in {"opening", "starting", "waiting"} => disp.cmd \in Commands
    BY DEF ActivitiesOK
  <2> QED BY <2>1, <2>2, <2>3, <2>4, QuietKeeps DEF procVars, dbVars
<1>3. CASE session # "none"
  BY <1>1, <1>3, SessionGoes
<1> QED BY <1>2, <1>3

LEMMA ResolveEndsKeeps ==
  ASSUME IInv, ResolveEnds
  PROVE  IInv' /\ LaneStep
<1> USE Unfold DEF ResolveEnds, procVars
<1>1. PICK c \in Commands : c = resolver
  BY DEF BootTypes, SomeCommand
<1>2. resolver' \in SomeCommand /\ resolver' = Nobody
  BY DEF SomeCommand
<1>3. ActivitiesOK'
  BY <1>2 DEF ActivitiesOK
<1>4. disp.pc \in {"opening", "starting", "waiting"} => disp.cmd \in Commands
  BY DEF ActivitiesOK
<1>5. CASE ~MayAbandon(c)
  <2>1. UNCHANGED <<attempt, queue, turn, paused>>
    BY <1>1, <1>5
  <2>2. Types'
    BY <1>2, <2>1 DEF Types, ProviderTypes, RowTypes, JournalTypes, BootTypes, DispTypes, ConsTypes
  <2> QED BY <1>3, <1>4, <2>1, <2>2, QuietKeeps
<1>6. CASE MayAbandon(c)
  <2>1. /\ attempt[c].state = "unknown" /\ ~attempt[c].evidence /\ staged[c] = <<>>
        /\ attempt' = [attempt EXCEPT ![c].state = "abandoned"]
        /\ queue' = [queue EXCEPT ![c] = "removed"]
        /\ turn' = [d \in Commands |-> IF turn[d] = "running" THEN "ended" ELSE turn[d]]
        /\ paused' = TRUE
    BY <1>1, <1>6 DEF MayAbandon
  <2> DEFINE row == [attempt[c] EXCEPT !.state = "abandoned"]
  <2>2. /\ row \in AttemptType /\ row.state = "abandoned"
        /\ row.gap = attempt[c].gap /\ row.evidence = attempt[c].evidence
        /\ attempt' = [attempt EXCEPT ![c] = row]
    BY <2>1 DEF AttemptType
  <2> HIDE DEF row
  <2>3. /\ attempt' \in [Commands -> AttemptType] /\ attempt'[c] = row
        /\ \A d \in Commands : d # c => attempt'[d] = attempt[d]
    BY <2>2 DEF RowTypes
  <2>4. RowTypes'
    BY <2>1, <2>3 DEF RowTypes
  <2>5. Types'
    BY <1>2, <2>4 DEF Types, ProviderTypes, JournalTypes, BootTypes, DispTypes, ConsTypes
  <2>6. wire[c] \in {"none", "ended"} /\ outbox = Nobody
    BY <1>1 DEF ActivitiesOK
  <2>7. \A d \in Commands : queue'[d] = "queued" => queue[d] = "queued" /\ d # c
    BY <2>1 DEF RowTypes
  <2>8. MessagesOK'
    <3> SUFFICES ASSUME NEW d \in Commands PROVE MessageOK(d)'
      BY DEF MessagesOK
    <3>1. MessageOK(d) /\ d # Nobody
      BY Basics DEF MessagesOK
    <3>2. CASE d # c
      BY <2>3, <2>7, <3>1, <3>2 DEF MessageOK
    <3>3. CASE d = c
      BY <2>1, <2>2, <2>3, <2>6, <2>7, <3>1, <3>3 DEF MessageOK
    <3> QED BY <3>2, <3>3
  <2>9. SilentOK'
    <3>1. \A d \in Commands : attempt'[d].state = "none" => attempt[d].state = "none"
      BY <2>2, <2>3
    <3> QED BY <3>1, SilenceStays
  <2>10. LaneStep /\ OneHolds' /\ (LaneHeld' => LaneHeld)
    <3>1. Outcome(c) = "offered" /\ Outcome(c)' = "abandoned"
      BY <2>1, <2>2, <2>3 DEF Outcome, Unresolved
    <3>2. \A d \in Commands \ {c} : Outcome(d)' = Outcome(d)
      BY <2>3 DEF Outcome
    <3>3. Moves(c, Outcome(c), Outcome(c)')
      BY <3>1 DEF Moves
    <3> QED BY <2>4, <3>1, <3>2, <3>3, LaneMoves
  <2>11. LaneOK'
    BY <2>1, <2>3, <2>10 DEF LaneOK, OneHolds
  <2>12. DispatchOK'
    <3>1. disp.pc # "waiting"
      BY DEF ActivitiesOK
    <3>2. disp.pc \in {"opening", "starting"} => disp.cmd # c
      BY <1>4, <2>1 DEF DispatchOK
    <3>3. disp.pc \in {"opening", "starting", "waiting"}
             => Marked(attempt[disp.cmd], attempt'[disp.cmd])
      BY <1>4, <2>3, <3>1, <3>2
    <3> QED BY <2>7, <2>10, <3>3, DispatchStays
  <2>13. JournalOK'
    BY <2>1, <2>2, <2>3, JournalStays
  <2> QED BY <1>3, <2>5, <2>8, <2>9, <2>10, <2>11, <2>12, <2>13 DEF IInv
<1> QED BY <1>5, <1>6

LEMMA CrashKeeps ==
  ASSUME IInv, Crash
  PROVE  IInv' /\ LaneStep
<1> USE Unfold DEF Crash, dbVars
<1>1. /\ wire' \in [Commands -> {"none", "written", "working", "ended"}]
      /\ \A d \in Commands : wire'[d] = wire[d] \/ (wire[d] # "none" /\ wire'[d] = "ended")
      /\ provider = "claude-code" => \A d \in Commands : wire'[d] \in {"none", "ended"}
      /\ prompt' = Nobody /\ outbox' = Nobody /\ UNCHANGED <<writes, taken, emitted>>
  BY CutShortIs
<1>2. <<>> \in Events /\ Elements(<<>>) = {}
  BY EmptyElements, EmptySeq DEF Events
<1>3. /\ disp'.pc = "idle" /\ DispTypes' /\ cons'.pc = "idle" /\ cons'.rest = <<>> /\ ConsTypes'
  BY <1>2 DEF DispTypes, ConsTypes, Idle, SomeCommand
<1>4. Types'
  <2>1. lost' \subseteq Observations
    BY ElementsAre DEF ProviderTypes, ConsTypes, Events
  <2>2. BootTypes'
    BY DeliveryAssumption DEF BootTypes, SomeCommand
  <2>3. ProviderTypes'
    BY <1>1, <1>2, <2>1 DEF ProviderTypes, SomeCommand
  <2> QED BY <1>3, <2>2, <2>3 DEF Types, RowTypes, JournalTypes
<1>5. ActivitiesOK'
  BY <1>1, <1>3 DEF ActivitiesOK
<1>6. MessagesOK' /\ SilentOK'
  BY <1>1, <1>3, MessagesStay, SilenceStays
<1>7. LaneStep /\ LaneOK' /\ (LaneHeld' => LaneHeld)
  BY <1>1, <1>4, LaneStays DEF Types
<1>8. DispatchOK'
  BY <1>3, DispatchRests
<1>9. JournalOK'
  <2>1. /\ Flow(log, staged, <<>>, <<>>, emitted)
        /\ Remembered(log, staged, <<>>, <<>>, emitted,
                      lost \cup Elements(stream) \cup Elements(cons.rest), attempt)
    BY MemoryIsLost DEF JournalOK
  <2>2. RestOK(staged, <<>>)
    BY <1>2 DEF RestOK
  <2> QED BY <1>1, <1>3, <2>1, <2>2 DEF JournalOK, SnapsOK
<1> QED BY <1>4, <1>5, <1>6, <1>7, <1>8, <1>9 DEF IInv

-----------------------------------------------------------------------------
(* The steps of the provider.                                              *)

LEMMA ProviderTakesKeeps ==
  ASSUME IInv, NEW c \in Commands, ProviderTakes(c)
  PROVE  IInv' /\ LaneStep
<1> USE Unfold DEF ProviderTakes, dbVars, taskVars
<1>1. c \notin taken /\ attempt[c].state \in Open
  BY DEF MessagesOK, MessageOK
<1>2. /\ wire' \in [Commands -> {"none", "written", "working", "ended"}]
      /\ wire'[c] = "working" /\ \A d \in Commands : d # c => wire'[d] = wire[d]
  BY DEF ProviderTypes
<1>3. Types'
  BY <1>2 DEF Types, ProviderTypes, RowTypes, JournalTypes, BootTypes, DispTypes, ConsTypes
<1>4. ActivitiesOK'
  BY <1>2 DEF ActivitiesOK
<1>5. MessagesOK'
  <2> SUFFICES ASSUME NEW d \in Commands PROVE MessageOK(d)'
    BY DEF MessagesOK
  <2>1. MessageOK(d)
    BY DEF MessagesOK
  <2>2. CASE d # c
    BY <1>2, <2>1, <2>2 DEF MessageOK
  <2>3. CASE d = c
    BY <1>1, <1>2, <2>1, <2>3 DEF MessageOK, Open
  <2> QED BY <2>2, <2>3
<1>6. SilentOK'
  BY <1>2, SilenceStays
<1>7. LaneStep /\ OneHolds' /\ (LaneHeld' => LaneHeld)
  <2>1. Outcome(c) = "offered"
    BY <1>1 DEF Outcome, Unresolved, Open
  <2>2. \A d \in Commands : Outcome(d)' = Outcome(d)
    BY DEF Outcome
  <2>3. Moves(c, Outcome(c), Outcome(c)')
    BY <1>1, <2>1, <2>2 DEF Moves
  <2> QED BY <1>3, <2>1, <2>2, <2>3, LaneMoves DEF Types
<1>8. LaneOK'
  BY DEF LaneOK, Holds
<1>9. DispatchOK'
  <2>1. disp.pc \in {"opening", "starting", "waiting"} => disp.cmd \in Commands
    BY DEF ActivitiesOK
  <2> QED BY <1>7, <2>1, DispatchStays
<1>10. JournalOK'
  BY JournalStays
<1> QED BY <1>3, <1>4, <1>5, <1>6, <1>7, <1>8, <1>9, <1>10 DEF IInv

LEMMA ProviderAnswersKeeps ==
  ASSUME IInv, NEW c \in Commands, ProviderAnswers(c)
  PROVE  IInv' /\ LaneStep
<1> USE Unfold DEF ProviderAnswers, procVars
<1>1. c \in taken /\ attempt[c].state \notin {"none", "preparing"}
  BY DEF MessagesOK, MessageOK
<1>2. \/ disp' = disp /\ ~(disp.pc = "waiting" /\ disp.cmd = c)
      \/ disp'.pc = "accepted" /\ disp'.cmd = c /\ DispTypes'
  BY DEF DispTypes
<1>3. /\ attempt' \in [Commands -> AttemptType]
      /\ \A d \in Commands :
           /\ Same(attempt[d], attempt'[d]) /\ attempt'[d].state = attempt[d].state
           /\ attempt'[d].evidence => attempt[d].evidence \/ d \in taken
           /\ d # c => attempt'[d] = attempt[d]
  <2>1. /\ WithEvidence(attempt[c]) \in AttemptType
        /\ Same(attempt[c], WithEvidence(attempt[c]))
        /\ WithEvidence(attempt[c]).state = attempt[c].state
    BY Rows
  <2>2. CASE provider = "claude-code"
    BY <1>1, <2>1, <2>2 DEF RowTypes
  <2>3. CASE provider # "claude-code"
    BY <2>3 DEF RowTypes
  <2> QED BY <2>2, <2>3
<1>4. Types'
  BY <1>2, <1>3 DEF Types, ProviderTypes, RowTypes, JournalTypes, BootTypes, DispTypes, ConsTypes
<1>5. ActivitiesOK'
  BY <1>2 DEF ActivitiesOK
<1>6. MessagesOK' /\ SilentOK'
  BY <1>2, <1>3, MessagesStay, SilenceStays
<1>7. LaneStep /\ LaneOK' /\ (LaneHeld' => LaneHeld)
  BY <1>3, <1>4, LaneStays DEF Types
<1>8. DispatchOK'
  <2>1. CASE disp' = disp /\ ~(disp.pc = "waiting" /\ disp.cmd = c)
    <3>1. disp.pc \in {"opening", "starting", "waiting"} => disp.cmd \in Commands /\ disp.cmd # c
      BY <1>1, <2>1 DEF ActivitiesOK, DispatchOK
    <3> QED BY <1>3, <1>7, <2>1, <3>1, DispatchStays
  <2>2. CASE disp'.pc = "accepted" /\ disp'.cmd = c
    BY <1>1, <2>2 DEF DispatchOK
  <2> QED BY <1>2, <2>1, <2>2
<1>9. JournalOK'
  <2>1. \A d \in Commands : attempt[d].gap => attempt'[d].gap
    BY <1>3 DEF Same
  <2> QED BY <1>2, <1>3, <2>1, JournalStays
<1> QED BY <1>4, <1>5, <1>6, <1>7, <1>8, <1>9 DEF IInv

\* An observation goes to the stream or, when nobody listens, is lost.
LEMMA EmittedIs ==
  ASSUME IInv, NEW c \in Sources, emitted[c] < LastEvent,
         emitted' = OneMore(emitted, c),
         \/ stream' = Append(stream, NextOf(emitted, c)) /\ lost' = lost
         \/ lost' = lost \cup {NextOf(emitted, c)} /\ stream' = stream,
         UNCHANGED <<log, staged, attempt, cons, disp>>
  PROVE  /\ JournalOK' /\ stream' \in Events /\ lost' \subseteq Observations
         /\ emitted' \in [Sources -> 0 .. LastEvent]
         /\ \A d \in Sources : d # c => emitted'[d] = emitted[d]
<1> USE Unfold
<1>1. /\ log \in Events /\ staged \in [Commands -> Events] /\ cons.rest \in Events
      /\ stream \in Events /\ emitted \in [Sources -> Nat] /\ lost \subseteq Observations
      /\ Flow(log, staged, cons.rest, stream, emitted)
      /\ Remembered(log, staged, cons.rest, stream, emitted, lost, attempt)
  <2>1. 0 .. LastEvent \subseteq Nat
    BY Basics
  <2> QED BY <2>1 DEF ProviderTypes, JournalTypes, ConsTypes, JournalOK
<1> DEFINE event == NextOf(emitted, c)
           em2 == OneMore(emitted, c)
           str2 == Append(stream, event)
<1>2. /\ event \in Observations /\ str2 \in Events
      /\ Flow(log, staged, cons.rest, str2, em2)
      /\ Flow(log, staged, cons.rest, stream, em2)
      /\ Remembered(log, staged, cons.rest, str2, em2, lost, attempt)
      /\ Remembered(log, staged, cons.rest, stream, em2, lost \cup {event}, attempt)
  BY <1>1, NextIsEmitted
<1>3. /\ emitted' = em2
      /\ \/ stream' = str2 /\ lost' = lost
         \/ lost' = lost \cup {event} /\ stream' = stream
  OBVIOUS
<1>4. /\ emitted' \in [Sources -> 0 .. LastEvent]
      /\ \A d \in Sources : d # c => emitted'[d] = emitted[d]
  BY Basics DEF ProviderTypes, OneMore
<1> HIDE DEF event, em2, str2
<1>5. /\ Flow(log, staged, cons.rest, stream', emitted')
      /\ Remembered(log, staged, cons.rest, stream', emitted', lost', attempt)
      /\ stream' \in Events /\ lost' \subseteq Observations
  BY <1>1, <1>2, <1>3
<1>6. JournalOK'
  BY <1>5 DEF JournalOK, SnapsOK
<1> QED BY <1>4, <1>5, <1>6

LEMMA ProviderEmitsKeeps ==
  ASSUME IInv, NEW c \in Commands, ProviderEmits(c)
  PROVE  IInv' /\ LaneStep
<1> USE Unfold DEF ProviderEmits, dbVars, taskVars
<1>1. c \in taken /\ attempt[c].state \notin {"none", "preparing"} /\ c \in Sources
  BY Basics DEF MessagesOK, MessageOK
<1>2. /\ JournalOK' /\ stream' \in Events /\ lost' \subseteq Observations
      /\ emitted' \in [Sources -> 0 .. LastEvent]
      /\ \A d \in Sources : d # c => emitted'[d] = emitted[d]
  <2>1. /\ emitted' = OneMore(emitted, c)
        /\ \/ stream' = Append(stream, NextOf(emitted, c)) /\ lost' = lost
           \/ lost' = lost \cup {NextOf(emitted, c)} /\ stream' = stream
    BY DEF OneMore, NextOf
  <2> QED BY <1>1, <2>1, EmittedIs
<1>3. /\ wire' \in [Commands -> {"none", "written", "working", "ended"}]
      /\ wire'[c] \in {"working", "ended"} /\ \A d \in Commands : d # c => wire'[d] = wire[d]
  BY DEF ProviderTypes
<1>4. session # "open" => stream' = stream
  OBVIOUS
<1>5. Types'
  BY <1>2, <1>3 DEF Types, ProviderTypes, RowTypes, JournalTypes, BootTypes, DispTypes, ConsTypes
<1>6. ActivitiesOK'
  BY <1>3, <1>4 DEF ActivitiesOK
<1>7. MessagesOK'
  BY <1>3, MessagesStay
<1>8. SilentOK'
  <2> SUFFICES ASSUME NEW d \in Commands,
                      \/ attempt[d].state = "none"
                      \/ disp.pc = "starting" /\ disp.cmd = d
                      \/ provider = "codex" /\ wire'[d] = "none"
               PROVE  emitted'[d] = 0
    BY DEF SilentOK
  <2>1. d # c
    BY <1>1, <1>3 DEF DispatchOK
  <2>2. emitted[d] = 0 /\ d \in Sources
    BY <1>3, <2>1, Basics DEF SilentOK
  <2> QED BY <1>2, <2>1, <2>2
<1>9. LaneStep /\ LaneOK' /\ (LaneHeld' => LaneHeld)
  BY <1>5, LaneStays DEF Types
<1>10. DispatchOK'
  <2>1. disp.pc \in {"opening", "starting", "waiting"} => disp.cmd \in Commands
    BY DEF ActivitiesOK
  <2> QED BY <1>9, <2>1, DispatchStays
<1> QED BY <1>2, <1>5, <1>6, <1>7, <1>8, <1>9, <1>10 DEF IInv

LEMMA ProviderReportsKeeps ==
  ASSUME IInv, ProviderReports
  PROVE  IInv' /\ LaneStep
<1> USE Unfold DEF ProviderReports, dbVars, taskVars
<1>1. Nobody \in Sources /\ emitted[Nobody] < LastEvent
  BY Basics
<1>2. /\ JournalOK' /\ stream' \in Events /\ lost' \subseteq Observations
      /\ emitted' \in [Sources -> 0 .. LastEvent]
      /\ \A d \in Sources : d # Nobody => emitted'[d] = emitted[d]
  <2>1. emitted' = OneMore(emitted, Nobody) /\ stream' = Append(stream, NextOf(emitted, Nobody))
    BY <1>1 DEF OneMore, NextOf, ProviderTypes
  <2> QED BY <1>1, <2>1, EmittedIs
<1>3. Types'
  BY <1>2 DEF Types, ProviderTypes, RowTypes, JournalTypes, BootTypes, DispTypes, ConsTypes
<1>4. ActivitiesOK'
  BY DEF ActivitiesOK
<1>5. MessagesOK'
  BY MessagesStay
<1>6. SilentOK'
  BY <1>2, Basics DEF SilentOK
<1>7. LaneStep /\ LaneOK' /\ (LaneHeld' => LaneHeld)
  BY <1>3, LaneStays DEF Types
<1>8. DispatchOK'
  <2>1. disp.pc \in {"opening", "starting", "waiting"} => disp.cmd \in Commands
    BY DEF ActivitiesOK
  <2> QED BY <1>7, <2>1, DispatchStays
<1> QED BY <1>2, <1>3, <1>4, <1>5, <1>6, <1>7, <1>8 DEF IInv

-----------------------------------------------------------------------------
(* The specification.                                                      *)

LEMMA InitIInv == Init => IInv /\ Lane!LaneInit
<1> SUFFICES ASSUME Init PROVE IInv /\ Lane!LaneInit
  OBVIOUS
<1> USE DEF Init
<1>1. <<>> \in Events /\ Elements(<<>>) = {} /\ Rising(<<>>) /\ Len(<<>>) = 0
  <2>1. Elements(<<>>) = {} /\ Rising(<<>>)
    BY EmptyElements, EmptySeq DEF Rising, Elements
  <2> QED BY <2>1, EmptySeq DEF Events
<1>2. /\ attempt \in [Commands -> AttemptType]
      /\ \A c \in Commands : attempt[c].state = "none" /\ ~attempt[c].evidence
  BY DEF NoAttempt, AttemptType
<1>3. Types
  <2>1. DispTypes /\ ConsTypes
    BY <1>1 DEF DispTypes, ConsTypes, Idle, SomeCommand
  <2>2. ProviderTypes
    BY <1>1, Basics DEF ProviderTypes, SomeCommand
  <2>3. RowTypes
    BY <1>2 DEF RowTypes
  <2>4. JournalTypes
    BY <1>1, Basics DEF JournalTypes
  <2>5. BootTypes
    BY DeliveryAssumption DEF BootTypes, SomeCommand
  <2> QED BY <2>1, <2>2, <2>3, <2>4, <2>5 DEF Types
<1>4. ActivitiesOK
  BY DEF ActivitiesOK, Idle
<1>5. MessagesOK
  BY <1>2, Basics DEF MessagesOK, MessageOK
<1>6. SilentOK
  BY Basics DEF SilentOK
<1>7. DispatchOK
  BY DEF DispatchOK, Idle
<1>8. LaneOK
  BY <1>2 DEF LaneOK, Holds, Unresolved
<1>9. JournalOK
  <2>1. \A c \in Commands : staged[c] = <<>>
    OBVIOUS
  <2>2. Flow(log, staged, cons.rest, stream, emitted)
    BY <1>1, <2>1 DEF Flow, Before, Idle
  <2>3. Remembered(log, staged, cons.rest, stream, emitted, lost, attempt)
    BY DEF Remembered
  <2>4. RestOK(staged, cons.rest) /\ SnapsOK
    BY <2>1 DEF RestOK, SnapsOK, Idle
  <2> QED BY <2>2, <2>3, <2>4 DEF JournalOK
<1>10. Lane!LaneInit
  <2>1. \A c \in Commands : Outcome(c) = "queued"
    BY <1>2, <1>3, Outcomes DEF Types
  <2> QED BY <2>1 DEF Lane!LaneInit
<1> QED BY <1>3, <1>4, <1>5, <1>6, <1>7, <1>8, <1>9, <1>10 DEF IInv

LEMMA StepKeeps ==
  ASSUME IInv, [Next]_vars
  PROVE  IInv' /\ LaneStep
<1>1. CASE UNCHANGED vars
  <2>1. UNCHANGED <<provider, session, prompt, outbox, wire, writes, taken, emitted, stream>>
    BY <1>1 DEF vars, procVars
  <2>2. UNCHANGED <<queue, attempt, staged, turn, paused, log>>
    BY <1>1 DEF vars, dbVars
  <2>3. UNCHANGED <<boot, disp, cons, resolver, lost, crashes>>
    BY <1>1 DEF vars, taskVars
  <2>4. Types'
    BY <2>1, <2>2, <2>3, Unfold DEF Types, ProviderTypes, RowTypes, JournalTypes, BootTypes,
                                    DispTypes, ConsTypes
  <2>5. ActivitiesOK'
    BY <2>1, <2>2, <2>3, Unfold DEF ActivitiesOK
  <2>6. disp.pc \in {"opening", "starting", "waiting"} => disp.cmd \in Commands
    BY Unfold DEF ActivitiesOK
  <2> QED BY <2>1, <2>2, <2>3, <2>4, <2>5, <2>6, QuietKeeps, Unfold
<1>2. CASE DispatchNext
  BY <1>2, DispatchNextKeeps
<1>3. CASE Dispatcher
  BY <1>3, SessionReadyKeeps, HandOverKeeps, MarkPossiblySentKeeps, WrittenKeeps,
     DispatchAcceptedKeeps, DispatchAdmitsKeeps DEF Dispatcher
<1>4. CASE Failures
  BY <1>4, OpeningFailsKeeps, NotSentKeeps, DispatchUnknownKeeps, ProviderRejectsKeeps,
     SessionDiesKeeps DEF Failures
<1>5. CASE Consumer
  BY <1>5, ConsumeBatchKeeps, ConsumerDrainsKeeps, ConsumerGoesOnKeeps, ConsumerAdmitsKeeps,
     AppendDirectKeeps DEF Consumer
<1>6. CASE Boot
  BY <1>6, BootRecoversKeeps, BootDrainedKeeps, BootCompletesKeeps, BootDrainsKeeps,
     BootReadsKeeps, BootAdmitsKeeps DEF Boot
<1>7. CASE Provider
  BY <1>7, ProviderReportsKeeps, ProviderTakesKeeps, ProviderAnswersKeeps,
     ProviderEmitsKeeps DEF Provider
<1>8. CASE Resolution
  BY <1>8, ResolveEndsKeeps, UnpauseKeeps, ResolveStartsKeeps DEF Resolution
<1>9. CASE Crash
  BY <1>9, CrashKeeps
<1>10. CASE StreamEnds
  BY <1>10, StreamEndsKeeps
<1>11. CASE \E c \in Commands : RecoverConversation(c)
  BY <1>11, RecoverConversationKeeps
<1> QED BY <1>1, <1>2, <1>3, <1>4, <1>5, <1>6, <1>7, <1>8, <1>9, <1>10, <1>11 DEF Next

\* The parts of the inductive invariant hold in every state of every
\* behaviour, and every step of one is a step of the lane.
THEOREM Invariance == Spec => []IInv
<1>1. IInv /\ [Next]_vars => IInv'
  BY StepKeeps
<1> QED BY <1>1, InitIInv, PTL DEF Spec

\* Every variable keeps its type; a stage never has more rows than its limit.
THEOREM TypeCorrect == Spec => []TypeOK
<1>1. IInv => TypeOK
  BY Unfold DEF ProviderTypes, RowTypes, JournalTypes, BootTypes, DispTypes, ConsTypes,
                TypeOK, AttemptType, SomeCommand, Events
<1> QED BY <1>1, Invariance, PTL

\* A message is written to a provider at most once, whatever crashes, times
\* out, is reconciled or resolved: prepare() inserts one row for it, and the
\* CAS of markPossiblySent succeeds once for a row.
THEOREM SentOnce == Spec => []SentAtMostOnce
<1>1. IInv => SentAtMostOnce
  BY Unfold DEF MessagesOK, MessageOK, SentAtMostOnce
<1> QED BY <1>1, Invariance, PTL

\* The journal has the observations of a turn in the order the provider made
\* them, by whichever of admit(), drainAccepted() and appendProviderEvents each
\* of them got there.
THEOREM JournalOrder == Spec => []JournalInOrder
<1>1. IInv => JournalInOrder
  BY Unfold DEF JournalOK, Flow, Rising, JournalInOrder
<1> QED BY <1>1, Invariance, PTL

\* What the runtime has read from the provider's stream is in the journal, in a
\* stage or in the hands of the consumer, unless the attempt says that there is
\* a gap: observe(), admit() and drainAccepted() drop nothing in silence.
THEOREM NothingIsForgotten == Spec => []NothingForgotten
<1>1. IInv => NothingForgotten
  BY Unfold DEF JournalOK, Remembered, NothingForgotten
<1> QED BY <1>1, Invariance, PTL

\* The attempt owner implements the lane: one message at a time holds it, it is
\* delivered only if the provider has taken it, and refused only if it has not.
THEOREM ImplementsLane == Spec => RefinesMessageLane
<1>1. IInv /\ [Next]_vars => [Lane!LaneNext]_(Lane!laneVars)
  BY StepKeeps DEF LaneStep
<1> QED BY <1>1, InitIInv, Invariance, PTL DEF Spec, RefinesMessageLane, Lane!LaneSpec

=============================================================================
