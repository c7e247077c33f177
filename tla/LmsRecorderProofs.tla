-------------------------- MODULE LmsRecorderProofs --------------------------
(***************************************************************************)
(* The receive path of the scanner.                                        *)
(*                                                                         *)
(* The receiver cuts every stream the same way, whatever the reads are,    *)
(* and accounts for every byte once: for any markers, lengths and streams. *)
(* The recorder keeps its promises for every queue capacity, every limit   *)
(* of a file and telegrams of any sizes: what is marked clean is durable,  *)
(* every telegram is in a file or counted.                                 *)
(***************************************************************************)
EXTENDS LmsRecording, FrameReceiver, SequenceTheorems, FiniteSetTheorems, WellFoundedInduction, TLAPS

(***************************************************************************)
(* The receiver.                                                           *)
(***************************************************************************)

(* Every nonempty set of naturals has a least element. *)
LEMMA Least ==
    ASSUME NEW T, T \subseteq Nat, T # {}
    PROVE  \E x \in T : \A y \in T : x <= y
<1> DEFINE U == {1 .. n : n \in T}
<1>1. U \subseteq FiniteSubsetsOf(Nat)
  <2>1. ASSUME NEW n \in Nat PROVE IsFiniteSet(1 .. n) /\ 1 .. n \in SUBSET Nat
    BY FS_Interval
  <2> QED BY <2>1 DEF FiniteSubsetsOf
<1>2. U # {}
  OBVIOUS
<1> HIDE DEF U
<1>3. \E x \in U : \A y \in U : ~ (<<y, x>> \in StrictSubsetOrdering(Nat))
  BY FS_StrictSubsetOrderingWellFounded, WFMin, <1>1, <1>2, Zenon
<1>4. PICK n \in T : \A m \in T : ~ (<<1 .. m, 1 .. n>> \in StrictSubsetOrdering(Nat))
  BY <1>3 DEF U
<1>5. ASSUME NEW m \in T, m < n PROVE <<1 .. m, 1 .. n>> \in StrictSubsetOrdering(Nat)
  <2>1. /\ 1 .. m \subseteq 1 .. n /\ n \in 1 .. n /\ n \notin 1 .. m
        /\ 1 .. m \in SUBSET Nat /\ 1 .. n \in SUBSET Nat
    BY <1>5
  <2> QED BY <2>1, Zenon DEF StrictSubsetOrdering
<1>6. \A m \in T : ~ (m < n)
  BY <1>4, <1>5, Zenon
<1>7. n \in Nat /\ \A m \in T : m \in Nat
  OBVIOUS
<1> HIDE DEF U
<1>8. \A m \in T : n <= m
  BY <1>6, <1>7
<1> QED BY <1>8

(* Induction, with a set for the property. *)
LEMMA Induct ==
    ASSUME NEW S, 0 \in S, \A n \in Nat : n \in S => n + 1 \in S
    PROVE  Nat \subseteq S
<1> DEFINE T == {n \in Nat : n \notin S}
<1>1. SUFFICES ASSUME T # {} PROVE FALSE
  OBVIOUS
<1>2. PICK x \in T : \A y \in T : x <= y
  BY <1>1, Least
<1>3. x # 0 /\ x - 1 \in Nat /\ x - 1 \notin T
  BY <1>2
<1> QED BY <1>2, <1>3

----------------------------------------------------------------------------
(* The search through a stream, as a definition by recursion over the
   positions still ahead. *)

LEMMA ByteSizes ==
    /\ StxSize \in Nat \ {0} /\ MaxFrame \in Nat \ {0} /\ HeaderSize = StxSize + 1
    /\ Bytes \subseteq Nat
BY ReceiverAssumption DEF HeaderSize

LEMMA FrameSizes ==
    ASSUME NEW n \in Nat
    PROVE  FrameSize(n) = StxSize + n + 2 /\ FrameSize(n) \in Nat /\ FrameSize(n) > HeaderSize
BY ReceiverAssumption DEF HeaderSize, FrameSize

(* What is found at a position depends on what is found further on. *)
LEMMA SearchAhead ==
    ASSUME NEW s \in Seq(Bytes), NEW p \in 0 .. Len(s), NEW f, NEW g,
           \A q \in p + 1 .. Len(s) : f[q] = g[q]
    PROVE  Search(s, p, f) = Search(s, p, g)
<1> DEFINE n == s[p + HeaderSize]
<1>1. p + HeaderSize <= Len(s) => n \in Nat
  <2> DEFINE h == p + HeaderSize
  <2>1. h <= Len(s) => h \in 1 .. Len(s)
    BY ByteSizes
  <2>2. h \in 1 .. Len(s) => s[h] \in Bytes
    <3> HIDE DEF h
    <3> QED OBVIOUS
  <2> QED BY <2>1, <2>2, ByteSizes
<1>2. p + StxSize <= Len(s) => f[p + 1] = g[p + 1]
  BY ByteSizes
<1>3. p + HeaderSize <= Len(s) /\ p + FrameSize(n) <= Len(s) => f[p + FrameSize(n)] = g[p + FrameSize(n)]
  <2> SUFFICES ASSUME p + HeaderSize <= Len(s), p + FrameSize(n) <= Len(s)
               PROVE  f[p + FrameSize(n)] = g[p + FrameSize(n)]
    OBVIOUS
  <2>0. n \in Nat /\ HeaderSize \in Nat
    BY <1>1, ByteSizes
  <2>1. FrameSize(n) \in Nat /\ FrameSize(n) > 0
    <3> HIDE DEF n
    <3>1. FrameSize(n) \in Nat /\ FrameSize(n) > HeaderSize
      BY <2>0, FrameSizes
    <3> QED BY <2>0, <3>1
  <2> HIDE DEF n
  <2> QED BY <2>1
<1>4. HeaderSize \in Nat /\ StxSize \in Nat /\ Len(s) \in Nat
  BY ByteSizes
<1>5. CASE p + StxSize > Len(s)
  BY <1>5 DEF Search
<1>6. CASE ~(p + StxSize > Len(s)) /\ ~MarkerAt(s, p)
  BY <1>6, <1>2, <1>4 DEF Search
<1>7. CASE ~(p + StxSize > Len(s)) /\ MarkerAt(s, p) /\ p + HeaderSize > Len(s)
  BY <1>7 DEF Search
<1>8. CASE ~(p + StxSize > Len(s)) /\ MarkerAt(s, p) /\ ~(p + HeaderSize > Len(s)) /\ ~LengthValid(n)
  BY <1>8, <1>2, <1>4 DEF Search
<1>9. CASE /\ ~(p + StxSize > Len(s)) /\ MarkerAt(s, p) /\ ~(p + HeaderSize > Len(s)) /\ LengthValid(n)
           /\ p + FrameSize(n) > Len(s)
  BY <1>9 DEF Search
<1>10. CASE /\ ~(p + StxSize > Len(s)) /\ MarkerAt(s, p) /\ ~(p + HeaderSize > Len(s)) /\ LengthValid(n)
            /\ ~(p + FrameSize(n) > Len(s))
  <2>1. f[p + FrameSize(n)] = g[p + FrameSize(n)]
    <3>1. n \in Nat /\ FrameSize(n) \in Nat
      <4>1. n \in Nat
        BY <1>10, <1>1, <1>4
      <4> HIDE DEF n
      <4> QED BY <4>1, FrameSizes
    <3> HIDE DEF n
    <3> QED BY <1>10, <1>3, <1>4, <3>1
  <2> QED BY <1>10, <2>1 DEF Search
<1> QED BY <1>5, <1>6, <1>7, <1>8, <1>9, <1>10

(* The definition by recursion has a solution, so the telegrams obey it. *)
LEMMA SearchDefined ==
    ASSUME NEW s \in Seq(Bytes)
    PROVE  \A p \in 0 .. Len(s) : TelegramsFrom(s)[p] = Search(s, p, TelegramsFrom(s))
<1> DEFINE N == Len(s)
           D == 0 .. N
           Solves(f, m) == f = [p \in D |-> f[p]] /\ \A p \in m .. N : f[p] = Search(s, p, f)
           Solved == {k \in Nat : k <= N => \E f : Solves(f, N - k)}
<1>0. N \in Nat
  OBVIOUS
<1>1. 0 \in Solved
  <2> DEFINE f == [p \in D |-> << >>]
  <2>1. Search(s, N, f) = << >>
    BY ByteSizes DEF Search
  <2>2. f = [p \in D |-> f[p]]
    OBVIOUS
  <2>3. \A p \in N .. N : f[p] = Search(s, p, f)
    <3>1. N .. N = {N} /\ f[N] = << >>
      BY <1>0
    <3> QED BY <2>1, <3>1, Zenon
  <2>4. Solves(f, N)
    BY <2>2, <2>3
  <2> QED BY <2>4, <1>0
<1>2. ASSUME NEW k \in Nat, k \in Solved PROVE k + 1 \in Solved
  <2> SUFFICES ASSUME k + 1 <= N PROVE \E g : Solves(g, N - (k + 1))
    OBVIOUS
  <2>1. PICK f : Solves(f, N - k)
    BY <1>2, <1>0
  <2> DEFINE m == N - (k + 1)
             g == [p \in D |-> IF p = m THEN Search(s, m, f) ELSE f[p]]
  <2>2. m \in Nat /\ m \in D /\ m + 1 = N - k
    BY <1>0
  <2>3. \A q \in m + 1 .. N : q \in D /\ g[q] = f[q]
    <3> HIDE DEF m
    <3> QED BY <2>2, <1>0
  <2>4. ASSUME NEW p \in m .. N PROVE p \in D /\ Search(s, p, g) = Search(s, p, f)
    <3>1. p \in D
      <4> HIDE DEF m
      <4> QED BY <2>2, <2>4, <1>0
    <3>2. \A q \in p + 1 .. N : g[q] = f[q]
      <4> HIDE DEF m, g
      <4> QED BY <2>2, <2>3, <2>4, <1>0
    <3> HIDE DEF g
    <3> QED BY <3>1, <3>2, SearchAhead
  <2>5. ASSUME NEW p \in m .. N PROVE g[p] = Search(s, p, g)
    <3>1. CASE p = m
      <4>1. g[p] = Search(s, m, f)
        <5> HIDE DEF m
        <5> QED BY <3>1, <2>2
      <4> HIDE DEF g, m
      <4> QED BY <4>1, <3>1, <2>4, <2>5
    <3>2. CASE p # m
      <4>1. p \in m + 1 .. N
        <5> HIDE DEF m
        <5> QED BY <3>2, <2>2, <2>5, <1>0
      <4>2. f[p] = Search(s, p, f)
        <5> HIDE DEF m
        <5> QED BY <4>1, <2>1, <2>2
      <4> HIDE DEF g, m
      <4> QED BY <4>1, <4>2, <2>3, <2>4, <2>5
    <3> QED BY <3>1, <3>2
  <2>6. g = [p \in D |-> g[p]]
    BY Zenon
  <2>7. Solves(g, m)
    <3> HIDE DEF g, m
    <3> QED BY <2>5, <2>6
  <2> HIDE DEF g, Solves
  <2> QED BY <2>7
<1> HIDE DEF Solved
<1>3. N \in Solved
  BY <1>0, <1>1, <1>2, Induct
<1>4. PICK f : Solves(f, 0)
  <2>1. N - N = 0
    BY <1>0
  <2>2. \E f : Solves(f, N - N)
    <3> HIDE DEF Solves
    <3> QED BY <1>3, <1>0 DEF Solved
  <2> QED BY <2>1, <2>2, Zenon
<1>5. f = [p \in D |-> Search(s, p, f)]
  BY <1>4, <1>0, Zenon
<1>6. TelegramsFrom(s) = [p \in D |-> Search(s, p, TelegramsFrom(s))]
  BY <1>5 DEF TelegramsFrom
<1> QED BY <1>6, Zenon

(* One step of the search. *)
LEMMA SearchSteps ==
    ASSUME NEW s \in Seq(Bytes), NEW p \in Nat, p <= Len(s)
    PROVE  /\ p + StxSize > Len(s) => TelegramsFrom(s)[p] = << >>
           /\ p + StxSize <= Len(s) /\ ~MarkerAt(s, p) => TelegramsFrom(s)[p] = TelegramsFrom(s)[p + 1]
           /\ p + StxSize <= Len(s) /\ MarkerAt(s, p) /\ p + HeaderSize > Len(s) =>
                 TelegramsFrom(s)[p] = << >>
           /\ p + HeaderSize <= Len(s) /\ MarkerAt(s, p) =>
                 /\ ~LengthValid(s[p + HeaderSize]) => TelegramsFrom(s)[p] = TelegramsFrom(s)[p + 1]
                 /\ LengthValid(s[p + HeaderSize]) /\ p + FrameSize(s[p + HeaderSize]) > Len(s) =>
                       TelegramsFrom(s)[p] = << >>
                 /\ LengthValid(s[p + HeaderSize]) /\ p + FrameSize(s[p + HeaderSize]) <= Len(s) =>
                       TelegramsFrom(s)[p] =
                          <<TelegramAt(s, p)>> \o TelegramsFrom(s)[p + FrameSize(s[p + HeaderSize])]
<1> DEFINE n == s[p + HeaderSize]
           f == TelegramsFrom(s)
<1>1. f[p] = Search(s, p, f)
  BY SearchDefined
<1>2. p + HeaderSize <= Len(s) => n \in Nat /\ FrameSize(n) \in Nat
  <2> SUFFICES ASSUME p + HeaderSize <= Len(s) PROVE n \in Nat
    BY FrameSizes
  <2> DEFINE h == p + HeaderSize
  <2>1. h \in 1 .. Len(s)
    BY ByteSizes
  <2>2. s[h] \in Bytes
    <3> HIDE DEF h
    <3> QED BY <2>1
  <2> QED BY <2>2, ByteSizes
<1>3. StxSize \in Nat /\ HeaderSize = StxSize + 1 /\ Len(s) \in Nat
  BY ByteSizes
<1> HIDE DEF n, f
<1>4. f[p] = IF p + StxSize > Len(s) THEN << >>
             ELSE IF ~MarkerAt(s, p) THEN f[p + 1]
             ELSE IF p + HeaderSize > Len(s) THEN << >>
             ELSE IF ~LengthValid(n) THEN f[p + 1]
             ELSE IF p + FrameSize(n) > Len(s) THEN << >>
             ELSE <<TelegramAt(s, p)>> \o f[p + FrameSize(n)]
  BY <1>1 DEF Search, n
<1>5. /\ p + StxSize > Len(s) => f[p] = << >>
      /\ p + StxSize <= Len(s) /\ ~MarkerAt(s, p) => f[p] = f[p + 1]
      /\ p + StxSize <= Len(s) /\ MarkerAt(s, p) /\ p + HeaderSize > Len(s) => f[p] = << >>
  BY <1>3, <1>4
<1>6. ASSUME p + HeaderSize <= Len(s), MarkerAt(s, p)
      PROVE  /\ ~LengthValid(n) => f[p] = f[p + 1]
             /\ LengthValid(n) /\ p + FrameSize(n) > Len(s) => f[p] = << >>
             /\ LengthValid(n) /\ p + FrameSize(n) <= Len(s) =>
                   f[p] = <<TelegramAt(s, p)>> \o f[p + FrameSize(n)]
  BY <1>2, <1>3, <1>4, <1>6
<1> QED BY <1>5, <1>6 DEF n, f

Telegram == [start : Nat, size : Nat, good : BOOLEAN]

LEMMA LengthAt ==
    ASSUME NEW s \in Seq(Bytes), NEW p \in Nat, p + HeaderSize <= Len(s)
    PROVE  s[p + HeaderSize] \in Bytes /\ s[p + HeaderSize] \in Nat
<1> DEFINE h == p + HeaderSize
<1>1. h \in 1 .. Len(s)
  BY ByteSizes
<1>2. s[h] \in Bytes
  <2> HIDE DEF h
  <2> QED BY <1>1
<1> QED BY <1>2, ByteSizes

LEMMA TelegramType ==
    ASSUME NEW s \in Seq(Bytes), NEW p \in Nat, p + HeaderSize <= Len(s)
    PROVE  TelegramAt(s, p) \in Telegram
<1>1. FrameSize(s[p + HeaderSize]) \in Nat
  BY LengthAt, FrameSizes
<1> QED BY <1>1 DEF TelegramAt, Telegram

LEMMA SearchType ==
    ASSUME NEW s \in Seq(Bytes)
    PROVE  \A p \in 0 .. Len(s) : TelegramsFrom(s)[p] \in Seq(Telegram)
<1> DEFINE N == Len(s)
           f == TelegramsFrom(s)
           Typed == {k \in Nat : \A p \in 0 .. N : N - p <= k => f[p] \in Seq(Telegram)}
<1>0. N \in Nat
  OBVIOUS
<1>1. 0 \in Typed
  <2>1. \A p \in 0 .. N : N - p <= 0 => p \in Nat /\ p <= N /\ p + StxSize > N
    BY ByteSizes
  <2>2. \A p \in 0 .. N : N - p <= 0 => f[p] = << >>
    BY <2>1, SearchSteps
  <2>3. << >> \in Seq(Telegram)
    OBVIOUS
  <2> HIDE DEF f
  <2> QED BY <2>2, <2>3
<1>2. ASSUME NEW k \in Nat, k \in Typed PROVE k + 1 \in Typed
  <2> SUFFICES ASSUME NEW p \in 0 .. N, N - p <= k + 1 PROVE f[p] \in Seq(Telegram)
    OBVIOUS
  <2> DEFINE n == s[p + HeaderSize]
  <2>1. \A q \in p + 1 .. N : f[q] \in Seq(Telegram)
    <3> HIDE DEF f
    <3> QED BY <1>0, <1>2
  <2>2. << >> \in Seq(Telegram) /\ p \in Nat /\ p <= N
    OBVIOUS
  <2>6. HeaderSize > StxSize /\ StxSize \in Nat /\ HeaderSize \in Nat
    BY ByteSizes
  <2>3. CASE p + StxSize > N \/ (MarkerAt(s, p) /\ p + HeaderSize > N)
    <3>2. p + StxSize > N \/ p + StxSize <= N
      BY <1>0, <2>2, <2>6
    <3>1. f[p] = << >>
      <4> HIDE DEF f
      <4> QED BY <2>2, <2>3, <3>2, SearchSteps DEF f
    <3> QED BY <2>2, <3>1
  <2>4. CASE p + StxSize <= N /\ ~MarkerAt(s, p)
    <3>1. f[p] = f[p + 1]
      BY <2>2, <2>4, SearchSteps
    <3>2. p + 1 \in p + 1 .. N
      BY <2>2, <2>4, ByteSizes
    <3> QED BY <2>1, <3>1, <3>2
  <2>5. CASE p + HeaderSize <= N /\ MarkerAt(s, p)
    <3>0. n \in Nat /\ FrameSize(n) \in Nat /\ FrameSize(n) > HeaderSize /\ HeaderSize \in Nat
      <4>1. n \in Nat /\ HeaderSize \in Nat
        BY <2>2, <2>5, LengthAt, ByteSizes
      <4> HIDE DEF n
      <4> QED BY <4>1, FrameSizes
    <3>1. /\ ~LengthValid(n) => f[p] = f[p + 1]
          /\ LengthValid(n) /\ p + FrameSize(n) > N => f[p] = << >>
          /\ LengthValid(n) /\ p + FrameSize(n) <= N => f[p] = <<TelegramAt(s, p)>> \o f[p + FrameSize(n)]
      BY <2>2, <2>5, SearchSteps
    <3>2. p + 1 \in p + 1 .. N
      BY <2>2, <2>5, ByteSizes
    <3>3. CASE LengthValid(n) /\ p + FrameSize(n) <= N
      <4> DEFINE q == p + FrameSize(n)
      <4>1. q \in p + 1 .. N
        <5> HIDE DEF n
        <5> QED BY <2>2, <3>0, <3>3
      <4>2. f[q] \in Seq(Telegram) /\ TelegramAt(s, p) \in Telegram
        BY <2>1, <2>2, <2>5, <4>1, TelegramType
      <4> HIDE DEF q, f
      <4>3. f[p] = <<TelegramAt(s, p)>> \o f[q]
        BY <3>1, <3>3 DEF q
      <4> QED BY <4>2, <4>3
    <3> HIDE DEF n, f
    <3>4. p + FrameSize(n) > N \/ p + FrameSize(n) <= N
      BY <3>0, <2>2
    <3> QED BY <2>1, <2>2, <3>1, <3>2, <3>3, <3>4
  <2> QED BY <2>2, <2>3, <2>4, <2>5, ByteSizes
<1> HIDE DEF Typed
<1>3. N \in Typed
  BY <1>0, <1>1, <1>2, Induct
<1> QED BY <1>3, <1>0 DEF Typed

(* Where no marker begins nothing is found. *)
LEMMA SkipTo ==
    ASSUME NEW s \in Seq(Bytes), NEW a \in Nat, NEW b \in Nat, a <= b, b + StxSize <= Len(s) + 1,
           \A q \in a .. b - 1 : ~MarkerAt(s, q)
    PROVE  TelegramsFrom(s)[a] = TelegramsFrom(s)[b]
<1> DEFINE f == TelegramsFrom(s)
           Same == {k \in Nat : a + k <= b => f[a] = f[a + k]}
<1>1. 0 \in Same
  <2>1. a + 0 = a
    OBVIOUS
  <2> HIDE DEF f
  <2> QED BY <2>1
<1>2. ASSUME NEW k \in Nat, k \in Same PROVE k + 1 \in Same
  <2> SUFFICES ASSUME a + (k + 1) <= b PROVE f[a] = f[a + (k + 1)]
    OBVIOUS
  <2> DEFINE p == a + k
  <2>1. p \in Nat /\ p \in a .. b - 1 /\ p + StxSize <= Len(s) /\ p <= Len(s) /\ p + 1 = a + (k + 1)
    BY ByteSizes
  <2> HIDE DEF p
  <2>2. f[p] = f[p + 1]
    BY <2>1, SearchSteps
  <2>3. f[a] = f[p]
    BY <1>2, <2>1 DEF p
  <2> QED BY <2>1, <2>2, <2>3
<1> HIDE DEF Same
<1>3. b - a \in Nat /\ a + (b - a) = b
  OBVIOUS
<1>4. b - a \in Same
  BY <1>1, <1>2, <1>3, Induct
<1>5. f[a] = f[a + (b - a)]
  BY <1>3, <1>4 DEF Same
<1> QED BY <1>3, <1>5

----------------------------------------------------------------------------
(* The inductive invariant of the receiver. *)

(* Where the search stands in the buffer. *)
Here == IF pc \in {"scan", "compact"} THEN scan ELSE 0

ReceiverTypes ==
    /\ pc \in {"idle", "scan", "compact", "done"}
    /\ stream \in Seq(Bytes) /\ base \in 0 .. Len(stream)
    /\ buf = SubSeq(stream, base + 1, Len(stream))
    /\ scan \in Nat /\ Here <= Len(buf)
    /\ covered \in Nat /\ covered <= Here + HeaderSize
    /\ frames \in Seq(Telegram)
    /\ pc = "done" => base = Len(stream)

(* What lies behind the search is accounted for, and of what lies ahead only
   what a rejected candidate covers. *)
Accounts ==
    /\ 0 .. base + Here - 1 \subseteq reported \cup Delivered
    /\ base + Here .. base + covered - 1 \subseteq reported
    /\ Delivered \subseteq 0 .. base + Here - 1
    /\ pc # "done" => reported \subseteq 0 .. base + Max2(Here, covered) - 1
    /\ ~twice

(* What is kept is shorter than a telegram. *)
Short ==
    /\ pc = "idle" => Len(buf) < FrameSize(MaxFrame)
    /\ pc = "compact" => Len(buf) - scan < FrameSize(MaxFrame)

(* However the stream goes on, the telegrams delivered are the first it has,
   and the others begin where the search stands, or later; between two reads
   the search cannot go on with what there is. *)
Continues(t) == Len(stream) <= Len(t) /\ \A k \in 1 .. Len(stream) : t[k] = stream[k]

FirstTelegrams ==
    /\ pc # "done" => \A t \in Seq(Bytes) : Continues(t) =>
          TelegramsFrom(t)[0] = frames \o TelegramsFrom(t)[base + Here]
    /\ pc \in {"idle", "compact"} => TelegramsFrom(stream)[base + Here] = << >>
    /\ pc = "done" => frames = TelegramsFrom(stream)[0]

ReceiverIInv == ReceiverTypes /\ Accounts /\ Short /\ FirstTelegrams

----------------------------------------------------------------------------
(* The buffer and the stream. *)

LEMMA BufferFacts ==
    ASSUME ReceiverTypes
    PROVE  /\ Len(stream) \in Nat /\ base \in Nat /\ base <= Len(stream)
           /\ Len(buf) = Len(stream) - base /\ Len(buf) \in Nat /\ WritePos = Len(buf)
           /\ \A k \in 1 .. Len(buf) : buf[k] = stream[base + k] /\ buf[k] \in Nat
           /\ Here \in Nat /\ Here <= Len(buf)
<1>1. Len(stream) \in Nat /\ base \in Nat /\ base <= Len(stream)
  BY DEF ReceiverTypes
<1>2. Len(buf) = Len(stream) - base
  BY <1>1 DEF ReceiverTypes
<1>3. \A k \in 1 .. Len(buf) : buf[k] = stream[base + k] /\ base + k \in 1 .. Len(stream)
  BY <1>1, <1>2 DEF ReceiverTypes
<1>4. \A k \in 1 .. Len(stream) : stream[k] \in Nat
  <2>1. \A k \in 1 .. Len(stream) : stream[k] \in Bytes
    BY DEF ReceiverTypes
  <2> QED BY <2>1, ByteSizes
<1>5. Here \in Nat /\ Here <= Len(buf)
  BY DEF ReceiverTypes, Here
<1> QED BY <1>1, <1>2, <1>3, <1>4, <1>5 DEF WritePos

(* A stream that goes on like this one has the same bytes where the buffer is. *)
LEMMA SameBytes ==
    ASSUME ReceiverTypes, NEW t \in Seq(Bytes), Continues(t)
    PROVE  /\ Len(t) \in Nat /\ base + Len(buf) <= Len(t)
           /\ \A k \in 1 .. Len(buf) : t[base + k] = buf[k]
<1>1. \A k \in 1 .. Len(buf) : base + k \in 1 .. Len(stream)
  BY BufferFacts
<1>2. \A k \in 1 .. Len(buf) : t[base + k] = stream[base + k]
  BY <1>1 DEF Continues
<1>3. Len(t) \in Nat /\ Len(stream) <= Len(t)
  BY DEF Continues
<1> QED BY <1>2, <1>3, BufferFacts

LEMMA SameMarkers ==
    ASSUME ReceiverTypes, NEW t \in Seq(Bytes), Continues(t),
           NEW p \in Nat, p + StxSize <= Len(buf)
    PROVE  MarkerAt(t, base + p) <=> MarkerAt(buf, p)
<1>1. \A k \in 1 .. StxSize : p + k \in 1 .. Len(buf) /\ base + (p + k) = (base + p) + k
  BY BufferFacts, ByteSizes
<1>2. \A k \in 1 .. StxSize : t[(base + p) + k] = buf[p + k]
  <2> SUFFICES ASSUME NEW k \in 1 .. StxSize PROVE t[(base + p) + k] = buf[p + k]
    OBVIOUS
  <2>1. t[base + (p + k)] = buf[p + k]
    BY <1>1, SameBytes
  <2> QED BY <1>1, <2>1
<1> QED BY <1>2 DEF MarkerAt

(* Where FindStx finds a marker, and where it finds none. *)
LEMMA FoundStx ==
    ASSUME ReceiverTypes, NEW o \in Nat
    PROVE  \/ /\ FindStx(o) = WritePos
              /\ \A q \in o .. WritePos - StxSize : ~MarkerAt(buf, q)
           \/ /\ FindStx(o) \in o .. WritePos - StxSize /\ FindStx(o) < WritePos
              /\ MarkerAt(buf, FindStx(o))
              /\ \A q \in o .. FindStx(o) - 1 : ~MarkerAt(buf, q)
<1> DEFINE found == {p \in o .. WritePos - StxSize : MarkerAt(buf, p)}
           x == CHOOSE p \in found : \A q \in found : p <= q
<1>0. WritePos \in Nat /\ StxSize \in Nat /\ StxSize > 0
  BY BufferFacts, ByteSizes
<1>1. CASE found = {}
  BY <1>1 DEF FindStx
<1>2. CASE found # {}
  <2>1. found \subseteq Nat
    BY <1>0
  <2>2. \E p \in found : \A q \in found : p <= q
    <3> HIDE DEF found
    <3> QED BY <1>2, <2>1, Least
  <2>3. x \in found /\ \A q \in found : x <= q
    <3> HIDE DEF found
    <3> QED BY <2>2
  <2>4. FindStx(o) = x
    BY <1>2 DEF FindStx
  <2> HIDE DEF x
  <2>5. x \in o .. WritePos - StxSize /\ MarkerAt(buf, x)
    BY <2>3
  <2>6. \A q \in o .. x - 1 : ~MarkerAt(buf, q)
    <3> SUFFICES ASSUME NEW q \in o .. x - 1, MarkerAt(buf, q) PROVE FALSE
      OBVIOUS
    <3>1. q \in found
      BY <1>0, <2>5
    <3> QED BY <2>3, <2>5, <3>1
  <2> QED BY <1>0, <2>4, <2>5, <2>6
<1> QED BY <1>1, <1>2

LEMMA Slice ==
    ASSUME NEW S, NEW s \in Seq(S), NEW n \in Nat, NEW a \in Nat, NEW b \in Nat,
           a >= 1, b = a + n - 1, b <= Len(s)
    PROVE  /\ SubSeq(s, a, b) \in Seq(S) /\ Len(SubSeq(s, a, b)) = n
           /\ \A i \in 1 .. n : SubSeq(s, a, b)[i] = s[a + i - 1]
OBVIOUS

(* The telegram in the buffer is the one in the stream. *)
LEMMA SameTelegram ==
    ASSUME ReceiverTypes, NEW t \in Seq(Bytes), Continues(t),
           NEW p \in Nat, p + HeaderSize <= Len(buf), p + FrameSize(DataLen(p)) <= Len(buf)
    PROVE  LET n == DataLen(p)
               first == p + HeaderSize + 1
           IN  TelegramAt(t, base + p) =
                 [start |-> base + p, size |-> FrameSize(n),
                  good |-> ComputeChecksum(SubSeq(buf, first, first + n - 1)) = buf[first + n]]
<1> DEFINE n == DataLen(p)
           h == p + HeaderSize
<1>0. HeaderSize \in Nat /\ base \in Nat /\ h \in 1 .. Len(buf) /\ base + h = (base + p) + HeaderSize
  BY ByteSizes, BufferFacts
<1>1. n = buf[h] /\ n \in Nat
  BY <1>0, BufferFacts DEF DataLen
<1>2. t[(base + p) + HeaderSize] = n
  <2>1. t[base + h] = buf[h]
    BY <1>0, SameBytes
  <2> QED BY <1>0, <1>1, <2>1
<1>3. FrameSize(n) = HeaderSize + n + 1
  BY DEF FrameSize
<1> HIDE DEF n
<1>4. p + FrameSize(n) \in 1 .. Len(buf) /\ h + 1 + n = p + FrameSize(n)
      /\ base + (p + FrameSize(n)) = (base + p) + FrameSize(n)
  BY <1>0, <1>1, <1>3, BufferFacts DEF n
<1>5. t[(base + p) + FrameSize(n)] = buf[h + 1 + n]
  <2>1. t[base + (p + FrameSize(n))] = buf[p + FrameSize(n)]
    BY <1>4, SameBytes
  <2> QED BY <1>4, <2>1
<1>6. SubSeq(t, (base + p) + HeaderSize + 1, (base + p) + HeaderSize + n) = SubSeq(buf, h + 1, h + 1 + n - 1)
  <2> DEFINE a == (base + p) + HeaderSize + 1
             b == (base + p) + HeaderSize + n
             c == h + 1
             d == h + 1 + n - 1
  <2>1. t \in Seq(Bytes) /\ buf \in Seq(Bytes)
    BY DEF ReceiverTypes
  <2>2. a \in Nat /\ b \in Nat /\ c \in Nat /\ d \in Nat /\ b - a = d - c /\ a = base + c /\ b = base + d
        /\ c >= 1 /\ a >= 1 /\ d <= Len(buf) /\ b <= Len(t) /\ d - c + 1 = n
        /\ b = a + n - 1 /\ d = c + n - 1
    <3>1. Len(t) \in Nat /\ base + Len(buf) <= Len(t) /\ Len(buf) \in Nat
      BY SameBytes, BufferFacts
    <3>2. p \in Nat /\ n \in Nat /\ base \in Nat /\ HeaderSize \in Nat
      BY <1>0, <1>1
    <3>3. h + 1 + n <= Len(buf)
      BY <1>4
    <3>4. h = p + HeaderSize /\ h \in Nat /\ h >= 1
      BY <1>0
    <3>5. c = h + 1 /\ d = h + n
      BY <3>2, <3>4
    <3>6. a = base + c /\ b = base + d
      BY <3>2, <3>4, <3>5
    <3> HIDE DEF a, b, c, d, h
    <3>7. c \in Nat /\ d \in Nat /\ d <= Len(buf) /\ c >= 1 /\ d - c + 1 = n
      BY <3>1, <3>2, <3>3, <3>4, <3>5
    <3> QED BY <3>1, <3>2, <3>6, <3>7
  <2> HIDE DEF a, b, c, d
  <2>5. ASSUME NEW i \in 1 .. n PROVE t[a + i - 1] = buf[c + i - 1]
    <3>1. c + i - 1 \in 1 .. Len(buf) /\ base + (c + i - 1) = a + i - 1
      <4>1. Len(buf) \in Nat /\ base \in Nat
        BY BufferFacts
      <4>2. a = base + c /\ c \in Nat /\ c >= 1 /\ d = c + n - 1 /\ d <= Len(buf) /\ n \in Nat
        BY <1>1, <2>2, Zenon
      <4> QED BY <2>5, <4>1, <4>2
    <3>2. t[base + (c + i - 1)] = buf[c + i - 1]
      BY <3>1, SameBytes
    <3> QED BY <3>1, <3>2
  <2>6. SubSeq(t, a, b) = SubSeq(buf, c, d)
    <3>1. /\ a \in Nat /\ b \in Nat /\ c \in Nat /\ d \in Nat /\ n \in Nat
          /\ a >= 1 /\ b = a + n - 1 /\ b <= Len(t) /\ c >= 1 /\ d = c + n - 1 /\ d <= Len(buf)
      BY <1>1, <2>2, Zenon
    <3>2. \A i \in 1 .. n : t[a + i - 1] = buf[c + i - 1]
      BY <2>5
    <3> DEFINE v == SubSeq(t, a, b)
               w == SubSeq(buf, c, d)
    <3>3. v \in Seq(Bytes) /\ Len(v) = n /\ \A i \in 1 .. n : v[i] = t[a + i - 1]
      BY <2>1, <3>1, Slice
    <3>4. w \in Seq(Bytes) /\ Len(w) = n /\ \A i \in 1 .. n : w[i] = buf[c + i - 1]
      BY <2>1, <3>1, Slice
    <3> HIDE DEF v, w
    <3>5. v = w
      BY <3>2, <3>3, <3>4, SeqEqual
    <3> QED BY <3>5 DEF v, w
  <2> QED BY <2>6 DEF a, b, c, d
<1>7. TelegramAt(t, base + p) =
        [start |-> base + p, size |-> FrameSize(n),
         good |-> ComputeChecksum(SubSeq(buf, h + 1, h + 1 + n - 1)) = buf[h + 1 + n]]
  <2> DEFINE s1 == SubSeq(t, (base + p) + HeaderSize + 1, (base + p) + HeaderSize + n)
             s2 == SubSeq(buf, h + 1, h + 1 + n - 1)
             y1 == t[(base + p) + FrameSize(n)]
             y2 == buf[h + 1 + n]
  <2>1. TelegramAt(t, base + p) =
          [start |-> base + p, size |-> FrameSize(n), good |-> ComputeChecksum(s1) = y1]
    BY <1>2 DEF TelegramAt
  <2>2. s1 = s2 /\ y1 = y2
    BY <1>5, <1>6
  <2> HIDE DEF s1, s2, y1, y2
  <2>3. TelegramAt(t, base + p) =
          [start |-> base + p, size |-> FrameSize(n), good |-> ComputeChecksum(s2) = y2]
    BY <2>1, <2>2
  <2> QED BY <2>3 DEF s2, y2
<1> QED BY <1>7 DEF n

(* Where no marker begins in the buffer, the stream has no telegram. *)
LEMMA Skipped ==
    ASSUME ReceiverTypes, NEW t \in Seq(Bytes), Continues(t),
           NEW a \in Nat, NEW b \in Nat, a <= b, b = a \/ b + StxSize <= Len(buf) + 1,
           \A q \in a .. b - 1 : ~MarkerAt(buf, q)
    PROVE  TelegramsFrom(t)[base + a] = TelegramsFrom(t)[base + b]
<1>1. CASE b = a
  BY <1>1
<1>2. CASE b # a /\ b + StxSize <= Len(buf) + 1
  <2> DEFINE x == base + a
             y == base + b
  <2>1. x \in Nat /\ y \in Nat /\ x <= y /\ y + StxSize <= Len(t) + 1
    <3>1. /\ base \in Nat /\ Len(buf) \in Nat /\ Len(t) \in Nat /\ StxSize \in Nat
          /\ base + Len(buf) <= Len(t) /\ StxSize >= 1
      BY BufferFacts, SameBytes, ByteSizes
    <3> QED BY <1>2, <3>1
  <2>2. ASSUME NEW q \in x .. y - 1 PROVE ~MarkerAt(t, q)
    <3> DEFINE o == q - base
    <3>1. base \in Nat /\ Len(buf) \in Nat /\ StxSize \in Nat
      BY BufferFacts, ByteSizes
    <3>2. o \in Nat /\ o \in a .. b - 1 /\ o + StxSize <= Len(buf) /\ base + o = q
      BY <1>2, <2>2, <3>1
    <3> HIDE DEF o
    <3>3. MarkerAt(t, base + o) <=> MarkerAt(buf, o)
      BY <3>2, SameMarkers
    <3> QED BY <3>2, <3>3
  <2> HIDE DEF x, y
  <2>3. TelegramsFrom(t)[x] = TelegramsFrom(t)[y]
    BY <2>1, <2>2, SkipTo
  <2> QED BY <2>3 DEF x, y
<1> QED BY <1>1, <1>2

LEMMA CandidateFacts ==
    ASSUME ReceiverTypes, NEW p, Candidate(p)
    PROVE  /\ p \in Nat /\ scan <= p /\ p + StxSize <= Len(buf) /\ MarkerAt(buf, p)
           /\ \A q \in scan .. p - 1 : ~MarkerAt(buf, q)
           /\ pc = "scan" /\ Here = scan /\ scan \in Nat
<1>1. pc = "scan" /\ Here = scan /\ scan \in Nat /\ p = FindStx(scan) /\ p # WritePos
  <2>1. WritePos \in Nat
    BY BufferFacts
  <2> QED BY <2>1 DEF Candidate, Here, ReceiverTypes
<1>2. /\ p \in scan .. WritePos - StxSize /\ MarkerAt(buf, p)
      /\ \A q \in scan .. p - 1 : ~MarkerAt(buf, q)
  BY <1>1, FoundStx
<1> QED BY <1>1, <1>2, BufferFacts, ByteSizes

LEMMA StreamContinues == ReceiverTypes => stream \in Seq(Bytes) /\ Continues(stream)
BY DEF ReceiverTypes, Continues

(* At a candidate, whatever comes later. *)
LEMMA AtCandidate ==
    ASSUME ReceiverTypes, NEW p, Candidate(p), NEW t \in Seq(Bytes), Continues(t)
    PROVE  /\ base + p \in Nat /\ base + p + StxSize <= Len(t) /\ MarkerAt(t, base + p)
           /\ base + p <= Len(t)
           /\ TelegramsFrom(t)[base + scan] = TelegramsFrom(t)[base + p]
           /\ HasHeader(p) => /\ base + p + HeaderSize <= Len(t)
                              /\ t[(base + p) + HeaderSize] = DataLen(p) /\ DataLen(p) \in Nat
                              /\ p + HeaderSize <= Len(buf)
<1>1. /\ p \in Nat /\ scan <= p /\ p + StxSize <= Len(buf) /\ MarkerAt(buf, p) /\ scan \in Nat
      /\ \A q \in scan .. p - 1 : ~MarkerAt(buf, q)
  BY CandidateFacts
<1>2. /\ base \in Nat /\ Len(t) \in Nat /\ base + Len(buf) <= Len(t) /\ Len(buf) \in Nat /\ WritePos = Len(buf)
      /\ StxSize \in Nat /\ HeaderSize = StxSize + 1
  BY SameBytes, BufferFacts, ByteSizes
<1>3. MarkerAt(t, base + p)
  BY <1>1, SameMarkers
<1>4. TelegramsFrom(t)[base + scan] = TelegramsFrom(t)[base + p]
  <2>1. p + StxSize <= Len(buf) + 1
    BY <1>1, <1>2
  <2> QED BY <1>1, <2>1, Skipped
<1>5. ASSUME HasHeader(p)
      PROVE  /\ base + p + HeaderSize <= Len(t) /\ p + HeaderSize <= Len(buf)
             /\ t[(base + p) + HeaderSize] = DataLen(p) /\ DataLen(p) \in Nat
  <2> DEFINE h == p + HeaderSize
  <2>1. h <= Len(buf) /\ h \in 1 .. Len(buf) /\ base + h = (base + p) + HeaderSize
    BY <1>1, <1>2, <1>5 DEF HasHeader
  <2>2. DataLen(p) = buf[h]
    BY DEF DataLen
  <2> HIDE DEF h
  <2>3. t[base + h] = buf[h] /\ buf[h] \in Nat
    BY <2>1, SameBytes, BufferFacts
  <2>4. base + h <= Len(t)
    BY <1>2, <2>1
  <2> QED BY <1>1, <1>2, <2>1, <2>2, <2>3, <2>4 DEF h
<1> QED BY <1>1, <1>2, <1>3, <1>4, <1>5

----------------------------------------------------------------------------
(* What is reported. *)

LEMMA SpanIs ==
    ASSUME base \in Nat, NEW a \in Nat, NEW b \in Nat
    PROVE  Span(a, b) = base + a .. base + b - 1
<1>1. ASSUME NEW x \in base + a .. base + b - 1 PROVE x \in Span(a, b)
  <2>1. x - base \in a .. b - 1 /\ x = base + (x - base)
    BY <1>1
  <2> QED BY <2>1 DEF Span
<1>2. ASSUME NEW x \in Span(a, b) PROVE x \in base + a .. base + b - 1
  <2>1. PICK o \in a .. b - 1 : x = base + o
    BY <1>2 DEF Span
  <2> QED BY <2>1
<1> QED BY <1>1, <1>2

LEMMA Reported ==
    ASSUME ReceiverTypes, Accounts, pc = "scan", NEW p \in Nat, scan <= p, ReportGarbage(scan, p)
    PROVE  /\ ~twice' /\ reported \subseteq reported'
           /\ base + scan .. base + p - 1 \subseteq reported'
           /\ reported' \subseteq 0 .. base + Max2(p, covered) - 1
<1> DEFINE m == Max2(scan, covered)
<1>1. Here = scan /\ scan \in Nat /\ covered \in Nat /\ base \in Nat
  BY BufferFacts DEF Here, ReceiverTypes
<1>2. m \in Nat /\ m >= scan /\ m >= covered /\ (m = scan \/ m = covered)
  BY <1>1 DEF Max2
<1>3. Span(m, p) = base + m .. base + p - 1
  BY <1>1, <1>2, SpanIs
<1>4. /\ reported' = reported \cup Span(m, p)
      /\ twice' = (twice \/ Span(m, p) \cap (reported \cup Delivered) # {})
  BY DEF ReportGarbage
<1> HIDE DEF m
<1>5. reported \subseteq 0 .. base + m - 1 /\ Delivered \subseteq 0 .. base + scan - 1
  BY <1>1 DEF Accounts, m
<1>6. Span(m, p) \cap (reported \cup Delivered) = {}
  BY <1>1, <1>2, <1>3, <1>5
<1>7. ~twice'
  BY <1>4, <1>6 DEF Accounts
<1>8. base + scan .. base + p - 1 \subseteq reported'
  <2>1. base + scan .. base + covered - 1 \subseteq reported
    BY <1>1 DEF Accounts
  <2>2. ASSUME NEW x \in base + scan .. base + p - 1 PROVE x \in reported'
    <3>1. x \in base + scan .. base + covered - 1 \/ x \in base + m .. base + p - 1
      BY <1>1, <1>2, <2>2
    <3> QED BY <1>3, <1>4, <2>1, <3>1
  <2> QED BY <2>2
<1>9. reported' \subseteq 0 .. base + Max2(p, covered) - 1
  <2>1. Max2(p, covered) \in Nat /\ Max2(p, covered) >= p /\ Max2(p, covered) >= covered
    BY <1>1 DEF Max2
  <2>2. Max2(p, covered) >= m
    BY <1>1, <1>2, <2>1
  <2> DEFINE k == Max2(p, covered)
  <2> HIDE DEF k
  <2>3. k \in Nat /\ k >= p /\ k >= m
    BY <2>1, <2>2 DEF k
  <2>4. reported' \subseteq 0 .. base + k - 1
    BY <1>1, <1>2, <1>3, <1>4, <1>5, <2>3
  <2> QED BY <2>4 DEF k
<1> QED BY <1>4, <1>7, <1>8, <1>9

(* A search that went on from scan to p, past garbage. *)
LEMMA GarbageAccounts ==
    ASSUME ReceiverTypes, Accounts, pc = "scan", NEW p \in Nat, scan <= p, ReportGarbage(scan, p),
           UNCHANGED <<base, covered, frames>>, scan' = p, pc' \in {"scan", "compact"}
    PROVE  Accounts'
<1>1. Here = scan /\ scan \in Nat /\ covered \in Nat /\ base \in Nat /\ Here' = p
  BY BufferFacts DEF Here, ReceiverTypes
<1>2. /\ ~twice' /\ reported \subseteq reported' /\ base + scan .. base + p - 1 \subseteq reported'
      /\ reported' \subseteq 0 .. base + Max2(p, covered) - 1
  BY Reported
<1>3. Delivered' = Delivered
  BY DEF Delivered
<1>4. /\ 0 .. base + scan - 1 \subseteq reported \cup Delivered
      /\ base + scan .. base + covered - 1 \subseteq reported
      /\ Delivered \subseteq 0 .. base + scan - 1
  BY <1>1 DEF Accounts
<1>5. 0 .. base + p - 1 \subseteq reported' \cup Delivered'
  <2>1. ASSUME NEW x \in 0 .. base + p - 1 PROVE x \in reported' \cup Delivered
    <3>1. x \in 0 .. base + scan - 1 \/ x \in base + scan .. base + p - 1
      BY <1>1, <2>1
    <3> QED BY <1>2, <1>4, <3>1
  <2> QED BY <1>3, <2>1
<1>6. base + p .. base + covered - 1 \subseteq reported'
  <2>1. base + p .. base + covered - 1 \subseteq base + scan .. base + covered - 1
    BY <1>1
  <2> QED BY <1>2, <1>4, <2>1
<1>7. Delivered' \subseteq 0 .. base + p - 1
  <2>1. 0 .. base + scan - 1 \subseteq 0 .. base + p - 1
    BY <1>1
  <2> QED BY <1>3, <1>4, <2>1
<1>8. base' = base /\ covered' = covered
  OBVIOUS
<1>9. Max2(Here, covered)' = Max2(p, covered)
  BY <1>1, <1>8 DEF Max2
<1> QED BY <1>1, <1>2, <1>5, <1>6, <1>7, <1>8, <1>9 DEF Accounts

----------------------------------------------------------------------------
(* The steps. *)

LEMMA ReceiverInitially == ReceiverInit => ReceiverIInv
<1> SUFFICES ASSUME ReceiverInit PROVE ReceiverIInv
  OBVIOUS
<1>1. Here = 0 /\ base = 0 /\ covered = 0 /\ stream = << >> /\ buf = << >> /\ frames = << >> /\ pc = "idle"
  BY DEF ReceiverInit, Here
<1>2. ReceiverTypes
  <2>1. << >> \in Seq(Bytes) /\ Len(<< >>) = 0 /\ SubSeq(<< >>, 0 + 1, 0) = << >> /\ << >> \in Seq(Telegram)
    OBVIOUS
  <2>2. HeaderSize \in Nat
    BY ByteSizes
  <2> QED BY <1>1, <2>1, <2>2 DEF ReceiverTypes, ReceiverInit
<1>3. Accounts
  <2>1. Delivered = {}
    BY <1>1 DEF Delivered
  <2> QED BY <1>1, <2>1 DEF Accounts, ReceiverInit
<1>4. Short
  <2>1. FrameSize(MaxFrame) \in Nat /\ FrameSize(MaxFrame) > HeaderSize /\ HeaderSize \in Nat
    BY ByteSizes, FrameSizes
  <2> QED BY <1>1, <2>1 DEF Short
<1>5. FirstTelegrams
  <2>1. ASSUME NEW t \in Seq(Bytes) PROVE TelegramsFrom(t)[0] = << >> \o TelegramsFrom(t)[0 + 0]
    <3>1. TelegramsFrom(t)[0] \in Seq(Telegram)
      BY SearchType
    <3> QED BY <3>1
  <2>2. TelegramsFrom(stream)[0 + 0] = << >>
    <3>1. stream \in Seq(Bytes) /\ Len(stream) = 0 /\ 0 + StxSize > Len(stream)
      BY <1>1, ByteSizes
    <3>2. ASSUME NEW z \in Nat, z = 0 PROVE TelegramsFrom(stream)[z] = << >>
      <4>1. z <= Len(stream) /\ z + StxSize > Len(stream)
        BY <3>1, <3>2
      <4> QED BY <3>1, <4>1, SearchSteps
    <3> QED BY <3>2
  <2> QED BY <1>1, <2>1, <2>2 DEF FirstTelegrams
<1> QED BY <1>2, <1>3, <1>4, <1>5 DEF ReceiverIInv

LEMMA Joined ==
    ASSUME NEW s \in Seq(Bytes), NEW u \in Seq(Bytes), NEW v, v = s \o u
    PROVE  /\ v \in Seq(Bytes) /\ Len(v) = Len(s) + Len(u)
           /\ \A k \in 1 .. Len(s) : v[k] = s[k]
           /\ \A k \in 1 .. Len(u) : v[Len(s) + k] = u[k]
<1>1. /\ s \o u \in Seq(Bytes) /\ Len(s \o u) = Len(s) + Len(u)
      /\ \A i \in 1 .. Len(s) + Len(u) : (s \o u)[i] = IF i <= Len(s) THEN s[i] ELSE u[i - Len(s)]
  BY ConcatProperties
<1>2. /\ v \in Seq(Bytes) /\ Len(v) = Len(s) + Len(u) /\ Len(s) \in Nat /\ Len(u) \in Nat
      /\ \A i \in 1 .. Len(s) + Len(u) : v[i] = IF i <= Len(s) THEN s[i] ELSE u[i - Len(s)]
  BY <1>1
<1>3. \A k \in 1 .. Len(s) : v[k] = s[k]
  BY <1>2
<1>4. ASSUME NEW k \in 1 .. Len(u) PROVE v[Len(s) + k] = u[k]
  <2> DEFINE i == Len(s) + k
  <2>1. i \in 1 .. Len(s) + Len(u) /\ ~(i <= Len(s)) /\ i - Len(s) = k
    BY <1>2, <1>4
  <2> HIDE DEF i
  <2>2. v[i] = u[i - Len(s)]
    BY <1>2, <2>1
  <2> QED BY <2>1, <2>2 DEF i
<1> QED BY <1>2, <1>3, <1>4

(* The bytes of a chunk, after those that are there. *)
LEMMA Fed ==
    ASSUME ReceiverTypes, NEW chunk \in Seq(Bytes), NEW s, s = stream \o chunk, NEW b, b = buf \o chunk
    PROVE  /\ s \in Seq(Bytes) /\ Len(s) = Len(stream) + Len(chunk)
           /\ \A k \in 1 .. Len(stream) : s[k] = stream[k]
           /\ Len(b) = Len(buf) + Len(chunk) /\ b = SubSeq(s, base + 1, Len(s))
<1>1. /\ stream \in Seq(Bytes) /\ base \in Nat /\ base <= Len(stream) /\ buf \in Seq(Bytes)
      /\ Len(buf) = Len(stream) - base /\ Len(stream) \in Nat /\ Len(buf) \in Nat /\ Len(chunk) \in Nat
      /\ \A k \in 1 .. Len(buf) : buf[k] = stream[base + k]
  BY BufferFacts DEF ReceiverTypes
<1>2. /\ s \in Seq(Bytes) /\ Len(s) = Len(stream) + Len(chunk)
      /\ \A k \in 1 .. Len(stream) : s[k] = stream[k]
      /\ \A k \in 1 .. Len(chunk) : s[Len(stream) + k] = chunk[k]
  BY <1>1, Joined
<1>3. /\ b \in Seq(Bytes) /\ Len(b) = Len(buf) + Len(chunk)
      /\ \A k \in 1 .. Len(buf) : b[k] = buf[k]
      /\ \A k \in 1 .. Len(chunk) : b[Len(buf) + k] = chunk[k]
  <2>1. buf \in Seq(Bytes)
    BY <1>1
  <2> QED BY <2>1, Joined
<1> DEFINE x == base + 1
           y == Len(s)
           m == Len(b)
           v == SubSeq(s, x, y)
<1>4. x \in Nat /\ y \in Nat /\ m \in Nat /\ x >= 1 /\ y = x + m - 1 /\ y <= Len(s)
      /\ \A k \in 1 .. m : x + k - 1 = base + k
  BY <1>1, <1>2, <1>3
<1>5. ASSUME NEW k \in 1 .. m PROVE s[base + k] = b[k]
  <2>1. CASE k <= Len(buf)
    <3>1. base + k \in 1 .. Len(stream) /\ k \in 1 .. Len(buf)
      BY <1>1, <1>5, <2>1
    <3> QED BY <1>1, <1>2, <1>3, <3>1
  <2>2. CASE k > Len(buf)
    <3> DEFINE j == k - Len(buf)
    <3>1. j \in 1 .. Len(chunk) /\ k = Len(buf) + j /\ base + k = Len(stream) + j
      BY <1>1, <1>3, <1>5, <2>2
    <3> HIDE DEF j
    <3>2. s[Len(stream) + j] = chunk[j] /\ b[Len(buf) + j] = chunk[j]
      BY <1>2, <1>3, <3>1
    <3> QED BY <3>1, <3>2
  <2> QED BY <1>1, <1>5, <2>1, <2>2
<1> HIDE DEF x, y, m
<1>6. v \in Seq(Bytes) /\ Len(v) = m /\ \A k \in 1 .. m : v[k] = s[x + k - 1]
  BY <1>2, <1>4, Slice
<1>7. v = b
  <2> HIDE DEF v
  <2>1. \A k \in 1 .. Len(v) : v[k] = b[k]
    BY <1>4, <1>5, <1>6
  <2>2. Len(v) = Len(b)
    BY <1>6 DEF m
  <2> QED BY <1>3, <1>6, <2>1, <2>2, SeqEqual
<1> QED BY <1>2, <1>3, <1>7 DEF v, x, y

LEMMA FeedStep == ReceiverIInv /\ Feed => ReceiverIInv'
<1> SUFFICES ASSUME ReceiverIInv, Feed PROVE ReceiverIInv'
  OBVIOUS
<1>1. PICK n \in 1 .. MaxChunk : \E chunk \in [1 .. n -> Bytes] :
        stream' = stream \o chunk /\ buf' = buf \o chunk
  BY DEF Feed
<1>2. n \in Nat
  BY ReceiverAssumption
<1>3. \A c \in [1 .. n -> Bytes] : c \in Seq(Bytes)
  BY <1>2
<1>4. PICK chunk \in Seq(Bytes) : stream' = stream \o chunk /\ buf' = buf \o chunk
  BY <1>1, <1>3, Zenon
<1>5. /\ stream' \in Seq(Bytes) /\ Len(stream') = Len(stream) + Len(chunk)
      /\ \A k \in 1 .. Len(stream) : stream'[k] = stream[k]
      /\ Len(buf') = Len(buf) + Len(chunk) /\ buf' = SubSeq(stream', base + 1, Len(stream'))
  <2> DEFINE s == stream'
             b == buf'
  <2>1. s = stream \o chunk /\ b = buf \o chunk
    BY <1>4
  <2> HIDE DEF s, b
  <2>2. /\ s \in Seq(Bytes) /\ Len(s) = Len(stream) + Len(chunk)
        /\ \A k \in 1 .. Len(stream) : s[k] = stream[k]
        /\ Len(b) = Len(buf) + Len(chunk) /\ b = SubSeq(s, base + 1, Len(s))
    BY <2>1, Fed DEF ReceiverIInv
  <2> QED BY <2>2 DEF s, b
<1>6. /\ pc = "idle" /\ scan' = 0 /\ pc' = "scan" /\ base' = base /\ covered' = covered
      /\ frames' = frames /\ reported' = reported /\ twice' = twice /\ Here = 0 /\ Here' = 0
  BY DEF Feed, Here
<1>7. /\ base \in Nat /\ base <= Len(stream) /\ Len(stream) \in Nat /\ Len(buf) \in Nat /\ Len(chunk) \in Nat
  BY BufferFacts DEF ReceiverIInv
<1>9. ReceiverTypes'
  <2>1. base \in 0 .. Len(stream') /\ 0 <= Len(buf')
    BY <1>5, <1>7
  <2>2. covered \in Nat /\ covered <= 0 + HeaderSize /\ frames \in Seq(Telegram)
    BY <1>6 DEF ReceiverIInv, ReceiverTypes
  <2> QED BY <1>5, <1>6, <2>1, <2>2 DEF ReceiverTypes
<1>10. Accounts'
  <2>1. Delivered' = Delivered
    BY <1>6 DEF Delivered
  <2> QED BY <1>6, <2>1 DEF ReceiverIInv, Accounts, Max2
<1>11. Short'
  BY <1>6 DEF Short
<1>12. FirstTelegrams'
  <2>1. ASSUME NEW t \in Seq(Bytes), Continues(t)' PROVE Continues(t)
    <3>1. Len(stream') <= Len(t) /\ \A k \in 1 .. Len(stream') : t[k] = stream'[k]
      BY <2>1 DEF Continues
    <3>2. Len(t) \in Nat /\ \A k \in 1 .. Len(stream) : k \in 1 .. Len(stream')
      BY <1>5, <1>7
    <3> QED BY <1>5, <1>7, <3>1, <3>2 DEF Continues
  <2>2. \A t \in Seq(Bytes) : Continues(t) =>
          TelegramsFrom(t)[0] = frames \o TelegramsFrom(t)[base + 0]
    BY <1>6 DEF ReceiverIInv, FirstTelegrams
  <2> QED BY <1>6, <2>1, <2>2 DEF FirstTelegrams
<1> QED BY <1>9, <1>10, <1>11, <1>12 DEF ReceiverIInv

(* A step of the loop leaves the bytes where they are. *)
LEMMA SameBuffer ==
    ASSUME ReceiverTypes, UNCHANGED history, pc' \in {"scan", "compact"},
           scan' \in Nat, scan' <= Len(buf), covered' \in Nat, covered' <= scan' + HeaderSize,
           frames' \in Seq(Telegram)
    PROVE  ReceiverTypes'
<1>1. Here' = scan' /\ stream' = stream /\ buf' = buf /\ base' = base /\ pc' # "done"
  BY DEF Here, history
<1>2. scan' <= Len(buf') /\ Len(stream') = Len(stream)
  BY <1>1
<1>3. /\ pc' \in {"idle", "scan", "compact", "done"}
      /\ stream' \in Seq(Bytes) /\ base' \in 0 .. Len(stream')
      /\ buf' = SubSeq(stream', base' + 1, Len(stream'))
  BY <1>1 DEF ReceiverTypes
<1> QED BY <1>1, <1>2, <1>3 DEF ReceiverTypes

(* The search goes from scan to p, and no telegram begins between. *)
LEMMA FirstMoves ==
    ASSUME ReceiverTypes, FirstTelegrams, pc = "scan", NEW p \in Nat,
           UNCHANGED <<history, frames>>, pc' \in {"scan", "compact"}, scan' = p,
           \A t \in Seq(Bytes) :
              Continues(t) => TelegramsFrom(t)[base + scan] = TelegramsFrom(t)[base + p],
           pc' = "compact" => TelegramsFrom(stream)[base + p] = << >>
    PROVE  FirstTelegrams'
<1>1. /\ Here = scan /\ Here' = p /\ stream' = stream /\ base' = base /\ frames' = frames
      /\ pc' # "done" /\ pc' # "idle"
  BY DEF Here, history
<1>2. ASSUME NEW t \in Seq(Bytes), Continues(t)'
      PROVE  TelegramsFrom(t)[0] = frames \o TelegramsFrom(t)[base + p]
  <2>1. Continues(t)
    BY <1>1, <1>2 DEF Continues
  <2>2. TelegramsFrom(t)[0] = frames \o TelegramsFrom(t)[base + scan]
    BY <1>1, <2>1 DEF FirstTelegrams
  <2>3. TelegramsFrom(t)[base + scan] = TelegramsFrom(t)[base + p]
    BY <2>1
  <2> QED BY <2>2, <2>3
<1> QED BY <1>1, <1>2 DEF FirstTelegrams

LEMMA NoMarkerStep == ReceiverIInv /\ NoMarker => ReceiverIInv'
<1> SUFFICES ASSUME ReceiverIInv, NoMarker PROVE ReceiverIInv'
  OBVIOUS
<1>1. /\ pc = "scan" /\ FindStx(scan) = WritePos /\ pc' = "compact" /\ UNCHANGED <<history, covered, frames>>
      /\ ReceiverTypes /\ Accounts /\ FirstTelegrams
  BY DEF NoMarker, ReceiverIInv
<1>2. /\ scan \in Nat /\ scan <= Len(buf) /\ Len(buf) \in Nat /\ WritePos = Len(buf)
      /\ StxSize \in Nat /\ StxSize >= 1 /\ base \in Nat /\ covered \in Nat /\ Here = scan
  BY <1>1, BufferFacts, ByteSizes DEF Here, ReceiverTypes
<1>3. \A q \in scan .. Len(buf) - StxSize : ~MarkerAt(buf, q)
  <2>1. ~(FindStx(scan) < WritePos)
    BY <1>1, <1>2
  <2> QED BY <1>1, <1>2, <2>1, FoundStx
<1>4. \E p \in Nat :
         /\ scan' = p /\ scan <= p /\ p <= Len(buf)
         /\ p = scan \/ p + StxSize <= Len(buf) + 1
         /\ p + StxSize > Len(buf)
         /\ ReportGarbage(scan, p) \/ (p = scan /\ UNCHANGED <<reported, twice>>)
  <2>1. CASE WritePos > StxSize - 1
    <3>1. scan' = KeepFrom /\ ReportGarbage(scan, KeepFrom)
      BY <2>1 DEF NoMarker
    <3>2. /\ KeepFrom \in Nat /\ scan <= KeepFrom /\ KeepFrom <= Len(buf)
          /\ KeepFrom = scan \/ KeepFrom + StxSize <= Len(buf) + 1
          /\ KeepFrom + StxSize > Len(buf)
      BY <1>2, <2>1 DEF KeepFrom, Max2
    <3> QED BY <3>1, <3>2
  <2>2. CASE ~(WritePos > StxSize - 1)
    <3>1. scan' = scan /\ UNCHANGED <<reported, twice>>
      BY <2>2 DEF NoMarker
    <3> QED BY <1>2, <2>2, <3>1
  <2> QED BY <2>1, <2>2
<1>5. PICK p \in Nat :
         /\ scan' = p /\ scan <= p /\ p <= Len(buf)
         /\ p = scan \/ p + StxSize <= Len(buf) + 1
         /\ p + StxSize > Len(buf)
         /\ ReportGarbage(scan, p) \/ (p = scan /\ UNCHANGED <<reported, twice>>)
  BY <1>4, Zenon
<1>6. \A q \in scan .. p - 1 : ~MarkerAt(buf, q)
  BY <1>2, <1>3, <1>5
<1>7. ReceiverTypes'
  <2>1. covered <= scan + HeaderSize /\ HeaderSize \in Nat /\ frames \in Seq(Telegram)
    BY <1>1, <1>2, ByteSizes DEF ReceiverTypes
  <2>2. covered <= p + HeaderSize
    BY <1>2, <1>5, <2>1
  <2>3. covered' = covered /\ frames' = frames
    BY <1>1
  <2>4. covered' \in Nat /\ covered' <= scan' + HeaderSize /\ frames' \in Seq(Telegram)
    BY <1>2, <1>5, <2>1, <2>2, <2>3
  <2> QED BY <1>1, <1>5, <2>4, SameBuffer
<1>8. Accounts'
  <2>1. base' = base /\ covered' = covered /\ frames' = frames
    BY <1>1 DEF history
  <2>2. CASE ReportGarbage(scan, p)
    BY <1>1, <1>5, <2>1, <2>2, GarbageAccounts
  <2>3. CASE p = scan /\ UNCHANGED <<reported, twice>>
    <3>1. Here' = scan
      BY <1>1, <1>5, <2>3 DEF Here
    <3>2. Delivered' = Delivered
      BY <2>1 DEF Delivered
    <3>3. Max2(Here, covered)' = Max2(Here, covered)
      BY <1>2, <2>1, <3>1 DEF Max2
    <3> QED BY <1>1, <1>2, <2>1, <2>3, <3>1, <3>2, <3>3 DEF Accounts
  <2> QED BY <1>5, <2>2, <2>3
<1>9. Short'
  <2>1. FrameSize(MaxFrame) \in Nat /\ FrameSize(MaxFrame) > HeaderSize /\ HeaderSize = StxSize + 1
    BY ByteSizes, FrameSizes
  <2>2. buf' = buf
    BY <1>1 DEF history
  <2> QED BY <1>1, <1>2, <1>5, <2>1, <2>2 DEF Short
<1>10. FirstTelegrams'
  <2>1. ASSUME NEW t \in Seq(Bytes), Continues(t)
        PROVE  TelegramsFrom(t)[base + scan] = TelegramsFrom(t)[base + p]
    BY <1>1, <1>2, <1>5, <1>6, <2>1, Skipped
  <2>2. TelegramsFrom(stream)[base + p] = << >>
    <3> DEFINE x == base + p
    <3>0. Len(stream) = base + Len(buf) /\ stream \in Seq(Bytes)
      BY <1>1, <1>2, BufferFacts DEF ReceiverTypes
    <3>1. x \in Nat /\ x <= Len(stream) /\ x + StxSize > Len(stream)
      BY <1>2, <1>5, <3>0
    <3> HIDE DEF x
    <3>2. TelegramsFrom(stream)[x] = << >>
      BY <3>0, <3>1, SearchSteps
    <3> QED BY <3>2 DEF x
  <2>3. UNCHANGED <<history, frames>> /\ pc' \in {"scan", "compact"}
    BY <1>1
  <2> QED BY <1>1, <1>5, <2>1, <2>2, <2>3, FirstMoves
<1> QED BY <1>7, <1>8, <1>9, <1>10 DEF ReceiverIInv

LEMMA IncompleteStep == ReceiverIInv /\ Incomplete => ReceiverIInv'
<1> SUFFICES ASSUME ReceiverIInv, Incomplete PROVE ReceiverIInv'
  OBVIOUS
<1>1. PICK p \in 0 .. WritePos :
        /\ Candidate(p)
        /\ HasHeader(p) => LengthValid(DataLen(p)) /\ ~Complete(p)
        /\ ReportGarbage(scan, p) /\ scan' = p /\ pc' = "compact"
        /\ UNCHANGED <<history, covered, frames>>
  BY DEF Incomplete
<1>2. ReceiverTypes /\ Accounts /\ FirstTelegrams
  BY DEF ReceiverIInv
<1>3. /\ p \in Nat /\ scan <= p /\ p + StxSize <= Len(buf) /\ pc = "scan" /\ Here = scan /\ scan \in Nat
  BY <1>1, <1>2, CandidateFacts
<1>4. /\ Len(buf) \in Nat /\ WritePos = Len(buf) /\ Len(stream) = base + Len(buf) /\ base \in Nat
      /\ StxSize \in Nat /\ StxSize >= 1 /\ HeaderSize = StxSize + 1 /\ MaxFrame \in Nat
      /\ covered \in Nat /\ covered <= scan + HeaderSize
  BY <1>2, <1>3, BufferFacts, ByteSizes DEF ReceiverTypes
<1>5. HasHeader(p) => /\ DataLen(p) \in Nat /\ DataLen(p) <= MaxFrame
                      /\ Len(buf) - p < FrameSize(DataLen(p))
  <2> SUFFICES ASSUME HasHeader(p)
               PROVE  DataLen(p) \in Nat /\ DataLen(p) <= MaxFrame /\ Len(buf) - p < FrameSize(DataLen(p))
    OBVIOUS
  <2>1. DataLen(p) \in Nat
    BY <1>1, <1>2, StreamContinues, AtCandidate
  <2>2. FrameSize(DataLen(p)) \in Nat
    BY <2>1, FrameSizes
  <2> QED BY <1>1, <1>3, <1>4, <2>1, <2>2 DEF LengthValid, Complete
<1>6. ReceiverTypes'
  <2>1. covered' \in Nat /\ covered' <= scan' + HeaderSize /\ frames' \in Seq(Telegram)
    <3>1. covered' = covered /\ frames' = frames
      BY <1>1
    <3> QED BY <1>1, <1>2, <1>3, <1>4, <3>1 DEF ReceiverTypes
  <2>2. scan' \in Nat /\ scan' <= Len(buf) /\ pc' \in {"scan", "compact"} /\ UNCHANGED history
    BY <1>1, <1>3, <1>4
  <2> QED BY <1>2, <2>1, <2>2, SameBuffer
<1>7. Accounts'
  <2>1. UNCHANGED <<base, covered, frames>> /\ pc' \in {"scan", "compact"}
    BY <1>1 DEF history
  <2> QED BY <1>1, <1>2, <1>3, <2>1, GarbageAccounts
<1>8. Short'
  <2>1. buf' = buf
    BY <1>1 DEF history
  <2>2. FrameSize(MaxFrame) = StxSize + MaxFrame + 2 /\ FrameSize(MaxFrame) \in Nat
    BY <1>4, FrameSizes
  <2>3. Len(buf) - p < FrameSize(MaxFrame)
    <3>1. CASE HasHeader(p)
      <4>1. FrameSize(DataLen(p)) = StxSize + DataLen(p) + 2
        BY <1>5, <3>1, FrameSizes
      <4> QED BY <1>3, <1>4, <1>5, <2>2, <3>1, <4>1
    <3>2. CASE ~HasHeader(p)
      BY <1>3, <1>4, <2>2, <3>2 DEF HasHeader
    <3> QED BY <3>1, <3>2
  <2> QED BY <1>1, <2>1, <2>3 DEF Short
<1>9. FirstTelegrams'
  <2>1. \A t \in Seq(Bytes) : Continues(t) => TelegramsFrom(t)[base + scan] = TelegramsFrom(t)[base + p]
    BY <1>1, <1>2, AtCandidate
  <2>2. TelegramsFrom(stream)[base + p] = << >>
    <3> DEFINE x == base + p
    <3>1. /\ stream \in Seq(Bytes) /\ x \in Nat /\ x <= Len(stream) /\ x + StxSize <= Len(stream)
          /\ MarkerAt(stream, x)
          /\ HasHeader(p) => x + HeaderSize <= Len(stream) /\ stream[x + HeaderSize] = DataLen(p)
      BY <1>1, <1>2, StreamContinues, AtCandidate
    <3>2. ~HasHeader(p) => x + HeaderSize > Len(stream)
      BY <1>3, <1>4 DEF HasHeader
    <3>3. HasHeader(p) => x + FrameSize(DataLen(p)) > Len(stream)
      <4> SUFFICES ASSUME HasHeader(p) PROVE x + FrameSize(DataLen(p)) > Len(stream)
        OBVIOUS
      <4>1. FrameSize(DataLen(p)) \in Nat /\ Len(buf) - p < FrameSize(DataLen(p))
        BY <1>5, FrameSizes
      <4> QED BY <1>3, <1>4, <4>1
    <3> HIDE DEF x
    <3>4. TelegramsFrom(stream)[x] = << >>
      <4>1. CASE HasHeader(p)
        <5>1. LengthValid(stream[x + HeaderSize]) /\ x + FrameSize(stream[x + HeaderSize]) > Len(stream)
          BY <1>1, <3>1, <3>3, <4>1
        <5> QED BY <3>1, <4>1, <5>1, SearchSteps
      <4>2. CASE ~HasHeader(p)
        BY <3>1, <3>2, <4>2, SearchSteps
      <4> QED BY <4>1, <4>2
    <3> QED BY <3>4 DEF x
  <2>3. UNCHANGED <<history, frames>> /\ pc' \in {"scan", "compact"}
    BY <1>1
  <2> QED BY <1>1, <1>2, <1>3, <2>1, <2>2, <2>3, FirstMoves
<1> QED BY <1>6, <1>7, <1>8, <1>9 DEF ReceiverIInv

LEMMA RejectStep == ReceiverIInv /\ LengthOutOfRange => ReceiverIInv'
<1> SUFFICES ASSUME ReceiverIInv, LengthOutOfRange PROVE ReceiverIInv'
  OBVIOUS
<1> DEFINE End(p) == p + HeaderSize + (IF DataLen(p) = 0 THEN 1 ELSE 0)
           Before(p) == Span(Max2(scan, covered), p)
<1>1. PICK p \in 0 .. WritePos :
        /\ Candidate(p) /\ HasHeader(p) /\ ~LengthValid(DataLen(p))
        /\ covered' = Max2(covered, End(p))
        /\ reported' = reported \cup Before(p) \cup Span(p, End(p))
        /\ twice' = (twice \/ Before(p) \cap (reported \cup Delivered) # {})
        /\ scan' = AfterReject(p)
        /\ UNCHANGED <<pc, history, frames>>
  BY DEF LengthOutOfRange
<1>2. ReceiverTypes /\ Accounts /\ FirstTelegrams
  BY DEF ReceiverIInv
<1>3. /\ p \in Nat /\ scan <= p /\ p + StxSize <= Len(buf) /\ pc = "scan" /\ Here = scan /\ scan \in Nat
  BY <1>1, <1>2, CandidateFacts
<1>4. /\ Len(buf) \in Nat /\ WritePos = Len(buf) /\ Len(stream) = base + Len(buf) /\ base \in Nat
      /\ StxSize \in Nat /\ StxSize >= 1 /\ HeaderSize = StxSize + 1
      /\ covered \in Nat /\ covered <= scan + HeaderSize
  BY <1>2, <1>3, BufferFacts, ByteSizes DEF ReceiverTypes
<1> DEFINE e == End(p)
           c == Max2(covered, e)
<1>5. e \in Nat /\ p + HeaderSize <= e /\ e <= p + HeaderSize + 1
  BY <1>3, <1>4
<1> HIDE DEF e
<1>6. c \in Nat /\ c >= covered /\ c >= e /\ c <= p + 1 + HeaderSize
  BY <1>3, <1>4, <1>5 DEF Max2
<1>7. scan' = p + 1 /\ p + 1 \in Nat /\ covered' = c
  BY <1>1, <1>3 DEF AfterReject, e
<1> HIDE DEF c
<1>8. ReceiverTypes'
  <2>1. covered' \in Nat /\ covered' <= scan' + HeaderSize /\ frames' \in Seq(Telegram)
    <3>1. frames' = frames /\ frames \in Seq(Telegram)
      BY <1>1, <1>2 DEF ReceiverTypes
    <3> QED BY <1>6, <1>7, <3>1
  <2>2. scan' \in Nat /\ scan' <= Len(buf)
    BY <1>3, <1>4, <1>7
  <2>3. UNCHANGED history /\ pc' \in {"scan", "compact"}
    BY <1>1, <1>3
  <2> QED BY <1>2, <2>1, <2>2, <2>3, SameBuffer
<1>9. Accounts'
  <2>2. Here' = p + 1 /\ base' = base /\ Delivered' = Delivered
    BY <1>1, <1>3, <1>7 DEF Here, history, Delivered
  <2> DEFINE m == Max2(scan, covered)
  <2>3. m \in Nat /\ m >= scan /\ m >= covered /\ (m = scan \/ m = covered)
    BY <1>3, <1>4 DEF Max2
  <2>4. Before(p) = base + m .. base + p - 1 /\ Span(p, e) = base + p .. base + e - 1
    <3>1. Before(p) = Span(m, p)
      OBVIOUS
    <3> HIDE DEF m
    <3> QED BY <1>3, <1>4, <1>5, <2>3, <3>1, SpanIs
  <2>5. /\ 0 .. base + scan - 1 \subseteq reported \cup Delivered
        /\ base + scan .. base + covered - 1 \subseteq reported
        /\ Delivered \subseteq 0 .. base + scan - 1
        /\ reported \subseteq 0 .. base + m - 1 /\ ~twice
    BY <1>2, <1>3 DEF Accounts
  <2> HIDE DEF m
  <2>6. /\ reported' = reported \cup (base + m .. base + p - 1) \cup (base + p .. base + e - 1)
        /\ ~twice'
    <3>1. (base + m .. base + p - 1) \cap (reported \cup Delivered) = {}
      BY <1>3, <1>4, <2>3, <2>5
    <3>2. reported' = reported \cup Before(p) \cup Span(p, e)
      BY <1>1 DEF e
    <3> HIDE DEF Before
    <3> QED BY <1>1, <2>4, <2>5, <3>1, <3>2 DEF Before
  <2>7. ASSUME NEW x \in 0 .. base + (p + 1) - 1 PROVE x \in reported' \cup Delivered
    <3>1. \/ x \in 0 .. base + scan - 1 \/ x \in base + scan .. base + covered - 1
          \/ x \in base + m .. base + p - 1 \/ x \in base + p .. base + e - 1
      BY <1>3, <1>4, <1>5, <2>3, <2>7
    <3> QED BY <2>5, <2>6, <3>1
  <2>8. ASSUME NEW x \in base + (p + 1) .. base + c - 1 PROVE x \in reported'
    <3>1. x \in base + scan .. base + covered - 1 \/ x \in base + p .. base + e - 1
      <4>1. c = covered \/ c = e
        BY <1>4, <1>5 DEF c, Max2
      <4> QED BY <1>3, <1>4, <1>5, <1>6, <2>8, <4>1
    <3> QED BY <2>5, <2>6, <3>1
  <2>9. Delivered \subseteq 0 .. base + (p + 1) - 1
    BY <1>3, <1>4, <2>5
  <2>10. Max2(Here, covered)' = Max2(p + 1, c)
    BY <1>7, <2>2 DEF Max2
  <2>11. reported' \subseteq 0 .. base + Max2(p + 1, c) - 1
    <3> DEFINE k == Max2(p + 1, c)
    <3>1. k \in Nat /\ k >= p + 1 /\ k >= c
      BY <1>3, <1>6 DEF Max2
    <3> HIDE DEF k
    <3>2. k >= m /\ k >= e /\ k >= p
      BY <1>3, <1>4, <1>5, <1>6, <2>3, <3>1
    <3>3. reported' \subseteq 0 .. base + k - 1
      BY <1>3, <1>4, <1>5, <2>3, <2>5, <2>6, <3>1, <3>2
    <3> QED BY <3>3 DEF k
  <2> QED BY <1>7, <2>2, <2>6, <2>7, <2>8, <2>9, <2>10, <2>11 DEF Accounts
<1>10. Short'
  BY <1>1, <1>3 DEF Short
<1>11. FirstTelegrams'
  <2>1. ASSUME NEW t \in Seq(Bytes), Continues(t)
        PROVE  TelegramsFrom(t)[base + scan] = TelegramsFrom(t)[base + (p + 1)]
    <3> DEFINE x == base + p
    <3>1. /\ x \in Nat /\ x <= Len(t) /\ x + HeaderSize <= Len(t) /\ MarkerAt(t, x)
          /\ t[x + HeaderSize] = DataLen(p)
          /\ TelegramsFrom(t)[base + scan] = TelegramsFrom(t)[x]
      BY <1>1, <1>2, <2>1, AtCandidate
    <3>2. x + 1 = base + (p + 1)
      BY <1>3, <1>4
    <3> HIDE DEF x
    <3>3. TelegramsFrom(t)[x] = TelegramsFrom(t)[x + 1]
      BY <1>1, <3>1, SearchSteps
    <3> QED BY <3>1, <3>2, <3>3
  <2>2. UNCHANGED <<history, frames>> /\ pc' \in {"scan", "compact"} /\ pc' # "compact"
    BY <1>1, <1>3
  <2> DEFINE k == p + 1
  <2>3. k \in Nat /\ scan' = k /\ \A t \in Seq(Bytes) :
          Continues(t) => TelegramsFrom(t)[base + scan] = TelegramsFrom(t)[base + k]
    BY <1>7, <2>1
  <2> HIDE DEF k
  <2> QED BY <1>2, <1>3, <2>2, <2>3, FirstMoves
<1> QED BY <1>8, <1>9, <1>10, <1>11 DEF ReceiverIInv

LEMMA LoopEndsStep == ReceiverIInv /\ LoopEnds => ReceiverIInv'
<1> SUFFICES ASSUME ReceiverIInv, LoopEnds PROVE ReceiverIInv'
  OBVIOUS
<1>1. /\ pc = "scan" /\ scan >= WritePos /\ pc' = "compact"
      /\ UNCHANGED <<history, scan, covered, frames, reported, twice>>
      /\ ReceiverTypes /\ Accounts /\ FirstTelegrams
  BY DEF LoopEnds, ReceiverIInv
<1>2. /\ Len(buf) \in Nat /\ WritePos = Len(buf) /\ Len(stream) = base + Len(buf) /\ base \in Nat
      /\ StxSize \in Nat /\ StxSize >= 1 /\ HeaderSize = StxSize + 1
      /\ Here = scan /\ scan = Len(buf) /\ covered \in Nat /\ covered <= scan + HeaderSize
  BY <1>1, BufferFacts, ByteSizes DEF ReceiverTypes, Here
<1>3. ReceiverTypes'
  <2>1. covered' = covered /\ scan' = scan /\ frames' = frames /\ frames \in Seq(Telegram)
    BY <1>1 DEF ReceiverTypes
  <2>2. scan' \in Nat /\ scan' <= Len(buf) /\ covered' \in Nat /\ covered' <= scan' + HeaderSize
        /\ frames' \in Seq(Telegram)
    BY <1>2, <2>1
  <2> QED BY <1>1, <2>2, SameBuffer
<1>4. Accounts'
  <2>1. /\ Here' = Here /\ Delivered' = Delivered /\ base' = base /\ covered' = covered
        /\ reported' = reported /\ twice' = twice
    BY <1>1 DEF Here, history, Delivered
  <2>2. Max2(Here, covered)' = Max2(Here, covered)
    BY <2>1 DEF Max2
  <2> QED BY <1>1, <2>1, <2>2 DEF Accounts
<1>5. Short'
  <2>1. FrameSize(MaxFrame) \in Nat /\ FrameSize(MaxFrame) > HeaderSize
    BY ByteSizes, FrameSizes
  <2>2. Len(buf') = Len(buf) /\ scan' = scan
    BY <1>1 DEF history
  <2> QED BY <1>1, <1>2, <2>1, <2>2 DEF Short
<1>6. FirstTelegrams'
  <2>1. TelegramsFrom(stream)[base + scan] = << >>
    <3> DEFINE x == base + scan
    <3>1. x \in Nat /\ x <= Len(stream) /\ x + StxSize > Len(stream) /\ stream \in Seq(Bytes)
      BY <1>1, <1>2 DEF ReceiverTypes
    <3> HIDE DEF x
    <3>2. TelegramsFrom(stream)[x] = << >>
      BY <3>1, SearchSteps
    <3> QED BY <3>2 DEF x
  <2>2. /\ UNCHANGED <<history, frames>> /\ pc' \in {"scan", "compact"} /\ scan' = scan /\ scan \in Nat
    BY <1>1, <1>2
  <2> QED BY <1>1, <2>1, <2>2, FirstMoves
<1> QED BY <1>3, <1>4, <1>5, <1>6 DEF ReceiverIInv

LEMMA DeliverStep == ReceiverIInv /\ DeliverFrame => ReceiverIInv'
<1> SUFFICES ASSUME ReceiverIInv, DeliverFrame PROVE ReceiverIInv'
  OBVIOUS
<1> DEFINE Cut(p) ==
      LET n == DataLen(p)
          first == p + HeaderSize + 1
      IN  [start |-> base + p, size |-> FrameSize(n),
           good |-> ComputeChecksum(SubSeq(buf, first, first + n - 1)) = buf[first + n]]
<1>1. PICK p \in 0 .. WritePos :
        /\ Candidate(p) /\ HasHeader(p) /\ LengthValid(DataLen(p)) /\ Complete(p)
        /\ ReportGarbage(scan, p)
        /\ frames' = Append(frames, Cut(p)) /\ scan' = p + FrameSize(DataLen(p)) /\ covered' = 0
        /\ UNCHANGED <<pc, history>>
  BY DEF DeliverFrame
<1>2. ReceiverTypes /\ Accounts /\ FirstTelegrams
  BY DEF ReceiverIInv
<1>3. /\ p \in Nat /\ scan <= p /\ p + StxSize <= Len(buf) /\ pc = "scan" /\ Here = scan /\ scan \in Nat
  BY <1>1, <1>2, CandidateFacts
<1>4. /\ Len(buf) \in Nat /\ WritePos = Len(buf) /\ Len(stream) = base + Len(buf) /\ base \in Nat
      /\ StxSize \in Nat /\ StxSize >= 1 /\ HeaderSize = StxSize + 1
      /\ covered \in Nat /\ covered <= scan + HeaderSize
  BY <1>2, <1>3, BufferFacts, ByteSizes DEF ReceiverTypes
<1>5. p + HeaderSize <= Len(buf) /\ DataLen(p) \in Nat
  BY <1>1, <1>2, StreamContinues, AtCandidate
<1> DEFINE z == FrameSize(DataLen(p))
           cut == Cut(p)
<1>6. z \in Nat /\ z > HeaderSize /\ p + z <= Len(buf)
  <2>1. z \in Nat /\ z > HeaderSize
    BY <1>5, FrameSizes
  <2> QED BY <1>1, <1>3, <1>4, <2>1 DEF Complete
<1>7. ASSUME NEW t \in Seq(Bytes), Continues(t) PROVE TelegramAt(t, base + p) = cut
  BY <1>2, <1>3, <1>5, <1>6, <1>7, SameTelegram
<1>8. cut \in Telegram /\ cut.start = base + p /\ cut.size = z
  <2>1. z \in Nat /\ base + p \in Nat
    BY <1>3, <1>4, <1>6
  <2> QED BY <2>1 DEF Telegram
<1>9. frames' = Append(frames, cut) /\ scan' = p + z
  BY <1>1
<1> HIDE DEF cut, z
<1>10. frames \in Seq(Telegram) /\ frames' \in Seq(Telegram)
  BY <1>2, <1>8, <1>9 DEF ReceiverTypes
<1>11. scan' \in Nat /\ scan' <= Len(buf) /\ covered' = 0
  BY <1>1, <1>3, <1>6, <1>9
<1>12. ReceiverTypes'
  <2>1. covered' \in Nat /\ covered' <= scan' + HeaderSize
    <3>1. 0 <= (p + z) + HeaderSize
      BY <1>3, <1>4, <1>6
    <3> QED BY <1>9, <1>11, <3>1
  <2>2. UNCHANGED history /\ pc' \in {"scan", "compact"}
    BY <1>1, <1>3
  <2> QED BY <1>2, <1>10, <1>11, <2>1, <2>2, SameBuffer
<1>13. Accounts'
  <2>1. Here' = p + z /\ base' = base
    BY <1>1, <1>3, <1>9 DEF Here, history
  <2>2. /\ ~twice' /\ reported \subseteq reported' /\ base + scan .. base + p - 1 \subseteq reported'
        /\ reported' \subseteq 0 .. base + Max2(p, covered) - 1
    BY <1>1, <1>2, <1>3, Reported
  <2>3. Delivered' = Delivered \cup (base + p .. base + p + z - 1)
    <3>1. /\ DOMAIN frames' = DOMAIN frames \cup {Len(frames) + 1} /\ frames'[Len(frames) + 1] = cut
          /\ \A k \in DOMAIN frames : frames'[k] = frames[k]
      BY <1>8, <1>9, <1>10
    <3> DEFINE Part(f, k) == f[k].start .. f[k].start + f[k].size - 1
    <3>2. Part(frames', Len(frames) + 1) = base + p .. base + p + z - 1
      BY <1>8, <3>1
    <3>3. \A k \in DOMAIN frames : Part(frames', k) = Part(frames, k)
      BY <3>1
    <3>4. /\ Delivered = UNION {Part(frames, k) : k \in DOMAIN frames}
          /\ Delivered' = UNION {Part(frames', k) : k \in DOMAIN frames'}
      BY DEF Delivered
    <3> HIDE DEF Part
    <3>5. Delivered' = (UNION {Part(frames', k) : k \in DOMAIN frames}) \cup Part(frames', Len(frames) + 1)
      BY <3>1, <3>4
    <3>6. {Part(frames', k) : k \in DOMAIN frames} = {Part(frames, k) : k \in DOMAIN frames}
      BY <3>3
    <3> QED BY <3>2, <3>4, <3>5, <3>6
  <2>4. 0 .. base + scan - 1 \subseteq reported \cup Delivered /\ Delivered \subseteq 0 .. base + scan - 1
    BY <1>2, <1>3 DEF Accounts
  <2>5. ASSUME NEW x \in 0 .. base + (p + z) - 1 PROVE x \in reported' \cup Delivered'
    <3>1. \/ x \in 0 .. base + scan - 1 \/ x \in base + scan .. base + p - 1
          \/ x \in base + p .. base + p + z - 1
      BY <1>3, <1>4, <1>6, <2>5
    <3> QED BY <2>2, <2>3, <2>4, <3>1
  <2>6. Delivered' \subseteq 0 .. base + (p + z) - 1
    <3>1. 0 .. base + scan - 1 \subseteq 0 .. base + (p + z) - 1
      BY <1>3, <1>4, <1>6
    <3>2. base + p .. base + p + z - 1 \subseteq 0 .. base + (p + z) - 1
      BY <1>3, <1>4, <1>6
    <3> QED BY <2>3, <2>4, <3>1, <3>2
  <2>7. reported' \subseteq 0 .. base + (p + z) - 1
    <3>1. Max2(p, covered) \in Nat /\ Max2(p, covered) <= p + z
      BY <1>3, <1>4, <1>6 DEF Max2
    <3> DEFINE k == Max2(p, covered)
    <3> HIDE DEF k
    <3>2. 0 .. base + k - 1 \subseteq 0 .. base + (p + z) - 1
      BY <1>3, <1>4, <1>6, <3>1 DEF k
    <3> QED BY <2>2, <3>2 DEF k
  <2>8. Max2(Here, covered)' = p + z
    BY <1>3, <1>6, <1>11, <2>1 DEF Max2
  <2>9. base + (p + z) .. base + 0 - 1 = {}
    BY <1>3, <1>4, <1>6
  <2> QED BY <1>11, <2>1, <2>2, <2>5, <2>6, <2>7, <2>8, <2>9 DEF Accounts
<1>14. Short'
  BY <1>1, <1>3 DEF Short
<1>15. FirstTelegrams'
  <2>1. /\ Here' = p + z /\ stream' = stream /\ base' = base /\ pc' = "scan"
    BY <1>1, <1>3, <1>9 DEF Here, history
  <2>2. ASSUME NEW t \in Seq(Bytes), Continues(t)'
        PROVE  TelegramsFrom(t)[0] = frames' \o TelegramsFrom(t)[base + (p + z)]
    <3> DEFINE x == base + p
               y == base + (p + z)
    <3>1. Continues(t)
      BY <2>1, <2>2 DEF Continues
    <3>2. TelegramsFrom(t)[0] = frames \o TelegramsFrom(t)[base + scan]
      BY <1>2, <1>3, <3>1 DEF FirstTelegrams
    <3>3. /\ x \in Nat /\ x <= Len(t) /\ x + HeaderSize <= Len(t) /\ MarkerAt(t, x)
          /\ t[x + HeaderSize] = DataLen(p)
          /\ TelegramsFrom(t)[base + scan] = TelegramsFrom(t)[x]
      BY <1>1, <1>2, <3>1, AtCandidate
    <3>4. y = x + z /\ y \in 0 .. Len(t)
      <4>1. base + Len(buf) <= Len(t) /\ Len(t) \in Nat
        BY <1>2, <3>1, SameBytes
      <4> QED BY <1>3, <1>4, <1>6, <4>1
    <3>5. TelegramAt(t, x) = cut
      BY <1>7, <3>1
    <3> HIDE DEF x, y
    <3>6. TelegramsFrom(t)[x] = <<cut>> \o TelegramsFrom(t)[y]
      <4>1. x + FrameSize(t[x + HeaderSize]) = y /\ LengthValid(t[x + HeaderSize]) /\ y <= Len(t)
        BY <1>1, <3>3, <3>4 DEF z
      <4>2. TelegramsFrom(t)[x] = <<TelegramAt(t, x)>> \o TelegramsFrom(t)[x + FrameSize(t[x + HeaderSize])]
        BY <3>3, <4>1, SearchSteps
      <4> QED BY <3>5, <4>1, <4>2
    <3> DEFINE r == TelegramsFrom(t)[y]
    <3>7. r \in Seq(Telegram)
      BY <3>4, SearchType
    <3> HIDE DEF r
    <3>8. frames \o (<<cut>> \o r) = Append(frames, cut) \o r
      <4>1. frames \o (<<cut>> \o r) = (frames \o <<cut>>) \o r
        <5>1. <<cut>> \in Seq(Telegram)
          BY <1>8
        <5> QED BY <1>10, <3>7, <5>1, ConcatAssociative
      <4>2. frames \o <<cut>> = Append(frames, cut)
        BY <1>8, <1>10, AppendIsConcat
      <4> QED BY <4>1, <4>2
    <3> QED BY <1>9, <3>2, <3>3, <3>6, <3>8 DEF r, y
  <2> QED BY <2>1, <2>2 DEF FirstTelegrams
<1> QED BY <1>12, <1>13, <1>14, <1>15 DEF ReceiverIInv

LEMMA CompactStep == ReceiverIInv /\ Compact => ReceiverIInv'
<1> SUFFICES ASSUME ReceiverIInv, Compact PROVE ReceiverIInv'
  OBVIOUS
<1>1. /\ pc = "compact" /\ covered' = Max2(covered - scan, 0)
      /\ buf' = SubSeq(buf, scan + 1, WritePos) /\ base' = base + scan /\ pc' = "idle"
      /\ stream' = stream /\ scan' = scan /\ frames' = frames /\ reported' = reported /\ twice' = twice
      /\ ReceiverTypes /\ Accounts /\ Short /\ FirstTelegrams
  BY DEF Compact, ReceiverIInv
<1>2. /\ Len(buf) \in Nat /\ WritePos = Len(buf) /\ Len(buf) = Len(stream) - base /\ base \in Nat
      /\ Len(stream) \in Nat /\ base <= Len(stream)
      /\ scan \in Nat /\ scan <= Len(buf) /\ Here = scan /\ Here' = 0
      /\ covered \in Nat /\ covered <= scan + HeaderSize /\ HeaderSize \in Nat
      /\ frames \in Seq(Telegram) /\ stream \in Seq(Bytes) /\ buf = SubSeq(stream, base + 1, Len(stream))
  BY <1>1, BufferFacts, ByteSizes DEF ReceiverTypes, Here
<1> DEFINE b == base + scan
           c == Max2(covered - scan, 0)
<1>3. b \in Nat /\ b <= Len(stream) /\ c \in Nat /\ c <= HeaderSize /\ b + c = base + Max2(scan, covered)
  BY <1>2 DEF Max2
<1>4. SubSeq(buf, scan + 1, Len(buf)) = SubSeq(stream, b + 1, Len(stream))
  <2> DEFINE n == Len(buf) - scan
             x == scan + 1
             y == Len(buf)
             v == b + 1
             w == Len(stream)
  <2>1. /\ n \in Nat /\ x \in Nat /\ y \in Nat /\ v \in Nat /\ w \in Nat /\ x >= 1 /\ v >= 1
        /\ y = x + n - 1 /\ w = v + n - 1 /\ y <= Len(buf) /\ w <= Len(stream)
    BY <1>2, <1>3
  <2>2. ASSUME NEW i \in 1 .. n PROVE buf[x + i - 1] = stream[v + i - 1]
    <3> DEFINE k == scan + i
    <3>1. k \in 1 .. Len(buf) /\ x + i - 1 = k /\ v + i - 1 = base + k
      BY <1>2, <2>2
    <3> HIDE DEF k
    <3>2. buf[k] = stream[base + k]
      BY <1>1, <3>1, BufferFacts
    <3> QED BY <3>1, <3>2
  <2>3. buf \in Seq(Bytes)
    BY <1>2
  <2> HIDE DEF n, x, y, v, w
  <2>4. SubSeq(buf, x, y) \in Seq(Bytes) /\ Len(SubSeq(buf, x, y)) = n
        /\ \A i \in 1 .. n : SubSeq(buf, x, y)[i] = buf[x + i - 1]
    BY <2>1, <2>3, Slice
  <2>5. SubSeq(stream, v, w) \in Seq(Bytes) /\ Len(SubSeq(stream, v, w)) = n
        /\ \A i \in 1 .. n : SubSeq(stream, v, w)[i] = stream[v + i - 1]
    BY <1>2, <2>1, Slice
  <2> DEFINE f == SubSeq(buf, x, y)
             g == SubSeq(stream, v, w)
  <2> HIDE DEF f, g
  <2>6. f = g
    BY <2>2, <2>4, <2>5, SeqEqual DEF f, g
  <2> QED BY <2>6 DEF f, g, x, y, v, w
<1>5. base' = b /\ covered' = c /\ buf' = SubSeq(stream, b + 1, Len(stream))
  BY <1>1, <1>2, <1>4
<1> HIDE DEF b, c
<1>6. Len(buf') = Len(buf) - scan
  <2>1. Len(SubSeq(stream, b + 1, Len(stream))) = Len(stream) - b
    BY <1>2, <1>3
  <2> QED BY <1>2, <1>5, <2>1 DEF b
<1>7. ReceiverTypes'
  <2>1. base' \in 0 .. Len(stream') /\ Here' <= Len(buf')
    BY <1>1, <1>2, <1>3, <1>5, <1>6
  <2>2. scan' \in Nat /\ covered' \in Nat /\ covered' <= Here' + HeaderSize
    <3>1. c <= 0 + HeaderSize
      BY <1>2, <1>3
    <3> QED BY <1>1, <1>2, <1>3, <1>5, <3>1
  <2>3. /\ pc' \in {"idle", "scan", "compact", "done"} /\ pc' # "done"
        /\ stream' \in Seq(Bytes) /\ frames' \in Seq(Telegram)
        /\ buf' = SubSeq(stream', base' + 1, Len(stream'))
    BY <1>1, <1>2, <1>5
  <2> QED BY <2>1, <2>2, <2>3 DEF ReceiverTypes
<1>8. Accounts'
  <2>1. Delivered' = Delivered
    BY <1>1 DEF Delivered
  <2>2. base' + Here' = base + Here /\ base' + Here' - 1 = base + Here - 1
    BY <1>2, <1>5 DEF b
  <2>3. Max2(Here, covered)' = c
    BY <1>2, <1>3, <1>5 DEF Max2
  <2>4. base' + Max2(Here, covered)' - 1 = base + Max2(Here, covered) - 1
    <3>1. Max2(Here, covered)' = c /\ base' = b /\ Max2(Here, covered) = Max2(scan, covered)
      BY <1>2, <1>5, <2>3
    <3>2. b + c - 1 = base + Max2(scan, covered) - 1
      <4>1. Max2(scan, covered) \in Nat
        BY <1>2 DEF Max2
      <4> QED BY <1>2, <1>3, <4>1
    <3> QED BY <3>1, <3>2
  <2>5. base' + Here' .. base' + covered' - 1 \subseteq base + Here .. base + covered - 1
    <3>1. c = 0 \/ c = covered - scan
      BY <1>2 DEF c, Max2
    <3>2. b + 0 .. b + c - 1 \subseteq base + scan .. base + covered - 1
      BY <1>2, <1>3, <3>1 DEF b
    <3> QED BY <1>2, <1>5, <3>2
  <2>6. /\ 0 .. base + Here - 1 \subseteq reported \cup Delivered
        /\ base + Here .. base + covered - 1 \subseteq reported
        /\ Delivered \subseteq 0 .. base + Here - 1
        /\ reported \subseteq 0 .. base + Max2(Here, covered) - 1
        /\ ~twice
    BY <1>1 DEF Accounts
  <2> QED BY <1>1, <2>1, <2>2, <2>4, <2>5, <2>6 DEF Accounts
<1>9. Short'
  BY <1>1, <1>6 DEF Short
<1>10. FirstTelegrams'
  <2>1. base' + Here' = base + Here
    BY <1>2, <1>5 DEF b
  <2>2. \A t : Continues(t)' = Continues(t)
    BY <1>1 DEF Continues
  <2> QED BY <1>1, <2>1, <2>2 DEF FirstTelegrams
<1> QED BY <1>7, <1>8, <1>9, <1>10 DEF ReceiverIInv

LEMMA FinishStep == ReceiverIInv /\ Finish => ReceiverIInv'
<1> SUFFICES ASSUME ReceiverIInv, Finish PROVE ReceiverIInv'
  OBVIOUS
<1>1. /\ pc = "idle" /\ reported' = reported \cup Span(0, WritePos)
      /\ base' = base + WritePos /\ buf' = << >> /\ covered' = 0 /\ pc' = "done"
      /\ stream' = stream /\ scan' = scan /\ frames' = frames /\ twice' = twice
      /\ ReceiverTypes /\ Accounts /\ FirstTelegrams
  BY DEF Finish, ReceiverIInv
<1>2. /\ Len(buf) \in Nat /\ WritePos = Len(buf) /\ Len(buf) = Len(stream) - base /\ base \in Nat
      /\ Len(stream) \in Nat /\ Here = 0 /\ Here' = 0 /\ scan \in Nat /\ HeaderSize \in Nat
      /\ frames \in Seq(Telegram) /\ stream \in Seq(Bytes)
  BY <1>1, BufferFacts, ByteSizes DEF ReceiverTypes, Here
<1>3. base' = Len(stream)
  BY <1>1, <1>2
<1>4. ReceiverTypes'
  <2>1. SubSeq(stream, Len(stream) + 1, Len(stream)) = << >> /\ Len(<< >>) = 0
    BY <1>2
  <2>2. base' \in 0 .. Len(stream') /\ Here' <= Len(buf') /\ scan' \in Nat
    BY <1>1, <1>2, <1>3, <2>1
  <2>3. covered' \in Nat /\ covered' <= Here' + HeaderSize
    <3>1. 0 <= 0 + HeaderSize
      BY <1>2
    <3> QED BY <1>1, <1>2, <3>1
  <2>4. /\ pc' \in {"idle", "scan", "compact", "done"} /\ base' = Len(stream')
        /\ stream' \in Seq(Bytes) /\ frames' \in Seq(Telegram)
        /\ buf' = SubSeq(stream', base' + 1, Len(stream'))
    BY <1>1, <1>2, <1>3, <2>1
  <2> QED BY <2>2, <2>3, <2>4 DEF ReceiverTypes
<1>5. Accounts'
  <2>1. Delivered' = Delivered
    BY <1>1 DEF Delivered
  <2>2. Span(0, WritePos) = base .. Len(stream) - 1
    BY <1>2, SpanIs
  <2>3. /\ 0 .. base - 1 \subseteq reported \cup Delivered /\ Delivered \subseteq 0 .. base - 1 /\ ~twice
    BY <1>1, <1>2 DEF Accounts
  <2>4. ASSUME NEW x \in 0 .. Len(stream) - 1 PROVE x \in reported' \cup Delivered
    <3>1. x \in 0 .. base - 1 \/ x \in base .. Len(stream) - 1
      BY <1>2, <2>4
    <3> QED BY <1>1, <2>2, <2>3, <3>1
  <2>5. Delivered \subseteq 0 .. Len(stream) - 1
    BY <1>2, <2>3
  <2>6. base' + Here' - 1 = Len(stream) - 1 /\ base' + Here' .. base' + covered' - 1 = {}
    BY <1>1, <1>2, <1>3
  <2> QED BY <1>1, <2>1, <2>3, <2>4, <2>5, <2>6 DEF Accounts
<1>6. Short'
  BY <1>1 DEF Short
<1>7. FirstTelegrams'
  <2>1. TelegramsFrom(stream)[0] = frames \o TelegramsFrom(stream)[base + Here]
    BY <1>1, StreamContinues DEF FirstTelegrams
  <2>2. TelegramsFrom(stream)[base + Here] = << >>
    BY <1>1 DEF FirstTelegrams
  <2>3. frames \o << >> = frames
    BY <1>2
  <2> QED BY <1>1, <2>1, <2>2, <2>3 DEF FirstTelegrams
<1> QED BY <1>4, <1>5, <1>6, <1>7 DEF ReceiverIInv

LEMMA ReceiverKept == ReceiverIInv /\ [ReceiverNext]_receiverVars => ReceiverIInv'
<1> SUFFICES ASSUME ReceiverIInv, [ReceiverNext]_receiverVars PROVE ReceiverIInv'
  OBVIOUS
<1>1. CASE UNCHANGED receiverVars
  <2>1. /\ pc' = pc /\ stream' = stream /\ base' = base /\ buf' = buf /\ scan' = scan /\ covered' = covered
        /\ frames' = frames /\ reported' = reported /\ twice' = twice
    BY <1>1 DEF receiverVars, history
  <2>2. Here' = Here /\ Delivered' = Delivered
    BY <2>1 DEF Here, Delivered
  <2>3. ReceiverTypes'
    BY <2>1, <2>2 DEF ReceiverIInv, ReceiverTypes
  <2>4. Accounts'
    BY <2>1, <2>2 DEF ReceiverIInv, Accounts, Max2
  <2>5. Short'
    BY <2>1 DEF ReceiverIInv, Short
  <2>6. FirstTelegrams'
    BY <2>1, <2>2 DEF ReceiverIInv, FirstTelegrams, Continues
  <2> QED BY <2>3, <2>4, <2>5, <2>6 DEF ReceiverIInv
<1> QED BY <1>1, FeedStep, NoMarkerStep, IncompleteStep, RejectStep, DeliverStep, LoopEndsStep, CompactStep,
           FinishStep DEF ReceiverNext, ReceiverDone

LEMMA ReceiverAlways == ReceiverSpec => []ReceiverIInv
BY ReceiverInitially, ReceiverKept, PTL DEF ReceiverSpec

(* Every byte that has left the buffer is accounted for once, and the buffer
   stays short, however the stream is cut into reads (FrameReceiver::Feed,
   ReportGarbage, Compact and Finish). *)
THEOREM ReceiverCorrect == ReceiverSpec => []ReceiverInv
<1>1. ASSUME ReceiverIInv PROVE ReceiverTypeOK /\ BufferBounded
  BY <1>1 DEF ReceiverIInv, ReceiverTypes, ReceiverTypeOK, Short, BufferBounded
<1>2. ASSUME ReceiverIInv PROVE NoByteLost
  <2> SUFFICES ASSUME pc \in {"idle", "done"} PROVE 0 .. base - 1 \subseteq reported \cup Delivered
    BY DEF NoByteLost
  <2>1. Here = 0 /\ base + Here - 1 = base - 1
    <3>1. base \in Nat
      BY <1>2, BufferFacts DEF ReceiverIInv
    <3> QED BY <3>1 DEF Here
  <2> QED BY <1>2, <2>1 DEF ReceiverIInv, Accounts
<1>3. ASSUME ReceiverIInv PROVE GarbageCountedOnce
  BY <1>3 DEF ReceiverIInv, Accounts, GarbageCountedOnce
<1>4. ASSUME ReceiverIInv PROVE SilenceMeansTelegrams
  <2> SUFFICES ASSUME pc = "done", reported = {} PROVE Delivered = 0 .. Len(stream) - 1
    BY DEF SilenceMeansTelegrams
  <2>1. Here = 0 /\ base + Here - 1 = Len(stream) - 1
    BY <1>4 DEF Here, ReceiverIInv, ReceiverTypes
  <2> QED BY <1>4, <2>1 DEF ReceiverIInv, Accounts
<1>5. ReceiverIInv => ReceiverInv
  BY <1>1, <1>2, <1>3, <1>4 DEF ReceiverInv, BytesAccounted
<1> QED BY <1>5, ReceiverAlways, PTL

(* The telegrams delivered are those of the whole stream, however it was cut
   into reads (FrameReceiver::Feed, FindStx, TryExtractFrame, Compact). *)
THEOREM ChunksCorrect == ReceiverSpec => []ChunksDoNotMatter
<1>1. ASSUME ReceiverIInv PROVE ChunksDoNotMatter
  <2>1. CASE pc = "done"
    BY <1>1, <2>1 DEF ReceiverIInv, FirstTelegrams, ChunksDoNotMatter
  <2>2. CASE pc = "idle"
    <3>1. stream \in Seq(Bytes) /\ Continues(stream)
      BY <1>1, StreamContinues DEF ReceiverIInv
    <3>2. /\ TelegramsFrom(stream)[0] = frames \o TelegramsFrom(stream)[base + Here]
          /\ TelegramsFrom(stream)[base + Here] = << >>
      BY <1>1, <2>2, <3>1 DEF ReceiverIInv, FirstTelegrams
    <3>3. frames \o << >> = frames
      BY <1>1 DEF ReceiverIInv, ReceiverTypes
    <3> QED BY <3>2, <3>3 DEF ChunksDoNotMatter
  <2>3. CASE pc \notin {"idle", "done"}
    BY <2>3 DEF ChunksDoNotMatter
  <2> QED BY <2>1, <2>2, <2>3
<1> QED BY <1>1, ReceiverAlways, PTL

(***************************************************************************)
(* The recorder.                                                           *)
(***************************************************************************)

USE RecorderAssumption

----------------------------------------------------------------------------
(* The inductive invariant. *)

Texts == {"incomplete", "clean", "torn"}

Split == [bin : Seq(Telegrams), csv : Seq(Telegrams), bytes : Nat, binSafe : Nat, csvSafe : Nat,
          json : SUBSET Texts, open : BOOLEAN]

AppendStates == {"append", "writeBin", "writeCsv"}
EndStates == {"leave", "closeQueue", "drain"}
MarkStates == {"cleanSync", "mustRevoke", "revokeWrite", "revokeSync", "closeJson"}
CloseStates == {"syncCsv", "countsWrite", "countsSync", "mayClean", "cleanWrite"} \cup MarkStates
WriterStates ==
    {"none", "poll", "check", "syncBin", "nextSplit", "exit"} \cup AppendStates \cup EndStates \cup CloseStates

RecorderTypes ==
    /\ opc \in {"new", "running", "join", "stopped"}
    /\ ppc \in {"idle", "push", "count", "fail", "refuse", "close"}
    /\ wpc \in WriterStates /\ why \in {"rotate", "final"}
    /\ held \in Telegrams \cup {NoTelegram} /\ offered \in Telegrams \cup {NoTelegram}
    /\ queue \in Seq(Telegrams) /\ Len(queue) <= Capacity
    /\ closed \in BOOLEAN /\ accepting \in BOOLEAN /\ failed \in BOOLEAN
    /\ splits \in Seq(Split)
    /\ sent \in Nat /\ sent <= MaxFrames /\ queued \in Nat /\ written \in Nat /\ dropped \in Nat

(* Where the three threads are, relative to each other and to the files. *)
Places ==
    /\ opc = "new" => wpc = "none" /\ splits = << >> /\ ~closed
    /\ opc \in {"running", "join"} => wpc # "none"
    /\ opc = "stopped" => wpc \in {"none", "exit"}
    /\ opc = "stopped" /\ wpc = "none" => failed
    /\ wpc = "none" => why = "rotate" /\ queue = << >>
    /\ opc # "running" => ppc = "idle"
    /\ wpc # "none" => splits # << >>
    /\ ppc = "push" => offered \in Telegrams /\ offered.id = sent

(* The telegram in the writer's hand, and the end of its loop. *)
Hand ==
    /\ wpc \in {"none", "poll", "check"} => held = NoTelegram
    /\ wpc \in AppendStates \cup {"nextSplit"} => held \in Telegrams
    /\ why = "rotate" /\ wpc \in CloseStates \cup {"syncBin"} => held \in Telegrams
    /\ why = "final" => /\ wpc \in CloseStates \cup {"syncBin", "exit"}
                        /\ closed /\ queue = << >> /\ held = NoTelegram
    /\ wpc = "exit" => why = "final"
    /\ wpc = "drain" => closed
    /\ wpc \in EndStates /\ ~failed => opc = "join" /\ closed /\ queue = << >> /\ held = NoTelegram

(* A failure is known before the recorder refuses anything. *)
Refusals ==
    /\ dropped > 0 => failed
    /\ ppc \in {"refuse", "close"} => failed
    /\ opc = "running" => (accepting /\ ~closed) \/ failed

Durable(s) == s.binSafe = Len(s.bin) /\ s.csvSafe = Len(s.csv) /\ s.bin = s.csv

(* The files of each split. *)
FileOK(k) ==
    LET s == splits[k]
    IN  /\ s.csv = << >> => s.bytes = 0
        /\ MaxBytes # 0 /\ s.bytes > MaxBytes => Len(s.csv) = 1
        /\ "clean" \in s.json => Durable(s)
        /\ \/ s.bin = s.csv
           \/ /\ \E t \in Telegrams : s.bin = Append(s.csv, t)
              /\ failed \/ (k = Len(splits) /\ wpc = "writeCsv")
        /\ ~s.open => failed \/ s.json = {"clean"}
        /\ s.open => k = Len(splits)

Files == \A k \in DOMAIN splits : FileOK(k)

(* The files of the current split, by what the writer is doing. *)
CurrentFiles ==
    /\ wpc \in {"poll", "check"} \cup AppendStates \cup CloseStates => Current.open
    /\ wpc = "syncBin" /\ why = "rotate" => Current.open
    /\ wpc \in {"nextSplit", "exit"} => ~Current.open
    /\ wpc = "writeCsv" => Current.bin = Append(Current.csv, held)
    /\ wpc \in {"poll", "check", "append", "writeBin"} => Current.bin = Current.csv
    /\ wpc \in {"writeBin", "writeCsv"} =>
          Current.csv = << >> \/ MaxBytes = 0 \/ Current.bytes + held.size <= MaxBytes
    /\ wpc \in {"syncCsv", "countsWrite", "countsSync", "mayClean"} =>
          failed \/ Current.binSafe = Len(Current.bin)
    /\ wpc \in {"countsWrite", "countsSync", "mayClean"} =>
          failed \/ Current.csvSafe = Len(Current.csv)
    /\ wpc \in {"cleanWrite", "cleanSync"} => Durable(Current)
    /\ wpc \notin MarkStates \cup {"none"} /\ Current.open => "clean" \notin Current.json
    /\ wpc \in {"mustRevoke", "closeJson"} => failed \/ Current.json = {"clean"}
    /\ wpc \in {"revokeWrite", "revokeSync"} => failed

(* The telegrams are in the order of their numbers, from the files over the
   writer's hand and the queue to the receive thread. *)
Bar == IF ppc = "push" THEN sent ELSE sent + 1

IndexSorted ==
    \A k, l \in DOMAIN splits : \A a \in DOMAIN splits[k].csv : \A b \in DOMAIN splits[l].csv :
        k < l \/ (k = l /\ a < b) => splits[k].csv[a].id < splits[l].csv[b].id

Indexed ==
    {i \in 1 .. MaxFrames :
        \E k \in DOMAIN splits : \E a \in DOMAIN splits[k].csv : splits[k].csv[a].id = i}

Order ==
    /\ IndexSorted /\ \A x \in Indexed : x < Bar
    /\ held # NoTelegram => held.id < Bar /\ \A x \in Indexed : x < held.id
    /\ \A i \in DOMAIN queue : /\ queue[i].id < Bar /\ \A x \in Indexed : x < queue[i].id
                               /\ held # NoTelegram => held.id < queue[i].id
    /\ \A i, j \in DOMAIN queue : i < j => queue[i].id < queue[j].id

(* Every telegram is somewhere, once. *)
Counts ==
    sent = written + dropped + Len(queue)
           + (IF held = NoTelegram THEN 0 ELSE 1) + (IF ppc \in {"push", "fail", "refuse"} THEN 1 ELSE 0)

IInv == RecorderTypes /\ Places /\ Hand /\ Refusals /\ Files /\ CurrentFiles /\ Order /\ Counts

----------------------------------------------------------------------------
(* The steps, one by one. *)

OwnerStep == Start \/ Stop \/ Join
LoopStep == Pop \/ FoundEmpty \/ CheckClosed \/ AppendFrame \/ WriteBin \/ WriteCsv \/ Flush
EndStep == Leave \/ WriterCloses \/ Drain \/ NextSplit

LEMMA NextCases ==
    ASSUME [Next]_vars
    PROVE  OwnerStep \/ Producer \/ LoopStep \/ EndStep \/ Close \/ UNCHANGED vars
BY DEF Next, Writer, Done, OwnerStep, LoopStep, EndStep

(* Replacing the last member of a sequence, and adding one. *)
LEMMA SetLast ==
    ASSUME NEW S, NEW s \in Seq(S), s # << >>, NEW e \in S, NEW t, t = [s EXCEPT ![Len(s)] = e]
    PROVE  /\ t \in Seq(S) /\ Len(t) = Len(s) /\ t # << >>
           /\ DOMAIN t = DOMAIN s /\ t[Len(t)] = e
           /\ \A k \in DOMAIN t : k # Len(s) => t[k] = s[k]
<1>0. Len(s) \in Nat \ {0}
  BY EmptySeq
<1>1. Len(s) \in 1 .. Len(s) /\ DOMAIN s = 1 .. Len(s)
  BY <1>0, LenProperties
<1>2. /\ t \in Seq(S) /\ Len(t) = Len(s)
      /\ \A j \in 1 .. Len(s) : t[j] = IF j = Len(s) THEN e ELSE s[j]
  BY <1>1, ExceptSeq
<1>3. DOMAIN t = 1 .. Len(s)
  BY <1>2, LenProperties
<1>4. t # << >>
  BY <1>0, <1>2, EmptySeq
<1>. QED BY <1>1, <1>2, <1>3, <1>4

LEMMA AddLast ==
    ASSUME NEW S, NEW s \in Seq(S), NEW e \in S, NEW t, t = Append(s, e)
    PROVE  /\ t \in Seq(S) /\ Len(t) = Len(s) + 1 /\ t # << >>
           /\ DOMAIN t = 1 .. Len(s) + 1 /\ t[Len(t)] = e
           /\ DOMAIN s = 1 .. Len(s) /\ Len(s) \in Nat
           /\ \A k \in DOMAIN s : t[k] = s[k]
<1>1. DOMAIN s = 1 .. Len(s) /\ Len(s) \in Nat
  BY LenProperties
<1>2. t \in Seq(S) /\ Len(t) = Len(s) + 1 /\ t # << >> /\ t[Len(s) + 1] = e
      /\ \A k \in 1 .. Len(s) : t[k] = s[k]
  BY AppendProperties
<1>. QED BY <1>1, <1>2, LenProperties

LEMMA TelegramFacts ==
    /\ NoTelegram \notin Telegrams
    /\ \A t \in Telegrams : t.id \in Nat /\ t.size \in Nat /\ t.id > 0
<1>1. \A t \in Telegrams : t.id \in 1 .. MaxFrames /\ t.size \in Sizes
  BY DEF Telegrams
<1>2. NoTelegram.id = 0
  BY DEF NoTelegram
<1>3. \A n \in Sizes : n \in Nat
  OBVIOUS
<1>4. \A i \in 1 .. MaxFrames : i \in Nat /\ i > 0 /\ i # 0
  OBVIOUS
<1>5. NoTelegram \notin Telegrams
  BY <1>1, <1>2, <1>4
<1>. QED BY <1>1, <1>3, <1>4, <1>5

LEMMA NewSplitType ==
    /\ NewSplit \in Split /\ NewSplit.csv = << >> /\ NewSplit.bin = << >> /\ NewSplit.bytes = 0
    /\ NewSplit.json = {"incomplete"} /\ NewSplit.open
<1>1. << >> \in Seq(Telegrams)
  BY EmptySeq
<1>. QED BY <1>1 DEF NewSplit, Split, Texts

(* What may become of the current split: every field the writer can set. *)
LEMMA SplitUpdates ==
    ASSUME NEW s \in Split
    PROVE  /\ BinSynced(s) \in Split /\ CsvSynced(s) \in Split /\ CsvSynced(BinSynced(s)) \in Split
           /\ BinSynced(s) = [s EXCEPT !.binSafe = Len(s.bin)]
           /\ CsvSynced(s) = [s EXCEPT !.csvSafe = Len(s.csv)]
           /\ CsvSynced(BinSynced(s)) = [s EXCEPT !.binSafe = Len(s.bin), !.csvSafe = Len(s.csv)]
           /\ \A t \in Telegrams :
                 /\ [s EXCEPT !.bin = Append(@, t)] \in Split
                 /\ [s EXCEPT !.csv = Append(@, t), !.bytes = @ + t.size] \in Split
           /\ \A j \in SUBSET Texts : [s EXCEPT !.json = j] \in Split
           /\ \A b \in BOOLEAN : [s EXCEPT !.open = b] \in Split
<1>1. s.bin \in Seq(Telegrams) /\ s.csv \in Seq(Telegrams) /\ s.bytes \in Nat
  BY DEF Split
<1>2. Len(s.bin) \in Nat /\ Len(s.csv) \in Nat
  BY <1>1
<1>3. \A t \in Telegrams : /\ Append(s.bin, t) \in Seq(Telegrams) /\ Append(s.csv, t) \in Seq(Telegrams)
                           /\ s.bytes + t.size \in Nat
  BY <1>1, TelegramFacts, AppendProperties
<1>4. BinSynced(s) \in Split /\ BinSynced(s).csv = s.csv
  BY <1>2 DEF BinSynced, Split
<1>5. CsvSynced(s) \in Split
  BY <1>2 DEF CsvSynced, Split
<1>6. CsvSynced(BinSynced(s)) = [s EXCEPT !.binSafe = Len(s.bin), !.csvSafe = Len(s.csv)]
  BY <1>2 DEF BinSynced, CsvSynced, Split
<1>7. CsvSynced(BinSynced(s)) \in Split
  BY <1>6, <1>2 DEF Split
<1>8. \A t \in Telegrams :
         /\ [s EXCEPT !.bin = Append(@, t)] \in Split
         /\ [s EXCEPT !.csv = Append(@, t), !.bytes = @ + t.size] \in Split
  BY <1>3 DEF Split
<1>9. /\ \A j \in SUBSET Texts : [s EXCEPT !.json = j] \in Split
      /\ \A b \in BOOLEAN : [s EXCEPT !.open = b] \in Split
  BY DEF Split
<1>. QED BY <1>4, <1>5, <1>6, <1>7, <1>8, <1>9 DEF BinSynced, CsvSynced

(* The writer works on the current split, and only there. *)
LEMMA CurrentType ==
    ASSUME RecorderTypes, splits # << >>
    PROVE  Current \in Split /\ Len(splits) \in DOMAIN splits /\ DOMAIN splits = 1 .. Len(splits)
<1>1. Len(splits) \in Nat \ {0} /\ DOMAIN splits = 1 .. Len(splits)
  BY EmptySeq, LenProperties DEF RecorderTypes
<1>. QED BY <1>1, ElementOfSeq DEF RecorderTypes, Current

LEMMA CurrentChanges ==
    ASSUME RecorderTypes, splits # << >>, NEW s \in Split, SetCurrent(s)
    PROVE  /\ splits' \in Seq(Split) /\ Len(splits') = Len(splits) /\ splits' # << >>
           /\ DOMAIN splits' = DOMAIN splits /\ Current' = s
           /\ \A k \in DOMAIN splits' : k # Len(splits) => splits'[k] = splits[k]
BY SetLast DEF RecorderTypes, SetCurrent, Current

(* The sets of states, spelled out. *)
USE DEF AppendStates, EndStates, MarkStates, CloseStates

(* What each step of the writer makes of the current split. *)
LEMMA WriteBinFiles ==
    ASSUME WriteBin
    PROVE  splits' = splits \/ SetCurrent([Current EXCEPT !.bin = Append(@, held)])
BY DEF WriteBin, SetCurrent, Current

LEMMA FlushFiles ==
    ASSUME Flush
    PROVE  \/ splits' = splits \/ SetCurrent(BinSynced(Current))
           \/ SetCurrent(CsvSynced(BinSynced(Current)))
BY DEF Flush, SetCurrent, Current

LEMMA SyncCsvFiles ==
    ASSUME SyncCsv
    PROVE  \/ SetCurrent(CsvSynced(Current)) /\ failed' \in {failed, TRUE}
           \/ splits' = splits /\ failed' = TRUE
BY DEF SyncCsv, SetCurrent, Current, Going, Failing

----------------------------------------------------------------------------
(* Types. *)

(* No step removes a split, and only WriteCsv changes an index. *)
IndexKept ==
    \A k \in DOMAIN splits' :
        splits'[k].csv = << >> \/ (k \in DOMAIN splits /\ splits'[k].csv = splits[k].csv)

SplitsKept ==
    splits' \in Seq(Split) /\ (wpc # "none" => splits' # << >>) /\ (WriteCsv \/ IndexKept)

LEMMA SplitsStep ==
    ASSUME RecorderTypes, Places, Hand, [Next]_vars
    PROVE  SplitsKept
<1>0. ASSUME splits' = splits PROVE SplitsKept
  BY <1>0 DEF RecorderTypes, Places, SplitsKept, IndexKept
<1>1. ASSUME wpc # "none", NEW s \in Split, SetCurrent(s), WriteCsv \/ s.csv = Current.csv
      PROVE  SplitsKept
  <2>1. splits # << >> /\ Len(splits) \in DOMAIN splits
    BY <1>1, CurrentType DEF Places
  <2>2. splits' \in Seq(Split) /\ splits' # << >>
    BY <1>1, <2>1, CurrentChanges
  <2>3. ASSUME s.csv = Current.csv, NEW k \in DOMAIN splits'
        PROVE  k \in DOMAIN splits /\ splits'[k].csv = splits[k].csv
    <3>1. /\ Len(splits') = Len(splits) /\ DOMAIN splits' = DOMAIN splits /\ Current' = s
          /\ k # Len(splits) => splits'[k] = splits[k]
      BY <1>1, <2>1, CurrentChanges
    <3>. QED BY <2>3, <3>1 DEF Current
  <2>. QED BY <1>1, <2>2, <2>3 DEF SplitsKept, IndexKept
<1>2. ASSUME wpc # "none"
      PROVE  Current \in Split
  BY <1>2, CurrentType DEF Places
<1>3. CASE Start
  <2>0. \A s \in Split : s.csv = << >> => /\ <<s>> \in Seq(Split)
                                          /\ \A k \in DOMAIN <<s>> : <<s>>[k].csv = << >>
    OBVIOUS
  <2>1. /\ NewSplit \in Split /\ [NewSplit EXCEPT !.open = FALSE] \in Split
        /\ [NewSplit EXCEPT !.open = FALSE].csv = << >>
    BY NewSplitType, SplitUpdates DEF Split
  <2>2. /\ [NewSplit EXCEPT !.open = FALSE, !.json = {"incomplete", "torn"}] \in Split
        /\ [NewSplit EXCEPT !.open = FALSE, !.json = {"incomplete", "torn"}].csv = << >>
    BY <2>1, SplitUpdates DEF Texts, Split
  <2>3. << >> \in Seq(Split) /\ DOMAIN << >> = {}
    BY EmptySeq
  <2>4. wpc = "none"
    BY <1>3 DEF Start, Places
  <2>5. \/ splits' = << >>
        \/ \E s \in Split : s.csv = << >> /\ splits' = <<s>>
    BY <1>3, <2>1, <2>2, NewSplitType DEF Start
  <2>. QED BY <2>0, <2>3, <2>4, <2>5 DEF SplitsKept, IndexKept
<1>4. CASE Stop \/ Join \/ Producer \/ UNCHANGED vars
  BY <1>0, <1>4 DEF Stop, Join, Producer, OnFrame, TryPush, CountQueued, PushFails, Refuse,
     CloseQueue, writerFrame, vars
<1>5. CASE Pop \/ FoundEmpty \/ CheckClosed \/ AppendFrame \/ Leave \/ WriterCloses \/ Drain
  BY <1>0, <1>5 DEF Pop, FoundEmpty, CheckClosed, AppendFrame, Leave, WriterCloses, Drain
<1>6. CASE WriteBin
  <2>1. /\ [Current EXCEPT !.bin = Append(@, held)] \in Split
        /\ [Current EXCEPT !.bin = Append(@, held)].csv = Current.csv
    BY <1>2, <1>6, SplitUpdates DEF WriteBin, Hand, Split
  <2>. QED BY <1>0, <1>1, <1>6, <2>1, WriteBinFiles DEF WriteBin
<1>7. CASE WriteCsv
  <2>1. [Current EXCEPT !.csv = Append(@, held), !.bytes = @ + held.size] \in Split
    BY <1>2, <1>7, SplitUpdates DEF WriteCsv, Hand
  <2>. QED BY <1>0, <1>1, <1>7, <2>1 DEF WriteCsv
<1>8. CASE Flush \/ SyncBin \/ SyncCsv
  <2>1. Current \in Split
    BY <1>2, <1>8 DEF Flush, SyncBin, SyncCsv
  <2>2. /\ BinSynced(Current) \in Split /\ BinSynced(Current).csv = Current.csv
        /\ CsvSynced(Current) \in Split /\ CsvSynced(Current).csv = Current.csv
        /\ CsvSynced(BinSynced(Current)) \in Split /\ CsvSynced(BinSynced(Current)).csv = Current.csv
    BY <2>1, SplitUpdates DEF BinSynced, CsvSynced, Split
  <2>3. wpc # "none"
    BY <1>8 DEF Flush, SyncBin, SyncCsv
  <2>. QED BY <1>0, <1>1, <1>8, <2>2, <2>3, FlushFiles, SyncCsvFiles DEF SyncBin
<1>10. CASE CountsWrite \/ CleanWrite \/ RevokeWrite
  <2>1. wpc # "none"
    BY <1>10 DEF CountsWrite, CleanWrite, RevokeWrite, MetadataWrite
  <2>2. Current.json \subseteq Texts
    BY <1>2, <2>1 DEF Split
  <2>3. \A text \in Texts : /\ [Current EXCEPT !.json = @ \cup {text, "torn"}] \in Split
                            /\ [Current EXCEPT !.json = @ \cup {text, "torn"}].csv = Current.csv
    BY <1>2, <2>1, <2>2, SplitUpdates DEF Texts, Split
  <2>. QED BY <1>1, <1>10, <2>1, <2>3
           DEF CountsWrite, CleanWrite, RevokeWrite, MetadataWrite, Texts
<1>11. CASE CountsSync \/ CleanSync \/ RevokeSync
  <2>1. wpc # "none"
    BY <1>11 DEF CountsSync, CleanSync, RevokeSync, MetadataSync
  <2>2. \A text \in Texts : /\ [Current EXCEPT !.json = {text}] \in Split
                            /\ [Current EXCEPT !.json = {text}].csv = Current.csv
    BY <1>2, <2>1, SplitUpdates DEF Texts, Split
  <2>. QED BY <1>0, <1>1, <1>11, <2>1, <2>2
           DEF CountsSync, CleanSync, RevokeSync, MetadataSync, Texts
<1>12. CASE MayClean \/ MustRevoke \/ NothingOpen
  BY <1>0, <1>12 DEF MayClean, MustRevoke, NothingOpen
<1>13. CASE CloseJson
  <2>1. [Current EXCEPT !.open = FALSE] \in Split /\ [Current EXCEPT !.open = FALSE].csv = Current.csv
    BY <1>2, <1>13, SplitUpdates DEF CloseJson, Split
  <2>. QED BY <1>1, <1>13, <2>1 DEF CloseJson
<1>14. CASE NextSplit
  <2>1. CASE splits' = Append(splits, NewSplit)
    <3>1. splits \in Seq(Split) /\ NewSplit \in Split /\ NewSplit.csv = << >>
      BY NewSplitType DEF RecorderTypes
    <3>2. /\ splits' \in Seq(Split) /\ splits' # << >> /\ DOMAIN splits' = 1 .. Len(splits) + 1
          /\ splits'[Len(splits) + 1] = NewSplit /\ Len(splits) \in Nat
          /\ DOMAIN splits = 1 .. Len(splits)
          /\ \A k \in DOMAIN splits : splits'[k] = splits[k]
      BY <2>1, <3>1, AddLast
    <3>. QED BY <3>1, <3>2 DEF SplitsKept, IndexKept
  <2>. QED BY <1>0, <1>14, <2>1 DEF NextSplit
<1>. QED BY <1>3, <1>4, <1>5, <1>6, <1>7, <1>8, <1>10, <1>11, <1>12, <1>13, <1>14, NextCases
         DEF OwnerStep, LoopStep, EndStep, Close

LEMMA QueueTypeStep ==
    ASSUME RecorderTypes, Places, [Next]_vars
    PROVE  queue' \in Seq(Telegrams) /\ Len(queue') <= Capacity
<1>0. queue \in Seq(Telegrams) /\ Len(queue) <= Capacity /\ Len(queue) \in Nat
  BY LenProperties DEF RecorderTypes
<1>1. ASSUME queue # << >>, queue' = Tail(queue)
      PROVE  queue' \in Seq(Telegrams) /\ Len(queue') <= Capacity
  <2>1. Tail(queue) \in Seq(Telegrams) /\ Len(Tail(queue)) = Len(queue) - 1
    BY <1>0, <1>1, HeadTailProperties
  <2>. QED BY <1>0, <1>1, <2>1
<1>2. CASE OwnerStep \/ Close \/ UNCHANGED vars
  BY <1>0, <1>2 DEF OwnerStep, Start, Stop, Join, Close, NothingOpen, SyncBin, SyncCsv, CountsWrite,
     CountsSync, MayClean, CleanWrite, CleanSync, MustRevoke, RevokeWrite, RevokeSync, CloseJson,
     MetadataWrite, MetadataSync, closeFrame, queueVars, vars
<1>3. CASE Producer
  <2>1. CASE TryPush
    <3>1. ASSUME offered \in Telegrams, Len(queue) < Capacity
          PROVE  Append(queue, offered) \in Seq(Telegrams) /\ Len(Append(queue, offered)) <= Capacity
      <4>1. Append(queue, offered) \in Seq(Telegrams) /\ Len(Append(queue, offered)) = Len(queue) + 1
        BY <1>0, <3>1, AppendProperties
      <4>. QED BY <1>0, <3>1, <4>1
    <3>. QED BY <1>0, <2>1, <3>1 DEF TryPush, Places
  <2>2. CASE OnFrame \/ CountQueued \/ PushFails \/ Refuse \/ CloseQueue
    BY <1>0, <2>2 DEF OnFrame, CountQueued, PushFails, Refuse, CloseQueue, queueVars
  <2>. QED BY <1>3, <2>1, <2>2 DEF Producer
<1>4. CASE Pop
  BY <1>1, <1>4 DEF Pop
<1>5. CASE Drain
  BY <1>0, <1>1, <1>5 DEF Drain
<1>6. CASE FoundEmpty \/ CheckClosed \/ AppendFrame \/ WriteBin \/ WriteCsv \/ Flush
  BY <1>0, <1>6 DEF FoundEmpty, CheckClosed, AppendFrame, WriteBin, WriteCsv, Flush, queueVars
<1>7. CASE Leave \/ WriterCloses \/ NextSplit
  BY <1>0, <1>7 DEF Leave, WriterCloses, NextSplit, closeFrame, queueVars
<1>. QED BY <1>2, <1>3, <1>4, <1>5, <1>6, <1>7, NextCases DEF LoopStep, EndStep

(* What the steps of CloseSplit leave alone. *)
LEMMA CloseMoves ==
    ASSUME Close \/ NextSplit
    PROVE  UNCHANGED <<opc, ppc, offered, sent, queued, held, why, queue, closed, accepting, written, dropped>>
BY DEF Close, NothingOpen, SyncBin, SyncCsv, CountsWrite, CountsSync, MayClean, CleanWrite,
   CleanSync, MustRevoke, RevokeWrite, RevokeSync, CloseJson, NextSplit, MetadataWrite, MetadataSync,
   closeFrame, producerFrame, queueVars

(* Where they go. *)
LEMMA CloseGoes ==
    ASSUME Close
    PROVE  /\ wpc \in CloseStates \cup {"syncBin"}
           /\ wpc' \in CloseStates \cup {"exit", "nextSplit"}
           /\ failed' \in {failed, TRUE}
           /\ wpc' = "exit" => why = "final" \/ (wpc = "syncBin" /\ ~Current.open) \/ splits = << >>
           /\ wpc' = "nextSplit" => why # "final"
<1>. USE DEF Going, Failing
<1>1. CASE NothingOpen \/ SyncBin \/ SyncCsv \/ MayClean \/ MustRevoke
  BY <1>1 DEF NothingOpen, SyncBin, SyncCsv, MayClean, MustRevoke
<1>2. CASE CountsWrite \/ CountsSync \/ CleanWrite \/ CleanSync \/ RevokeWrite \/ RevokeSync
  BY <1>2 DEF CountsWrite, CountsSync, CleanWrite, CleanSync, RevokeWrite, RevokeSync, MetadataWrite,
     MetadataSync
<1>3. CASE CloseJson
  BY <1>3 DEF CloseJson
<1>. QED BY <1>1, <1>2, <1>3 DEF Close

LEMMA TypesStep ==
    ASSUME RecorderTypes, Places, Hand, [Next]_vars
    PROVE  RecorderTypes'
<1>. USE DEF RecorderTypes
<1>0. splits' \in Seq(Split) /\ queue' \in Seq(Telegrams) /\ Len(queue') <= Capacity
  BY SplitsStep, QueueTypeStep DEF SplitsKept
<1>1. CASE OwnerStep
  <2>1. /\ opc' \in {"running", "join", "stopped"} /\ wpc' \in {wpc, "poll"}
        /\ accepting' \in BOOLEAN /\ closed' \in BOOLEAN /\ failed' \in BOOLEAN
        /\ UNCHANGED <<ppc, offered, held, why, sent, queued, written, dropped>>
    BY <1>1 DEF OwnerStep, Start, Stop, Join, queueVars, counters
  <2>. QED BY <1>0, <2>1 DEF WriterStates
<1>2. CASE Producer
  <2>1. CASE OnFrame
    <3>1. \A n \in Sizes : sent < MaxFrames => [id |-> sent + 1, size |-> n] \in Telegrams
      BY DEF Telegrams
    <3>. QED BY <1>0, <2>1, <3>1 DEF OnFrame, writerFrame, queueVars
  <2>2. CASE TryPush \/ CloseQueue
    BY <1>0, <2>2 DEF TryPush, CloseQueue, writerFrame
  <2>3. CASE CountQueued \/ PushFails \/ Refuse
    <3>1. /\ ppc' \in {"idle", "refuse", "close"} /\ queued' \in {queued, queued + 1}
          /\ dropped' \in {dropped, dropped + 1}
          /\ accepting' \in {accepting, FALSE} /\ failed' \in {failed, TRUE}
          /\ UNCHANGED <<opc, wpc, held, why, written, offered, closed, sent>>
      BY <2>3 DEF CountQueued, PushFails, Refuse, writerFrame, queueVars
    <3>2. accepting' \in BOOLEAN /\ failed' \in BOOLEAN
      BY <3>1
    <3>3. queued' \in Nat /\ dropped' \in Nat
      BY <3>1
    <3>. QED BY <1>0, <3>1, <3>2, <3>3
  <2>. QED BY <1>2, <2>1, <2>2, <2>3 DEF Producer
<1>3. CASE LoopStep
  <2>. USE DEF producerFrame, queueVars
  <2>0. wpc' \in WriterStates /\ failed' \in BOOLEAN
    BY <1>3 DEF LoopStep, Pop, FoundEmpty, CheckClosed, AppendFrame, WriteBin, WriteCsv, Flush,
       Going, Failing, WriterStates
  <2>1. CASE Pop
    <3>1. Head(queue) \in Telegrams
      BY <2>1, HeadTailProperties DEF Pop
    <3>. QED BY <1>0, <2>0, <2>1, <3>1 DEF Pop
  <2>2. CASE FoundEmpty \/ CheckClosed \/ AppendFrame
    BY <1>0, <2>0, <2>2 DEF FoundEmpty, CheckClosed, AppendFrame
  <2>3. CASE WriteBin \/ WriteCsv \/ Flush
    <3>1. written' \in Nat /\ held' \in {held, NoTelegram}
      BY <2>3 DEF WriteBin, WriteCsv, Flush
    <3>2. UNCHANGED <<opc, ppc, offered, sent, queued, why, closed, accepting, dropped>>
      BY <2>3 DEF WriteBin, WriteCsv, Flush
    <3>. QED BY <1>0, <2>0, <3>1, <3>2
  <2>. QED BY <1>3, <2>1, <2>2, <2>3 DEF LoopStep
<1>4. CASE Leave \/ WriterCloses \/ Drain
  <2>1. /\ wpc' \in WriterStates /\ why' \in {why, "final"} /\ held' \in {held, NoTelegram}
        /\ accepting' \in {accepting, FALSE} /\ closed' \in {closed, TRUE}
        /\ dropped' \in {dropped, dropped + 1}
    BY <1>4 DEF Leave, WriterCloses, Drain, queueVars, WriterStates
  <2>2. UNCHANGED <<opc, ppc, offered, sent, queued, failed, written>>
    BY <1>4 DEF Leave, WriterCloses, Drain, producerFrame
  <2>3. accepting' \in BOOLEAN /\ closed' \in BOOLEAN
    BY <2>1
  <2>4. dropped' \in Nat
    BY <2>1
  <2>. QED BY <1>0, <2>1, <2>2, <2>3, <2>4
<1>5. CASE NextSplit
  BY <1>0, <1>5, CloseMoves DEF NextSplit, Going, Failing, WriterStates
<1>6. CASE Close
  <2>1. wpc' \in WriterStates /\ failed' \in BOOLEAN
    BY <1>6, CloseGoes DEF WriterStates
  <2>. QED BY <1>0, <1>6, <2>1, CloseMoves
<1>7. CASE UNCHANGED vars
  BY <1>7 DEF vars, queueVars, counters
<1>. QED BY <1>1, <1>2, <1>3, <1>4, <1>5, <1>6, <1>7, NextCases DEF EndStep

----------------------------------------------------------------------------
(* Control. *)

LEMMA PlacesStep ==
    ASSUME RecorderTypes, Places, Hand, [Next]_vars
    PROVE  Places'
<1>. USE DEF Places
<1>0. failed \in BOOLEAN /\ sent \in Nat /\ (wpc # "none" => splits' # << >>)
  BY SplitsStep DEF RecorderTypes, SplitsKept
<1>1. CASE Start
  <2>1. <<NewSplit>> # << >>
    OBVIOUS
  <2>. QED BY <1>1, <2>1 DEF Start, counters
<1>2. CASE Stop \/ Join
  BY <1>2 DEF Stop, Join, counters
<1>3. CASE Producer
  <2>1. CASE OnFrame
    <3>1. \A n \in Sizes : sent < MaxFrames => /\ [id |-> sent + 1, size |-> n] \in Telegrams
                                               /\ [id |-> sent + 1, size |-> n].id = sent + 1
      BY <1>0 DEF Telegrams
    <3>. QED BY <2>1, <3>1 DEF OnFrame, writerFrame
  <2>2. CASE TryPush \/ CountQueued \/ PushFails \/ Refuse \/ CloseQueue
    BY <2>2 DEF TryPush, CountQueued, PushFails, Refuse, CloseQueue, writerFrame
  <2>. QED BY <1>3, <2>1, <2>2 DEF Producer
<1>4. ASSUME wpc \notin {"none", "exit"}, wpc' # "none", UNCHANGED <<opc, ppc, offered, sent>>
      PROVE  Places'
  BY <1>0, <1>4 DEF RecorderTypes
<1>5. CASE LoopStep \/ Leave \/ WriterCloses \/ Drain
  BY <1>4, <1>5 DEF LoopStep, Pop, FoundEmpty, CheckClosed, AppendFrame, WriteBin, WriteCsv, Flush,
     Leave, WriterCloses, Drain, Going, Failing, producerFrame
<1>6. CASE NextSplit \/ Close
  BY <1>4, <1>6, CloseMoves, CloseGoes DEF NextSplit, Going, Failing
<1>7. CASE UNCHANGED vars
  BY <1>7 DEF vars, counters, queueVars
<1>. QED BY <1>1, <1>2, <1>3, <1>5, <1>6, <1>7, NextCases DEF OwnerStep, EndStep

LEMMA HandStep ==
    ASSUME RecorderTypes, Places, Hand, Refusals, CurrentFiles, [Next]_vars
    PROVE  Hand'
<1>. USE DEF Hand
<1>0. /\ wpc \in WriterStates /\ why \in {"rotate", "final"}
      /\ held \in Telegrams \cup {NoTelegram} /\ queue \in Seq(Telegrams) /\ failed \in BOOLEAN
  BY DEF RecorderTypes
<1>1. CASE Start
  BY <1>1 DEF Start, Places
<1>2. CASE Stop \/ Join
  BY <1>2 DEF Stop, Join, queueVars, Places
<1>3. CASE Producer
  <2>1. CASE TryPush
    BY <2>1 DEF TryPush, writerFrame, Places
  <2>2. CASE OnFrame \/ CountQueued \/ PushFails \/ Refuse
    BY <2>2 DEF OnFrame, CountQueued, PushFails, Refuse, writerFrame, queueVars, Places
  <2>3. CASE CloseQueue
    BY <2>3 DEF CloseQueue, writerFrame
  <2>. QED BY <1>3, <2>1, <2>2, <2>3 DEF Producer
<1>4. CASE LoopStep
  <2>0. why = "rotate"
    BY <1>0, <1>4 DEF LoopStep, Pop, FoundEmpty, CheckClosed, AppendFrame, WriteBin, WriteCsv, Flush
  <2>1. CASE Pop
    <3>1. Head(queue) \in Telegrams
      BY <1>0, <2>1, HeadTailProperties DEF Pop
    <3>. QED BY <2>0, <2>1, <3>1 DEF Pop
  <2>2. CASE FoundEmpty \/ AppendFrame
    BY <2>0, <2>2 DEF FoundEmpty, AppendFrame
  <2>3. CASE CheckClosed
    <3>1. closed /\ ~failed => opc = "join"
      BY <2>3 DEF CheckClosed, Refusals, Places, RecorderTypes
    <3>. QED BY <2>0, <2>3, <3>1 DEF CheckClosed, producerFrame, queueVars
  <2>4. CASE WriteBin \/ WriteCsv \/ Flush
    BY <2>0, <2>4 DEF WriteBin, WriteCsv, Flush, Going, Failing
  <2>. QED BY <1>4, <2>1, <2>2, <2>3, <2>4 DEF LoopStep
<1>5. CASE Leave \/ WriterCloses
  BY <1>0, <1>5 DEF Leave, WriterCloses, producerFrame, queueVars
<1>6. CASE Drain
  <2>0. why = "rotate"
    BY <1>0, <1>6 DEF Drain
  <2>. QED BY <2>0, <1>6 DEF Drain, producerFrame
<1>7. CASE NextSplit
  <2>0. why = "rotate"
    BY <1>0, <1>7 DEF NextSplit
  <2>. QED BY <2>0, <1>7, CloseMoves DEF NextSplit, Going, Failing
<1>8. CASE Close
  <2>1. UNCHANGED <<opc, held, why, queue, closed>>
    BY <1>8, CloseMoves
  <2>2. wpc' = "exit" => why = "final"
    BY <1>0, <1>8, CloseGoes DEF CurrentFiles, Places
  <2>3. wpc \in CloseStates \cup {"syncBin"} /\ wpc' \in CloseStates \cup {"exit", "nextSplit"}
        /\ (wpc' = "nextSplit" => why # "final")
    BY <1>8, CloseGoes
  <2>. QED BY <1>0, <2>1, <2>2, <2>3
<1>9. CASE UNCHANGED vars
  BY <1>9 DEF vars, queueVars
<1>. QED BY <1>1, <1>2, <1>3, <1>4, <1>5, <1>6, <1>7, <1>8, <1>9, NextCases DEF OwnerStep, EndStep

LEMMA RefusalsStep ==
    ASSUME RecorderTypes, Places, Hand, Refusals, [Next]_vars
    PROVE  Refusals'
<1>. USE DEF Refusals
<1>0. dropped \in Nat /\ failed \in BOOLEAN
  BY DEF RecorderTypes
<1>1. CASE OwnerStep
  <2>1. CASE Start
    <3>1. ~closed /\ ppc = "idle" /\ UNCHANGED <<ppc, dropped>>
      BY <2>1 DEF Start, counters, Places
    <3>2. \/ opc' = "running" /\ accepting' = TRUE /\ UNCHANGED <<failed, closed>>
          \/ opc' = "stopped" /\ failed' = TRUE
      BY <2>1 DEF Start
    <3>. QED BY <1>0, <3>1, <3>2
  <2>2. CASE Stop \/ Join
    BY <1>0, <2>2 DEF Stop, Join, queueVars, counters, Places
  <2>. QED BY <1>1, <2>1, <2>2 DEF OwnerStep
<1>2. CASE Producer
  BY <1>0, <1>2 DEF Producer, OnFrame, TryPush, CountQueued, PushFails, Refuse, CloseQueue,
     writerFrame, queueVars
<1>3. CASE LoopStep
  BY <1>0, <1>3 DEF LoopStep, Pop, FoundEmpty, CheckClosed, AppendFrame, WriteBin, WriteCsv, Flush,
     Going, Failing, producerFrame, queueVars
<1>4. CASE Leave \/ WriterCloses \/ Drain
  BY <1>0, <1>4 DEF Leave, WriterCloses, Drain, producerFrame, queueVars, Hand
<1>5. CASE NextSplit \/ Close
  <2>1. failed' \in {failed, TRUE}
    BY <1>5, CloseGoes DEF NextSplit, Going, Failing
  <2>2. UNCHANGED <<opc, ppc, closed, accepting, dropped>>
    BY <1>5, CloseMoves
  <2>. QED BY <1>0, <2>1, <2>2
<1>6. CASE UNCHANGED vars
  BY <1>6 DEF vars, queueVars, counters
<1>. QED BY <1>1, <1>2, <1>3, <1>4, <1>5, <1>6, NextCases DEF EndStep

(* No telegram is lost or counted twice. *)
LEMMA CountsStep ==
    ASSUME RecorderTypes, Places, Hand, Counts, [Next]_vars
    PROVE  Counts'
<1>. USE DEF Counts
<1>0. /\ sent \in Nat /\ written \in Nat /\ dropped \in Nat /\ queue \in Seq(Telegrams)
      /\ Len(queue) \in Nat /\ NoTelegram \notin Telegrams
  BY LenProperties, TelegramFacts DEF RecorderTypes
<1>1. ASSUME queue # << >> PROVE Len(Tail(queue)) = Len(queue) - 1 /\ Head(queue) \in Telegrams
  BY <1>0, <1>1, HeadTailProperties
<1>2. CASE OwnerStep
  BY <1>2 DEF OwnerStep, Start, Stop, Join, queueVars, counters
<1>3. CASE Producer
  <2>1. CASE OnFrame
    BY <1>0, <2>1 DEF OnFrame, writerFrame, queueVars
  <2>2. CASE TryPush
    <3>1. Len(Append(queue, offered)) = Len(queue) + 1
      BY <1>0, <2>2, AppendProperties DEF TryPush, Places
    <3>. QED BY <1>0, <2>2, <3>1 DEF TryPush, writerFrame
  <2>3. CASE CountQueued \/ PushFails \/ Refuse \/ CloseQueue
    BY <1>0, <2>3 DEF CountQueued, PushFails, Refuse, CloseQueue, writerFrame, queueVars
  <2>. QED BY <1>3, <2>1, <2>2, <2>3 DEF Producer
<1>4. CASE LoopStep
  <2>1. CASE Pop
    BY <1>0, <1>1, <2>1 DEF Pop, producerFrame, Hand
  <2>2. CASE FoundEmpty \/ CheckClosed \/ AppendFrame \/ WriteBin \/ Flush
    BY <2>2 DEF FoundEmpty, CheckClosed, AppendFrame, WriteBin, Flush, producerFrame, queueVars
  <2>3. CASE WriteCsv
    <3>1. held # NoTelegram /\ queue' = queue /\ UNCHANGED <<ppc, sent, dropped>>
      BY <1>0, <2>3 DEF WriteCsv, producerFrame, queueVars, Hand
    <3>2. \/ written' = written + 1 /\ held' = NoTelegram
          \/ UNCHANGED <<written, held>>
      BY <2>3 DEF WriteCsv
    <3>. QED BY <1>0, <3>1, <3>2
  <2>. QED BY <1>4, <2>1, <2>2, <2>3 DEF LoopStep
<1>5. CASE Leave \/ WriterCloses
  BY <1>5 DEF Leave, WriterCloses, producerFrame, queueVars
<1>6. CASE Drain
  BY <1>0, <1>1, <1>6 DEF Drain, producerFrame
<1>7. CASE NextSplit \/ Close
  BY <1>7, CloseMoves
<1>8. CASE UNCHANGED vars
  BY <1>8 DEF vars, queueVars, counters
<1>. QED BY <1>2, <1>3, <1>4, <1>5, <1>6, <1>7, <1>8, NextCases DEF EndStep

----------------------------------------------------------------------------
(* Order. *)

LEMMA IndexTypes ==
    ASSUME RecorderTypes, NEW k \in DOMAIN splits, NEW a \in DOMAIN splits[k].csv
    PROVE  splits[k].csv[a] \in Telegrams /\ splits[k].csv[a].id \in Indexed
<1>1. splits[k] \in Split
  BY ElementOfSeq, LenProperties DEF RecorderTypes
<1>2. splits[k].csv \in Seq(Telegrams)
  BY <1>1 DEF Split
<1>3. splits[k].csv[a] \in Telegrams
  BY <1>2, ElementOfSeq, LenProperties
<1>4. splits[k].csv[a].id \in 1 .. MaxFrames
  BY <1>3 DEF Telegrams
<1>. QED BY <1>3, <1>4 DEF Indexed

LEMMA IndexKeptOrder ==
    ASSUME RecorderTypes, IndexSorted, IndexKept
    PROVE  IndexSorted' /\ Indexed' \subseteq Indexed
<1>1. DOMAIN << >> = {}
  BY EmptySeq, LenProperties
<1>2. \A k \in DOMAIN splits' : \A a \in DOMAIN splits'[k].csv :
         k \in DOMAIN splits /\ splits'[k].csv = splits[k].csv /\ a \in DOMAIN splits[k].csv
  BY <1>1 DEF IndexKept
<1>3. IndexSorted'
  BY <1>2 DEF IndexSorted
<1>. QED BY <1>2, <1>3 DEF Indexed

LEMMA OrderStep ==
    ASSUME RecorderTypes, Places, Hand, CurrentFiles, Order, [Next]_vars, RecorderTypes'
    PROVE  Order'
<1>0. /\ sent \in Nat /\ queue \in Seq(Telegrams) /\ Len(queue) \in Nat
      /\ DOMAIN queue = 1 .. Len(queue) /\ held \in Telegrams \cup {NoTelegram}
      /\ Indexed \subseteq Nat /\ NoTelegram \notin Telegrams
      /\ \A i \in DOMAIN queue : queue[i] \in Telegrams /\ queue[i].id \in Nat
  BY LenProperties, ElementOfSeq, TelegramFacts DEF RecorderTypes, Indexed
<1>1. held # NoTelegram => held.id \in Nat
  BY <1>0, TelegramFacts
<1>2. Bar \in Nat
  BY <1>0 DEF Bar
<1>2a. \A x \in Indexed : x \in Nat /\ x < Bar
  BY DEF Order, Indexed
<1>3. WriteCsv \/ (IndexSorted' /\ Indexed' \subseteq Indexed)
  BY SplitsStep, IndexKeptOrder DEF SplitsKept, Order
<1>4. ASSUME queue # << >>
      PROVE  /\ Head(queue) = queue[1] /\ 1 \in DOMAIN queue
             /\ DOMAIN Tail(queue) = 1 .. Len(queue) - 1
             /\ \A i \in DOMAIN Tail(queue) : /\ i + 1 \in DOMAIN queue /\ Tail(queue)[i] = queue[i + 1]
                                              /\ i + 1 > 1
  <2>1. Len(queue) \in Nat \ {0}
    BY <1>0, <1>4, EmptySeq
  <2>2. /\ Tail(queue) \in Seq(Telegrams) /\ Len(Tail(queue)) = Len(queue) - 1
        /\ \A i \in 1 .. Len(Tail(queue)) : Tail(queue)[i] = queue[i + 1]
    BY <1>0, <1>4, HeadTailProperties
  <2>3. DOMAIN Tail(queue) = 1 .. Len(queue) - 1
    BY <2>2, LenProperties
  <2>. QED BY <1>0, <2>1, <2>2, <2>3
<1>5. ASSUME ~WriteCsv, UNCHANGED queue, held' \in {held, NoTelegram}, Bar' \in Nat, Bar' >= Bar
      PROVE  Order'
  <2>1. IndexSorted' /\ Indexed' \subseteq Indexed
    BY <1>3, <1>5
  <2>2. \A x \in Indexed' : x < Bar'
    BY <1>2, <1>2a, <1>5, <2>1
  <2>3. held' # NoTelegram => held'.id < Bar' /\ \A x \in Indexed' : x < held'.id
    BY <1>1, <1>2, <1>5, <2>1 DEF Order
  <2>4. ASSUME NEW i \in DOMAIN queue'
        PROVE  /\ queue'[i].id < Bar' /\ \A x \in Indexed' : x < queue'[i].id
               /\ held' # NoTelegram => held'.id < queue'[i].id
    <3>1. queue'[i] = queue[i] /\ i \in DOMAIN queue
      BY <1>5
    <3>2. queue'[i].id < Bar'
      BY <1>0, <1>2, <1>5, <3>1 DEF Order
    <3>. QED BY <1>5, <2>1, <3>1, <3>2 DEF Order
  <2>5. \A i, j \in DOMAIN queue' : i < j => queue'[i].id < queue'[j].id
    BY <1>5 DEF Order
  <2>. QED BY <2>1, <2>2, <2>3, <2>4, <2>5 DEF Order
<1>6. ASSUME UNCHANGED <<ppc, sent>>
      PROVE  Bar' = Bar
  BY <1>6 DEF Bar
<1>7. CASE OwnerStep
  <2>1. UNCHANGED <<queue, held, ppc, sent>> /\ ~WriteCsv
    BY <1>7 DEF OwnerStep, Start, Stop, Join, WriteCsv, producerFrame, queueVars, counters, Places
  <2>. QED BY <1>2, <1>5, <1>6, <2>1
<1>8. CASE Producer
  <2>0. UNCHANGED held /\ ~WriteCsv
    BY <1>0, <1>8 DEF Producer, OnFrame, TryPush, CountQueued, PushFails, Refuse, CloseQueue,
       WriteCsv, writerFrame, producerFrame
  <2>1. CASE OnFrame
    <3>1. Bar' \in Nat /\ Bar' >= Bar /\ UNCHANGED queue
      BY <1>0, <2>1 DEF OnFrame, Bar, queueVars
    <3>. QED BY <1>5, <2>0, <3>1
  <2>2. CASE TryPush
    <3>1. Bar = sent /\ Bar' = sent + 1
      BY <2>2 DEF TryPush, Bar
    <3>2. CASE UNCHANGED queue
      BY <1>0, <1>5, <2>0, <3>1, <3>2
    <3>3. CASE queue' = Append(queue, offered)
      <4>1. offered \in Telegrams /\ offered.id = sent
        BY <2>2 DEF TryPush, Places
      <4>2. /\ DOMAIN queue' = 1 .. Len(queue) + 1 /\ queue'[Len(queue) + 1] = offered
            /\ \A i \in DOMAIN queue : queue'[i] = queue[i]
        BY <1>0, <3>3, <4>1, AddLast
      <4>3. \A i \in DOMAIN queue' : i \in DOMAIN queue \/ i = Len(queue) + 1
        BY <1>0, <4>2
      <4>4. Len(queue) + 1 \notin DOMAIN queue
        BY <1>0
      <4>4a. Indexed' \subseteq Indexed
        BY <1>3, <2>0
      <4>5. ASSUME NEW i \in DOMAIN queue'
            PROVE  /\ queue'[i].id < Bar' /\ \A x \in Indexed' : x < queue'[i].id
                   /\ held' # NoTelegram => held'.id < queue'[i].id
        <5>1. CASE i \in DOMAIN queue
          <6>1. queue'[i] = queue[i] /\ queue[i].id \in Nat /\ queue[i].id < sent
            BY <1>0, <3>1, <4>2, <5>1 DEF Order
          <6>2. queue'[i].id < Bar'
            BY <1>0, <3>1, <6>1
          <6>. QED BY <2>0, <4>4a, <5>1, <6>1, <6>2 DEF Order
        <5>2. CASE i = Len(queue) + 1
          <6>1. queue'[i].id = sent
            BY <4>1, <4>2, <5>2
          <6>2. \A x \in Indexed' : x < sent
            BY <1>2a, <3>1, <4>4a
          <6>. QED BY <1>0, <2>0, <3>1, <6>1, <6>2 DEF Order
        <5>. QED BY <4>3, <5>1, <5>2
      <4>6. \A i, j \in DOMAIN queue' : i < j => queue'[i].id < queue'[j].id
        BY <1>0, <3>1, <4>1, <4>2, <4>3, <4>4 DEF Order
      <4>7. \A x \in Indexed' : x < Bar'
        BY <1>0, <1>2a, <2>0, <3>1, <4>4a
      <4>8. held' # NoTelegram => held'.id < Bar' /\ \A x \in Indexed' : x < held'.id
        BY <1>0, <1>1, <2>0, <3>1, <4>4a DEF Order
      <4>. QED BY <1>3, <2>0, <4>5, <4>6, <4>7, <4>8 DEF Order
    <3>. QED BY <2>2, <3>2, <3>3 DEF TryPush
  <2>3. CASE CountQueued \/ PushFails \/ Refuse \/ CloseQueue
    <3>1. Bar' = Bar /\ UNCHANGED queue
      BY <2>3 DEF CountQueued, PushFails, Refuse, CloseQueue, Bar, queueVars
    <3>. QED BY <1>2, <1>5, <2>0, <3>1
  <2>. QED BY <1>8, <2>1, <2>2, <2>3 DEF Producer
<1>9. CASE Pop
  <2>0. held = NoTelegram /\ ~WriteCsv /\ UNCHANGED <<ppc, sent>> /\ queue # << >>
    BY <1>9 DEF Pop, WriteCsv, Hand, producerFrame
  <2>1. held' = queue[1] /\ queue' = Tail(queue)
    BY <1>4, <1>9, <2>0 DEF Pop
  <2>2. \A i \in DOMAIN queue' : i + 1 \in DOMAIN queue /\ queue'[i] = queue[i + 1] /\ 1 < i + 1
    BY <1>4, <2>0, <2>1
  <2>3. \A i, j \in DOMAIN queue' : i < j => i + 1 < j + 1
    BY <1>4, <2>0, <2>1
  <2>. QED BY <1>3, <1>4, <1>6, <2>0, <2>1, <2>2, <2>3 DEF Order
<1>10. CASE WriteCsv
  <2>0. /\ wpc = "writeCsv" /\ wpc # "none" /\ held \in Telegrams /\ held # NoTelegram
        /\ UNCHANGED <<ppc, sent, queue>>
    BY <1>0, <1>10 DEF WriteCsv, Hand, producerFrame, queueVars
  <2>1. CASE UNCHANGED <<splits, held>>
    BY <1>6, <2>0, <2>1 DEF Order, IndexSorted, Indexed
  <2>2. CASE /\ SetCurrent([Current EXCEPT !.csv = Append(@, held), !.bytes = @ + held.size])
             /\ held' = NoTelegram
    <3>. DEFINE n == Len(splits)  s == [Current EXCEPT !.csv = Append(@, held), !.bytes = @ + held.size]
    <3>1. splits # << >> /\ Current \in Split /\ n \in DOMAIN splits /\ DOMAIN splits = 1 .. n
      BY <2>0, CurrentType DEF Places
    <3>2. s \in Split /\ s.csv = Append(splits[n].csv, held) /\ splits[n].csv \in Seq(Telegrams)
      BY <2>0, <3>1, SplitUpdates DEF Split, Current
    <3>3. /\ DOMAIN splits' = DOMAIN splits /\ splits'[n] = s
          /\ \A k \in DOMAIN splits' : k # n => splits'[k] = splits[k]
      BY <2>2, <3>1, <3>2, CurrentChanges DEF Current
    <3>4. /\ DOMAIN splits'[n].csv = 1 .. Len(splits[n].csv) + 1 /\ Len(splits[n].csv) \in Nat
          /\ DOMAIN splits[n].csv = 1 .. Len(splits[n].csv)
          /\ splits'[n].csv[Len(splits[n].csv) + 1] = held
          /\ \A a \in DOMAIN splits[n].csv : splits'[n].csv[a] = splits[n].csv[a]
      <4>. HIDE DEF s
      <4>. QED BY <2>0, <3>2, <3>3, AddLast
    <3>. DEFINE Old(k, a) == /\ k \in DOMAIN splits /\ a \in DOMAIN splits[k].csv
                             /\ splits'[k].csv[a] = splits[k].csv[a]
                New(k, a) == k = n /\ a = Len(splits[n].csv) + 1 /\ splits'[k].csv[a] = held
    <3>. HIDE DEF s, n
    <3>5. ASSUME NEW k \in DOMAIN splits', NEW a \in DOMAIN splits'[k].csv
          PROVE  Old(k, a) \/ New(k, a)
      BY <3>1, <3>3, <3>4
    <3>6. \A x \in Indexed' : x \in Indexed \/ x = held.id
      BY <3>5 DEF Indexed
    <3>7. IndexSorted'
      <4>. SUFFICES ASSUME NEW k \in DOMAIN splits', NEW l \in DOMAIN splits',
                           NEW a \in DOMAIN splits'[k].csv, NEW b \in DOMAIN splits'[l].csv,
                           k < l \/ (k = l /\ a < b)
                    PROVE  splits'[k].csv[a].id < splits'[l].csv[b].id
        BY DEF IndexSorted
      <4>1. CASE Old(k, a) /\ Old(l, b)
        BY <4>1 DEF Order, IndexSorted
      <4>2. CASE Old(k, a) /\ New(l, b)
        BY <2>0, <4>2, IndexTypes DEF Order
      <4>3. CASE New(k, a)
        <5>1. n \in Nat /\ l \in 1 .. n
          BY <3>1, <3>3, LenProperties DEF n, RecorderTypes
        <5>2. l = n /\ b \in 1 .. Len(splits[n].csv) + 1 /\ a = Len(splits[n].csv) + 1
          BY <3>3, <3>4, <4>3, <5>1
        <5>. QED BY <3>4, <4>3, <5>1, <5>2
      <4>. QED BY <3>5, <4>1, <4>2, <4>3
    <3>8. \A x \in Indexed' : x < Bar'
      BY <1>6, <2>0, <3>6 DEF Order
    <3>9. \A i \in DOMAIN queue' : queue'[i].id < Bar' /\ \A x \in Indexed' : x < queue'[i].id
      BY <1>6, <2>0, <3>6 DEF Order
    <3>. QED BY <2>0, <2>2, <3>7, <3>8, <3>9 DEF Order
  <2>. QED BY <1>10, <2>1, <2>2 DEF WriteCsv
<1>11. CASE FoundEmpty \/ CheckClosed \/ AppendFrame \/ WriteBin \/ Flush \/ Leave \/ WriterCloses
  <2>1. UNCHANGED <<queue, held, ppc, sent>> /\ ~WriteCsv
    BY <1>11 DEF FoundEmpty, CheckClosed, AppendFrame, WriteBin, Flush, Leave, WriterCloses, WriteCsv,
       producerFrame, queueVars
  <2>. QED BY <1>2, <1>5, <1>6, <2>1
<1>12. CASE Drain
  <2>0. ~WriteCsv /\ UNCHANGED <<ppc, sent>> /\ held' \in {held, NoTelegram}
    BY <1>12 DEF Drain, WriteCsv, producerFrame
  <2>1. CASE UNCHANGED queue
    BY <1>2, <1>5, <1>6, <2>0, <2>1
  <2>2. CASE queue # << >> /\ queue' = Tail(queue)
    <3>1. \A i \in DOMAIN queue' : i + 1 \in DOMAIN queue /\ queue'[i] = queue[i + 1]
      BY <1>4, <2>2
    <3>2. \A i, j \in DOMAIN queue' : i < j => i + 1 < j + 1
      BY <1>4, <2>2
    <3>. QED BY <1>3, <1>6, <2>0, <3>1, <3>2 DEF Order
  <2>. QED BY <1>12, <2>1, <2>2 DEF Drain
<1>13. CASE NextSplit \/ Close
  <2>1. UNCHANGED <<queue, held, ppc, sent>> /\ ~WriteCsv
    BY <1>13, CloseMoves, CloseGoes DEF NextSplit, WriteCsv
  <2>. QED BY <1>2, <1>5, <1>6, <2>1
<1>14. CASE UNCHANGED vars
  BY <1>14 DEF vars, queueVars, counters, Order, IndexSorted, Indexed, Bar
<1>. QED BY <1>7, <1>8, <1>9, <1>10, <1>11, <1>12, <1>13, <1>14, NextCases DEF LoopStep, EndStep

----------------------------------------------------------------------------
(* Files. *)

(* A step that leaves the files alone keeps what is known of them. *)
LEMMA FilesUntouched ==
    ASSUME Files, UNCHANGED splits, failed \in BOOLEAN, failed' \in {failed, TRUE},
           wpc # "writeCsv" \/ wpc' = "writeCsv" \/ failed'
    PROVE  Files'
BY DEF Files, FileOK, Durable

(* When the current split changes, only that one is in question. *)
LEMMA FilesChanged ==
    ASSUME RecorderTypes, Files, splits # << >>, NEW s \in Split, SetCurrent(s),
           failed' \in {failed, TRUE}, FileOK(Len(splits))'
    PROVE  Files'
<1>1. failed \in BOOLEAN /\ Len(splits') = Len(splits)
  BY CurrentChanges DEF RecorderTypes
<1>. SUFFICES ASSUME NEW k \in DOMAIN splits', k # Len(splits)
              PROVE  FileOK(k)'
  BY <1>1 DEF Files
<1>2. splits'[k] = splits[k] /\ k \in DOMAIN splits
  BY CurrentChanges
<1>3. FileOK(k)
  BY <1>2 DEF Files
<1>. QED BY <1>1, <1>2, <1>3 DEF FileOK, Durable

(* What the current split's files have in common. *)
LEMMA CurrentOK ==
    ASSUME RecorderTypes, Files, splits # << >>
    PROVE  FileOK(Len(splits))
BY CurrentType DEF Files

LEMMA StartFiles ==
    ASSUME RecorderTypes, Places, Start
    PROVE  Files' /\ CurrentFiles'
<1>1. /\ NewSplit.bin = << >> /\ NewSplit.csv = << >> /\ NewSplit.bytes = 0
      /\ NewSplit.json = {"incomplete"} /\ NewSplit.open
  BY NewSplitType
<1>2. CASE opc' = "running" /\ wpc' = "poll" /\ splits' = <<NewSplit>>
  <2>1. Len(splits') = 1 /\ DOMAIN splits' = {1} /\ splits'[1] = NewSplit
    BY <1>2
  <2>2. Files'
    BY <1>1, <2>1 DEF Files, FileOK
  <2>3. CurrentFiles'
    BY <1>1, <1>2, <2>1 DEF CurrentFiles, Current
  <2>. QED BY <2>2, <2>3
<1>3. CASE /\ failed' = TRUE /\ UNCHANGED wpc
           /\ splits' \in {<< >>, <<[NewSplit EXCEPT !.open = FALSE]>>,
                           <<[NewSplit EXCEPT !.open = FALSE, !.json = {"incomplete", "torn"}]>>}
  <2>1. wpc' = "none"
    BY <1>3 DEF Start, Places
  <2>2. CurrentFiles'
    BY <2>1 DEF CurrentFiles
  <2>3. CASE splits' = << >>
    <3>1. DOMAIN splits' = {}
      BY <2>3
    <3>. QED BY <3>1, <2>2 DEF Files
  <2>4. CASE splits' # << >>
    <3>1. PICK s \in Split : /\ splits' = <<s>> /\ s.bin = << >> /\ s.csv = << >> /\ s.bytes = 0
                             /\ ~s.open /\ "clean" \notin s.json
      <4>1. LET s == [NewSplit EXCEPT !.open = FALSE]
            IN  /\ s \in Split /\ s.bin = << >> /\ s.csv = << >> /\ s.bytes = 0 /\ ~s.open
                /\ s.json = {"incomplete"}
        BY <1>1, NewSplitType DEF Split
      <4>2. LET s == [NewSplit EXCEPT !.open = FALSE, !.json = {"incomplete", "torn"}]
            IN  /\ s \in Split /\ s.bin = << >> /\ s.csv = << >> /\ s.bytes = 0 /\ ~s.open
                /\ s.json = {"incomplete", "torn"}
        BY <1>1, NewSplitType DEF Split, Texts
      <4>. QED BY <1>3, <2>4, <4>1, <4>2
    <3>2. Len(splits') = 1 /\ DOMAIN splits' = {1} /\ splits'[1] = s
      BY <3>1
    <3>3. Files'
      BY <1>3, <3>1, <3>2 DEF Files, FileOK
    <3>. QED BY <2>2, <3>3
  <2>. QED BY <2>3, <2>4
<1>. QED BY <1>2, <1>3 DEF Start

LEMMA OutsideFiles ==
    ASSUME RecorderTypes, Files, CurrentFiles, UNCHANGED <<splits, wpc, held, why>>,
           failed' \in {failed, TRUE}
    PROVE  Files' /\ CurrentFiles'
<1>1. failed \in BOOLEAN /\ Current' = Current
  BY DEF RecorderTypes, Current
<1>2. Files'
  BY <1>1, FilesUntouched
<1>. QED BY <1>1, <1>2 DEF CurrentFiles, Durable

(* The writer's steps that leave the files alone. *)
LEMMA IdleFiles ==
    ASSUME RecorderTypes, Places, Hand, Files, CurrentFiles, wpc # "writeCsv", UNCHANGED <<splits, failed>>,
           Pop \/ FoundEmpty \/ CheckClosed \/ AppendFrame \/ Leave \/ WriterCloses \/ Drain
           \/ NothingOpen \/ MayClean \/ MustRevoke
    PROVE  Files' /\ CurrentFiles'
<1>. USE DEF CurrentFiles
<1>0. failed \in BOOLEAN /\ Current' = Current
  BY DEF RecorderTypes, Current
<1>1. SUFFICES CurrentFiles'
  BY <1>0, FilesUntouched
<1>2. CASE Pop \/ FoundEmpty \/ CheckClosed
  BY <1>0, <1>2 DEF Pop, FoundEmpty, CheckClosed
<1>3. CASE AppendFrame
  <2>1. held.size \in Nat /\ Current.bytes \in Nat
    BY <1>3, CurrentType, TelegramFacts DEF AppendFrame, Hand, Places, Split
  <2>2. wpc' = "writeBin" => Current.csv = << >> \/ MaxBytes = 0 \/ Current.bytes + held.size <= MaxBytes
    BY <1>3, <2>1 DEF AppendFrame, NeedsSplit
  <2>. QED BY <1>0, <1>3, <2>2 DEF AppendFrame
<1>4. CASE Leave \/ WriterCloses \/ Drain
  BY <1>0, <1>4 DEF Leave, WriterCloses, Drain
<1>5. CASE NothingOpen
  BY <1>0, <1>5 DEF NothingOpen, Going, closeFrame, Places
<1>6. CASE MayClean
  <2>1. ~failed => Current.bin = Current.csv
    BY <1>6, CurrentOK DEF MayClean, FileOK, Places, Current
  <2>. QED BY <1>0, <1>6, <2>1 DEF MayClean, Going, closeFrame, Durable
<1>7. CASE MustRevoke
  BY <1>0, <1>7 DEF MustRevoke, Going, closeFrame
<1>. QED BY <1>2, <1>3, <1>4, <1>5, <1>6, <1>7

(* What the writer has to make sure of when it makes s of the current split. *)
Acceptable(s) ==
    /\ s.csv = << >> => s.bytes = 0
    /\ MaxBytes # 0 /\ s.bytes > MaxBytes => Len(s.csv) = 1
    /\ "clean" \in s.json => Durable(s)
    /\ \/ s.bin = s.csv
       \/ (\E t \in Telegrams : s.bin = Append(s.csv, t)) /\ (failed' \/ wpc' = "writeCsv")
    /\ ~s.open => failed' \/ s.json = {"clean"}

LEMMA AcceptableFiles ==
    ASSUME RecorderTypes, Files, splits # << >>, NEW s \in Split, SetCurrent(s),
           failed' \in {failed, TRUE}, Acceptable(s)
    PROVE  Files' /\ Current' = s
<1>1. Current' = s /\ Len(splits') = Len(splits)
  BY CurrentChanges
<1>2. FileOK(Len(splits))'
  BY <1>1 DEF FileOK, Acceptable, Current, Durable
<1>. QED BY <1>1, <1>2, FilesChanged

LEMMA WriteBinStep ==
    ASSUME RecorderTypes, Places, Hand, Files, CurrentFiles, WriteBin
    PROVE  Files' /\ CurrentFiles'
<1>. DEFINE s == [Current EXCEPT !.bin = Append(@, held)]
<1>0. /\ wpc = "writeBin" /\ held \in Telegrams /\ splits # << >> /\ Current \in Split /\ failed \in BOOLEAN
      /\ UNCHANGED <<held, why>>
      /\ (wpc' = "writeCsv" /\ UNCHANGED failed) \/ (wpc' = "leave" /\ failed' = TRUE)
      /\ wpc' = "writeCsv" => SetCurrent(s)
  BY CurrentType DEF WriteBin, Going, Failing, Hand, Places, RecorderTypes
<1>1. /\ s \in Split /\ s.bin = Append(Current.bin, held) /\ s.csv = Current.csv /\ s.bytes = Current.bytes
      /\ s.json = Current.json /\ s.open = Current.open
  BY <1>0, SplitUpdates DEF Split
<1>2. Current.open /\ Current.bin = Current.csv /\ "clean" \notin Current.json
  BY <1>0 DEF CurrentFiles
<1>3. CASE SetCurrent(s)
  <2>1. Acceptable(s)
    <3>. HIDE DEF s
    <3>. QED BY <1>0, <1>1, <1>2, CurrentOK DEF Acceptable, FileOK, Current
  <2>2. Files' /\ Current' = s
    <3>. HIDE DEF s
    <3>. QED BY <1>0, <1>1, <1>3, <2>1, AcceptableFiles
  <2>3. CurrentFiles'
    <3>. HIDE DEF s
    <3>. QED BY <1>0, <1>1, <1>2, <2>2 DEF CurrentFiles
  <2>. QED BY <2>2, <2>3
<1>4. CASE splits' = splits /\ wpc' = "leave" /\ failed' = TRUE
  <2>1. Files' /\ Current' = Current
    BY <1>0, <1>4, FilesUntouched DEF Current
  <2>. QED BY <1>2, <1>4, <2>1 DEF CurrentFiles
<1>. QED BY <1>0, <1>3, <1>4, WriteBinFiles

LEMMA WriteCsvStep ==
    ASSUME RecorderTypes, Places, Hand, Files, CurrentFiles, WriteCsv
    PROVE  Files' /\ CurrentFiles'
<1>. DEFINE s == [Current EXCEPT !.csv = Append(@, held), !.bytes = @ + held.size]
<1>0. /\ wpc = "writeCsv" /\ held \in Telegrams /\ splits # << >> /\ Current \in Split /\ failed \in BOOLEAN
      /\ UNCHANGED why
      /\ \/ wpc' = "poll" /\ UNCHANGED failed /\ SetCurrent(s)
         \/ wpc' = "leave" /\ failed' = TRUE /\ UNCHANGED splits
  BY CurrentType DEF WriteCsv, Going, Failing, Hand, Places, RecorderTypes
<1>1. /\ s \in Split /\ s.csv = Append(Current.csv, held) /\ s.bin = Current.bin
      /\ s.bytes = Current.bytes + held.size /\ s.json = Current.json /\ s.open = Current.open
  BY <1>0, SplitUpdates DEF Split
<1>2. /\ Current.open /\ Current.bin = Append(Current.csv, held) /\ "clean" \notin Current.json
      /\ Current.csv = << >> \/ MaxBytes = 0 \/ Current.bytes + held.size <= MaxBytes
  BY <1>0 DEF CurrentFiles
<1>3. CASE wpc' = "poll" /\ UNCHANGED failed /\ SetCurrent(s)
  <2>. HIDE DEF s
  <2>0. /\ Append(Current.csv, held) # << >> /\ Len(Append(Current.csv, held)) = Len(Current.csv) + 1
        /\ Current.bytes \in Nat /\ held.size \in Nat
    BY <1>0, AppendProperties, TelegramFacts DEF Split
  <2>1. MaxBytes # 0 /\ s.bytes > MaxBytes => Len(s.csv) = 1
    <3>1. CASE Current.csv = << >>
      BY <1>1, <2>0, <3>1, EmptySeq
    <3>2. CASE MaxBytes = 0 \/ Current.bytes + held.size <= MaxBytes
      BY <1>1, <2>0, <3>2
    <3>. QED BY <1>2, <3>1, <3>2
  <2>2. Acceptable(s)
    BY <1>1, <1>2, <2>0, <2>1 DEF Acceptable
  <2>3. Files' /\ Current' = s
    BY <1>0, <1>1, <1>3, <2>2, AcceptableFiles
  <2>4. CurrentFiles'
    BY <1>0, <1>1, <1>2, <1>3, <2>3 DEF CurrentFiles
  <2>. QED BY <2>3, <2>4
<1>4. CASE wpc' = "leave" /\ failed' = TRUE /\ UNCHANGED splits
  <2>1. Files' /\ Current' = Current
    BY <1>0, <1>4, FilesUntouched DEF Current
  <2>. QED BY <1>2, <1>4, <2>1 DEF CurrentFiles
<1>. QED BY <1>0, <1>3, <1>4

(* Flushing and syncing change only how much is safe. *)
LEMMA SyncedSplit ==
    ASSUME RecorderTypes, Files, splits # << >>, wpc # "writeCsv", failed' \in {failed, TRUE},
           NEW s \in {BinSynced(Current), CsvSynced(Current), CsvSynced(BinSynced(Current))}
    PROVE  /\ s \in Split /\ s.bin = Current.bin /\ s.csv = Current.csv /\ s.bytes = Current.bytes
           /\ s.json = Current.json /\ s.open = Current.open /\ Acceptable(s)
           /\ s.binSafe \in {Current.binSafe, Len(s.bin)} /\ s.csvSafe \in {Current.csvSafe, Len(s.csv)}
           /\ s = BinSynced(Current) => s.binSafe = Len(s.bin)
           /\ s = CsvSynced(Current) => s.csvSafe = Len(s.csv) /\ s.binSafe = Current.binSafe
<1>1. Current \in Split /\ FileOK(Len(splits)) /\ failed \in BOOLEAN
  BY CurrentType, CurrentOK DEF RecorderTypes
<1>2. s \in Split
  BY <1>1, SplitUpdates
<1>3. /\ s.bin = Current.bin /\ s.csv = Current.csv /\ s.bytes = Current.bytes
      /\ s.json = Current.json /\ s.open = Current.open
      /\ s.binSafe \in {Current.binSafe, Len(s.bin)} /\ s.csvSafe \in {Current.csvSafe, Len(s.csv)}
      /\ s = BinSynced(Current) => s.binSafe = Len(s.bin)
      /\ s = CsvSynced(Current) => s.csvSafe = Len(s.csv) /\ s.binSafe = Current.binSafe
  BY <1>1 DEF BinSynced, CsvSynced, Split
<1>4. Acceptable(s)
  BY <1>1, <1>3 DEF FileOK, Acceptable, Durable, Current
<1>. QED BY <1>2, <1>3, <1>4

LEMMA SyncStep ==
    ASSUME RecorderTypes, Places, Hand, Files, CurrentFiles, Flush \/ SyncBin \/ SyncCsv
    PROVE  Files' /\ CurrentFiles'
<1>0. /\ wpc \in {"poll", "syncBin", "syncCsv"} /\ splits # << >> /\ Current \in Split /\ failed \in BOOLEAN
      /\ failed' \in {failed, TRUE} /\ UNCHANGED <<held, why>> /\ Current.open
  BY CurrentType DEF Flush, SyncBin, SyncCsv, Going, Failing, Places, RecorderTypes, closeFrame, CurrentFiles
<1>1. "clean" \notin Current.json
  BY <1>0 DEF CurrentFiles
<1>2. ASSUME NEW s \in {BinSynced(Current), CsvSynced(Current), CsvSynced(BinSynced(Current))}, SetCurrent(s)
      PROVE  Files' /\ Current' = s
  BY <1>0, <1>2, SyncedSplit, AcceptableFiles
<1>3. ASSUME UNCHANGED splits
      PROVE  Files' /\ Current' = Current
  BY <1>0, <1>3, FilesUntouched DEF Current
<1>4. CASE Flush
  <2>1. wpc = "poll" /\ (wpc' = "poll" \/ (wpc' = "leave" /\ failed' = TRUE))
    BY <1>4 DEF Flush, Going, Failing
  <2>2. /\ Files' /\ Current'.bin = Current.bin /\ Current'.csv = Current.csv
        /\ Current'.json = Current.json /\ Current'.open
    BY <1>0, <1>2, <1>3, <1>4, FlushFiles, SyncedSplit
  <2>3. CurrentFiles'
    BY <1>0, <1>1, <2>1, <2>2 DEF CurrentFiles
  <2>. QED BY <2>2, <2>3
<1>5. CASE SyncBin
  <2>1. wpc' = "syncCsv" /\ (SetCurrent(BinSynced(Current)) \/ (failed' = TRUE /\ UNCHANGED splits))
    BY <1>5 DEF SyncBin, Going, Failing
  <2>2. /\ Files' /\ Current'.json = Current.json /\ Current'.open
        /\ failed' = TRUE \/ Current'.binSafe = Len(Current'.bin)
    BY <1>0, <1>2, <1>3, <2>1, SyncedSplit
  <2>3. CurrentFiles'
    BY <1>1, <2>1, <2>2 DEF CurrentFiles
  <2>. QED BY <2>2, <2>3
<1>6. CASE SyncCsv
  <2>1. wpc = "syncCsv" /\ wpc' = "countsWrite"
    BY <1>6 DEF SyncCsv, Going, Failing
  <2>2. /\ Files' /\ Current'.json = Current.json /\ Current'.open
        /\ failed' = TRUE \/ (/\ Current'.csvSafe = Len(Current'.csv) /\ Current'.bin = Current.bin
                              /\ Current'.binSafe = Current.binSafe)
    BY <1>0, <1>2, <1>3, <1>6, SyncCsvFiles, SyncedSplit
  <2>3. failed' = TRUE \/ Current'.binSafe = Len(Current'.bin)
    BY <1>0, <2>1, <2>2 DEF CurrentFiles
  <2>4. CurrentFiles'
    BY <1>1, <2>1, <2>2, <2>3 DEF CurrentFiles
  <2>. QED BY <2>2, <2>4
<1>. QED BY <1>4, <1>5, <1>6

(* The manifest: only CleanWrite may add the mark, and it finds the files
   durable. *)
LEMMA ManifestStep ==
    ASSUME RecorderTypes, Places, Hand, Files, CurrentFiles,
           CountsWrite \/ CountsSync \/ CleanWrite \/ CleanSync \/ RevokeWrite \/ RevokeSync
    PROVE  Files' /\ CurrentFiles'
<1>0. /\ wpc \in {"countsWrite", "countsSync", "cleanWrite", "cleanSync", "revokeWrite", "revokeSync"}
      /\ splits # << >> /\ Current \in Split /\ failed \in BOOLEAN /\ failed' \in {failed, TRUE}
      /\ Current.open
  BY CurrentType DEF CountsWrite, CountsSync, CleanWrite, CleanSync, RevokeWrite, RevokeSync,
     MetadataWrite, MetadataSync, Going, Failing, Places, RecorderTypes, CurrentFiles
<1>1. FileOK(Len(splits))
  BY <1>0, CurrentOK
<1>2. ASSUME NEW j \in SUBSET Texts, SetCurrent([Current EXCEPT !.json = j]),
             "clean" \in j => Durable(Current)
      PROVE  /\ Files' /\ Current'.bin = Current.bin /\ Current'.csv = Current.csv
             /\ Current'.binSafe = Current.binSafe /\ Current'.csvSafe = Current.csvSafe
             /\ Current'.json = j /\ Current'.open
  <2>. DEFINE s == [Current EXCEPT !.json = j]
  <2>1. /\ s \in Split /\ s.bin = Current.bin /\ s.csv = Current.csv /\ s.bytes = Current.bytes
        /\ s.binSafe = Current.binSafe /\ s.csvSafe = Current.csvSafe /\ s.json = j /\ s.open
    BY <1>0, <1>2, SplitUpdates DEF Split
  <2>. HIDE DEF s
  <2>2. Acceptable(s)
    BY <1>0, <1>1, <1>2, <2>1 DEF FileOK, Acceptable, Durable, Current
  <2>3. Files' /\ Current' = s
    BY <1>0, <1>2, <2>1, <2>2, AcceptableFiles DEF s
  <2>. QED BY <2>1, <2>3
<1>3. ASSUME UNCHANGED splits
      PROVE  Files' /\ Current' = Current
  BY <1>0, <1>3, FilesUntouched DEF Current
<1>4. Current.json \subseteq Texts
  BY <1>0 DEF Split
<1>5. CASE CountsWrite
  <2>1. /\ wpc = "countsWrite" /\ wpc' \in {"countsSync", "mayClean"}
        /\ SetCurrent([Current EXCEPT !.json = @ \cup {"incomplete", "torn"}])
    BY <1>5 DEF CountsWrite, MetadataWrite, Going, Failing
  <2>2. "clean" \notin Current.json
    BY <1>0, <2>1 DEF CurrentFiles
  <2>3. Current.json \cup {"incomplete", "torn"} \in SUBSET Texts
    BY <1>4 DEF Texts
  <2>. DEFINE j == Current.json \cup {"incomplete", "torn"}
  <2>4. /\ Files' /\ Current'.bin = Current.bin /\ Current'.csv = Current.csv
        /\ Current'.binSafe = Current.binSafe /\ Current'.csvSafe = Current.csvSafe
        /\ Current'.json = j /\ Current'.open
    BY <1>2, <2>1, <2>2, <2>3
  <2>5. "clean" \notin Current'.json
    BY <2>2, <2>4
  <2>. QED BY <1>0, <2>1, <2>4, <2>5 DEF CurrentFiles
<1>6. CASE CountsSync
  <2>1. /\ wpc = "countsSync" /\ wpc' = "mayClean"
        /\ SetCurrent([Current EXCEPT !.json = {"incomplete"}]) \/ UNCHANGED splits
    BY <1>6 DEF CountsSync, MetadataSync, Going, Failing
  <2>2. "clean" \notin Current.json
    BY <1>0, <2>1 DEF CurrentFiles
  <2>3. {"incomplete"} \in SUBSET Texts /\ "clean" \notin {"incomplete"}
    BY DEF Texts
  <2>4. /\ Files' /\ Current'.bin = Current.bin /\ Current'.csv = Current.csv
        /\ Current'.binSafe = Current.binSafe /\ Current'.csvSafe = Current.csvSafe
        /\ "clean" \notin Current'.json /\ Current'.open
    BY <1>0, <1>2, <1>3, <2>1, <2>2, <2>3
  <2>. QED BY <1>0, <2>1, <2>4 DEF CurrentFiles
<1>7. CASE CleanWrite
  <2>1. /\ wpc = "cleanWrite" /\ (wpc' = "cleanSync" \/ (wpc' = "mustRevoke" /\ failed' = TRUE))
        /\ SetCurrent([Current EXCEPT !.json = @ \cup {"clean", "torn"}])
    BY <1>7 DEF CleanWrite, MetadataWrite, Going, Failing
  <2>2. Durable(Current)
    BY <2>1 DEF CurrentFiles
  <2>3. Current.json \cup {"clean", "torn"} \in SUBSET Texts
    BY <1>4 DEF Texts
  <2>4. /\ Files' /\ Current'.bin = Current.bin /\ Current'.csv = Current.csv
        /\ Current'.binSafe = Current.binSafe /\ Current'.csvSafe = Current.csvSafe /\ Current'.open
    BY <1>2, <2>1, <2>2, <2>3
  <2>. QED BY <2>1, <2>2, <2>4 DEF CurrentFiles, Durable
<1>8. CASE CleanSync
  <2>1. /\ wpc = "cleanSync" /\ wpc' = "mustRevoke"
        /\ \/ SetCurrent([Current EXCEPT !.json = {"clean"}])
           \/ UNCHANGED splits /\ failed' = TRUE
    BY <1>8 DEF CleanSync, MetadataSync, Going, Failing
  <2>2. Durable(Current)
    BY <2>1 DEF CurrentFiles
  <2>3. {"clean"} \in SUBSET Texts
    BY DEF Texts
  <2>4. Files' /\ Current'.open /\ (Current'.json = {"clean"} \/ failed' = TRUE)
    BY <1>0, <1>2, <1>3, <2>1, <2>2, <2>3
  <2>. QED BY <2>1, <2>4 DEF CurrentFiles
<1>9. CASE RevokeWrite \/ RevokeSync
  <2>1. /\ wpc \in {"revokeWrite", "revokeSync"} /\ wpc' \in {"revokeSync", "closeJson"} /\ failed
    BY <1>9 DEF RevokeWrite, RevokeSync, MetadataWrite, MetadataSync, Going, Failing, CurrentFiles
  <2>2. \/ SetCurrent([Current EXCEPT !.json = @ \cup {"incomplete", "torn"}])
        \/ SetCurrent([Current EXCEPT !.json = {"incomplete"}])
        \/ UNCHANGED splits
    BY <1>9 DEF RevokeWrite, RevokeSync, MetadataWrite, MetadataSync
  <2>3. /\ Current.json \cup {"incomplete", "torn"} \in SUBSET Texts /\ {"incomplete"} \in SUBSET Texts
        /\ "clean" \in Current.json \cup {"incomplete", "torn"} => Durable(Current)
        /\ "clean" \notin {"incomplete"}
    BY <1>1, <1>4 DEF Texts, FileOK, Current
  <2>4. Files' /\ Current'.open
    BY <1>0, <1>2, <1>3, <2>2, <2>3
  <2>. QED BY <1>0, <2>1, <2>4 DEF CurrentFiles
<1>. QED BY <1>5, <1>6, <1>7, <1>8, <1>9

LEMMA CloseJsonStep ==
    ASSUME RecorderTypes, Places, Files, CurrentFiles, CloseJson
    PROVE  Files' /\ CurrentFiles'
<1>. DEFINE s == [Current EXCEPT !.open = FALSE]
<1>0. /\ wpc = "closeJson" /\ splits # << >> /\ Current \in Split /\ failed \in BOOLEAN
      /\ failed' \in {failed, TRUE} /\ SetCurrent(s) /\ wpc' \in {"exit", "nextSplit"}
  BY CurrentType DEF CloseJson, Going, Failing, Places, RecorderTypes
<1>1. /\ s \in Split /\ s.bin = Current.bin /\ s.csv = Current.csv /\ s.bytes = Current.bytes
      /\ s.binSafe = Current.binSafe /\ s.csvSafe = Current.csvSafe /\ s.json = Current.json /\ ~s.open
  BY <1>0, SplitUpdates DEF Split
<1>. HIDE DEF s
<1>2. Acceptable(s)
  BY <1>0, <1>1, CurrentOK DEF FileOK, Acceptable, Durable, Current, CurrentFiles
<1>3. Files' /\ Current' = s
  BY <1>0, <1>1, <1>2, AcceptableFiles
<1>. QED BY <1>0, <1>1, <1>3 DEF CurrentFiles

LEMMA NextSplitStep ==
    ASSUME RecorderTypes, Places, Hand, Files, CurrentFiles, NextSplit
    PROVE  Files' /\ CurrentFiles'
<1>0. /\ wpc = "nextSplit" /\ splits # << >> /\ failed \in BOOLEAN /\ failed' \in {failed, TRUE}
      /\ (wpc' = "writeBin" /\ splits' = Append(splits, NewSplit)) \/ (wpc' = "leave" /\ failed' = TRUE)
      /\ splits' = splits \/ splits' = Append(splits, NewSplit)
      /\ ~Current.open
  BY DEF NextSplit, Going, Failing, Places, RecorderTypes, CurrentFiles
<1>1. CASE UNCHANGED splits /\ wpc' = "leave"
  <2>1. Files' /\ Current' = Current
    BY <1>0, <1>1, FilesUntouched DEF Current
  <2>. QED BY <1>0, <1>1, <2>1 DEF CurrentFiles
<1>2. CASE splits' = Append(splits, NewSplit)
  <2>0. /\ NewSplit \in Split /\ NewSplit.bin = << >> /\ NewSplit.csv = << >> /\ NewSplit.bytes = 0
        /\ NewSplit.json = {"incomplete"} /\ NewSplit.open
    BY NewSplitType
  <2>1. /\ Len(splits') = Len(splits) + 1 /\ DOMAIN splits' = 1 .. Len(splits) + 1
        /\ splits'[Len(splits')] = NewSplit /\ DOMAIN splits = 1 .. Len(splits) /\ Len(splits) \in Nat
        /\ \A k \in DOMAIN splits : splits'[k] = splits[k]
    BY <1>2, <2>0, AddLast DEF RecorderTypes
  <2>2. \A k \in DOMAIN splits : ~splits[k].open
    BY <1>0 DEF Files, FileOK, Current
  <2>3. ASSUME NEW k \in DOMAIN splits'
        PROVE  FileOK(k)'
    <3>1. CASE k = Len(splits')
      BY <2>0, <2>1, <3>1 DEF FileOK
    <3>2. CASE k # Len(splits')
      <4>1. k \in DOMAIN splits /\ splits'[k] = splits[k] /\ ~splits[k].open
        BY <2>1, <2>2, <3>2
      <4>2. FileOK(k)
        BY <4>1 DEF Files
      <4>. QED BY <1>0, <4>1, <4>2 DEF FileOK, Durable
    <3>. QED BY <3>1, <3>2
  <2>4. CurrentFiles'
    BY <1>0, <2>0, <2>1 DEF CurrentFiles, Current
  <2>. QED BY <2>3, <2>4 DEF Files
<1>. QED BY <1>0, <1>1, <1>2

LEMMA FilesStep ==
    ASSUME RecorderTypes, Places, Hand, Files, CurrentFiles, [Next]_vars
    PROVE  Files' /\ CurrentFiles'
<1>0. failed \in BOOLEAN
  BY DEF RecorderTypes
<1>1. CASE Stop \/ Join \/ Producer \/ UNCHANGED vars
  <2>1. UNCHANGED <<splits, wpc, held, why>> /\ failed' \in {failed, TRUE}
    BY <1>1 DEF Stop, Join, Producer, OnFrame, TryPush, CountQueued, PushFails, Refuse, CloseQueue,
       writerFrame, vars
  <2>. QED BY <2>1, OutsideFiles
<1>2. CASE \/ Pop \/ FoundEmpty \/ CheckClosed \/ AppendFrame \/ Leave \/ WriterCloses \/ Drain
           \/ NothingOpen \/ MayClean \/ MustRevoke
  <2>1. wpc # "writeCsv" /\ UNCHANGED <<splits, failed>>
    BY <1>2 DEF Pop, FoundEmpty, CheckClosed, AppendFrame, Leave, WriterCloses, Drain, NothingOpen,
       MayClean, MustRevoke, Going
  <2>. QED BY <1>2, <2>1, IdleFiles
<1>. QED BY <1>1, <1>2, StartFiles, WriteBinStep, WriteCsvStep, SyncStep, ManifestStep, CloseJsonStep,
            NextSplitStep, NextCases
         DEF OwnerStep, LoopStep, EndStep, Close

----------------------------------------------------------------------------
(* The theorems. *)

LEMMA RecorderInit == Init => IInv
<1>. SUFFICES ASSUME Init PROVE IInv
  OBVIOUS
<1>1. << >> \in Seq(Telegrams) /\ << >> \in Seq(Split) /\ Len(<< >>) = 0 /\ DOMAIN << >> = {}
  BY EmptySeq, LenProperties
<1>2. RecorderTypes
  <2>1. queue \in Seq(Telegrams) /\ Len(queue) <= Capacity /\ splits \in Seq(Split)
    BY <1>1 DEF Init
  <2>2. wpc \in WriterStates /\ why \in {"rotate", "final"} /\ sent <= MaxFrames
    BY DEF Init, WriterStates
  <2>3. closed \in BOOLEAN /\ accepting \in BOOLEAN /\ failed \in BOOLEAN
    BY DEF Init
  <2>. QED BY <2>1, <2>2, <2>3 DEF Init, RecorderTypes
<1>3. Places /\ Hand /\ Refusals
  BY DEF Init, Places, Hand, Refusals
<1>4. Files /\ CurrentFiles
  BY <1>1 DEF Init, Files, CurrentFiles
<1>5. Order
  BY <1>1 DEF Init, Order, IndexSorted, Indexed
<1>6. Counts
  BY <1>1 DEF Init, Counts
<1>. QED BY <1>2, <1>3, <1>4, <1>5, <1>6 DEF IInv

LEMMA RecorderStep == IInv /\ [Next]_vars => IInv'
<1>. SUFFICES ASSUME IInv, [Next]_vars PROVE IInv'
  OBVIOUS
<1>. USE DEF IInv
<1>1. RecorderTypes'
  BY TypesStep
<1>. QED BY <1>1, PlacesStep, HandStep, RefusalsStep, FilesStep, OrderStep, CountsStep

LEMMA RecorderAlways == Spec => []IInv
BY RecorderInit, RecorderStep, PTL DEF Spec

LEMMA MarkedIsDurable == IInv => CleanIsDurable
BY DEF IInv, Files, FileOK, Durable, CleanIsDurable

LEMMA IndexIsOrdered == IInv => IndexInOrder
<1>. SUFFICES ASSUME IInv PROVE IndexInOrder
  OBVIOUS
<1>. USE DEF IInv
<1>1. ASSUME NEW k \in DOMAIN splits
      PROVE  /\ SubSeq(splits[k].bin, 1, Len(splits[k].csv)) = splits[k].csv
             /\ Len(splits[k].bin) > Len(splits[k].csv) =>
                   /\ Len(splits[k].bin) = Len(splits[k].csv) + 1
                   /\ failed \/ wpc = "writeCsv"
  <2>0. splits[k] \in Split /\ FileOK(k)
    BY <1>1, ElementOfSeq, LenProperties DEF RecorderTypes, Files
  <2>1. splits[k].bin \in Seq(Telegrams) /\ splits[k].csv \in Seq(Telegrams) /\ Len(splits[k].csv) \in Nat
    BY <2>0, LenProperties DEF Split
  <2>2. CASE splits[k].bin = splits[k].csv
    BY <2>1, <2>2, SubSeqFull
  <2>3. CASE (\E t \in Telegrams : splits[k].bin = Append(splits[k].csv, t)) /\ (failed \/ wpc = "writeCsv")
    <3>1. PICK t \in Telegrams : splits[k].bin = Append(splits[k].csv, t)
      BY <2>3
    <3>2. Len(splits[k].bin) = Len(splits[k].csv) + 1
          /\ \A i \in 1 .. Len(splits[k].csv) : splits[k].bin[i] = splits[k].csv[i]
      BY <2>1, <3>1, AppendProperties
    <3>. DEFINE p == SubSeq(splits[k].bin, 1, Len(splits[k].csv))
    <3>3. \A i \in 1 .. Len(splits[k].csv) : splits[k].bin[i] \in Telegrams
      BY <2>1, <3>2, ElementOfSeq
    <3>4. /\ p \in Seq(Telegrams) /\ Len(p) = IF 1 <= Len(splits[k].csv) THEN Len(splits[k].csv) - 1 + 1 ELSE 0
          /\ \A i \in 1 .. Len(splits[k].csv) - 1 + 1 : p[i] = splits[k].bin[1 + i - 1]
      BY <2>1, <3>3, SubSeqProperties
    <3>. HIDE DEF p
    <3>5. Len(p) = Len(splits[k].csv) /\ \A i \in 1 .. Len(p) : p[i] = splits[k].csv[i]
      BY <2>1, <3>2, <3>4
    <3>6. p = splits[k].csv
      BY <2>1, <3>4, <3>5, SeqEqual
    <3>. QED BY <2>3, <3>2, <3>6 DEF p
  <2>. QED BY <2>0, <2>2, <2>3 DEF FileOK
<1>. QED BY <1>1 DEF IndexInOrder, Order, IndexSorted

LEMMA EndIsAccounted == IInv => Accounted
<1>. SUFFICES ASSUME IInv, opc = "stopped"
              PROVE  /\ sent = written + dropped
                     /\ ~failed => dropped = 0 /\ \A k \in DOMAIN splits : splits[k].json = {"clean"}
  BY DEF Accounted
<1>. USE DEF IInv
<1>1. wpc \in {"none", "exit"} /\ ppc = "idle" /\ (wpc = "none" => failed)
  BY DEF Places
<1>2. CASE wpc = "exit"
  <2>1. queue = << >> /\ held = NoTelegram
    BY <1>2 DEF Hand
  <2>2. Len(queue) = 0
    BY <2>1, EmptySeq
  <2>3. sent = written + dropped
    BY <1>1, <2>1, <2>2 DEF Counts, RecorderTypes
  <2>4. ~failed => \A k \in DOMAIN splits : splits[k].json = {"clean"}
    BY <1>2 DEF Files, FileOK, CurrentFiles, Current
  <2>. QED BY <2>3, <2>4 DEF Refusals, RecorderTypes
<1>3. CASE wpc = "none"
  <2>1. held = NoTelegram
    BY <1>3 DEF Hand
  <2>2. Len(queue) = 0
    BY <1>3, EmptySeq DEF Places
  <2>. QED BY <1>1, <1>3, <2>1, <2>2 DEF Counts, RecorderTypes
<1>. QED BY <1>1, <1>2, <1>3

(* For telegrams of any sizes, any queue capacity and any limit of a file,
   whatever operation on the files fails and whenever the receive thread
   refuses a telegram meanwhile: a split that may be found marked clean is
   durable, with one index row for each telegram. *)
THEOREM DurableCorrect == Spec => []CleanIsDurable
BY RecorderAlways, MarkedIsDurable, PTL

(* And every telegram is in the files or counted as dropped, none twice, the
   index is in the order of arrival and the splits keep to their limit. *)
THEOREM RecorderCorrect == Spec => []RecorderInv
<1>1. ASSUME IInv PROVE TypeOK
  <2>1. \A k \in DOMAIN splits : splits[k] \in Split /\ (splits[k].open => k = Len(splits))
    BY <1>1, ElementOfSeq, LenProperties DEF IInv, RecorderTypes, Files, FileOK
  <2>2. \A s \in Split : s.json \subseteq {"incomplete", "clean", "torn"}
    BY DEF Split, Texts
  <2>. QED BY <1>1, <2>1, <2>2 DEF IInv, RecorderTypes, TypeOK
<1>2. IInv => SplitsBounded
  BY DEF IInv, Files, FileOK, SplitsBounded
<1>3. IInv => RecorderInv
  BY <1>1, <1>2, IndexIsOrdered, EndIsAccounted DEF RecorderInv
<1>. QED BY <1>3, RecorderAlways, PTL

(* The recording of a scanner takes only steps of the recorder: the monitor
   and the configuration hand telegrams over and change nothing in it. *)
LEMMA RecordingSteps == [SystemNext]_systemVars => [Next]_vars
BY DEF SystemNext, systemVars, Load, HandleFrame, Recorder, SystemDone, Next, Producer

(* So both hold of a whole recording, whatever the stream, the configuration
   and the verdicts of the monitor. *)
THEOREM RecordingCorrect == SystemSpec => [](RecorderInv /\ CleanIsDurable)
<1>1. SystemSpec => Spec
  BY RecordingSteps, PTL DEF SystemSpec, SystemInit, Spec
<1>. QED BY <1>1, DurableCorrect, RecorderCorrect, PTL
=============================================================================
