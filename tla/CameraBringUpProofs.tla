------------------------ MODULE CameraBringUpProofs -------------------------
(***************************************************************************)
(* Theorems of CameraBringUp, for every configuration, every network and   *)
(* every bound.                                                            *)
(*                                                                         *)
(* The plans are proved to have the order that the camera needs (PlanOrder *)
(* below, from the entries of the two lists); the invariant of the hooks,  *)
(* ProfileIInv, carries what the plan has written so far (InForce) from    *)
(* the factory state to the start of the capture, and the relation of the  *)
(* counter to its readings from there to the end.  The invariant of the    *)
(* address, AddressIInv, follows the steps of ebus_set_ip.                 *)
(***************************************************************************)
EXTENDS CameraBringUp, SequenceTheorems, FiniteSetTheorems, WellFoundedInduction, TLAPS

----------------------------------------------------------------------------
(* The plans. *)

(* The nodes that features.raw may write to. *)
RawNodes == {"PixelFormat", "UserSetLoad", "CounterSelector", "GainSelector", "Untouched",
             "LineSource", "LineSelector"}

(* A list, whatever its entries are. *)
List(s) == Len(s) \in Nat /\ s \in [1 .. Len(s) -> {s[i] : i \in 1 .. Len(s)}]

LEMMA ListIsSeq ==
    ASSUME NEW s, List(s), NEW S, \A i \in 1 .. Len(s) : s[i] \in S
    PROVE  s \in Seq(S)
<1>1. s \in [1 .. Len(s) -> S]
  BY DEF List
<1>. QED BY <1>1, SeqDef DEF List

(* Where the entries of two lists are in the list of both. *)
LEMMA Join ==
    ASSUME NEW s, NEW t, List(s), List(t)
    PROVE  /\ List(s \o t)
           /\ Len(s) \in Nat /\ Len(t) \in Nat /\ Len(s \o t) = Len(s) + Len(t)
           /\ \A i \in 1 .. Len(s) : (s \o t)[i] = s[i]
           /\ \A i \in 1 .. Len(t) : (s \o t)[Len(s) + i] = t[i]
<1>. DEFINE S == {s[i] : i \in 1 .. Len(s)} \cup {t[i] : i \in 1 .. Len(t)}
<1>1. s \in Seq(S) /\ t \in Seq(S)
  BY ListIsSeq
<1>2. Len(s) \in Nat /\ Len(t) \in Nat
  BY DEF List
<1>. HIDE DEF S
<1>3. /\ s \o t \in Seq(S) /\ Len(s \o t) = Len(s) + Len(t)
      /\ \A i \in 1 .. Len(s) : (s \o t)[i] = s[i]
      /\ \A i \in 1 .. Len(t) : (s \o t)[Len(s) + i] = t[i]
  BY <1>1, <1>2, ConcatProperties
<1>4. List(s \o t)
  <2>. DEFINE u == s \o t
  <2>1. u \in [1 .. Len(u) -> S] /\ Len(u) \in Nat
    BY <1>3, LenProperties
  <2>. HIDE DEF u
  <2>2. List(u)
    BY <2>1 DEF List
  <2>. QED BY <2>2 DEF u
<1>. QED BY <1>2, <1>3, <1>4

LEMMA OneEntry ==
    ASSUME NEW a
    PROVE  List(<< a >>) /\ Len(<< a >>) = 1 /\ << a >>[1] = a
BY DEF List

LEMMA TwoEntries ==
    ASSUME NEW a, NEW b
    PROVE  /\ List(<< a, b >>) /\ Len(<< a, b >>) = 2
           /\ << a, b >>[1] = a /\ << a, b >>[2] = b
BY DEF List

LEMMA FiveEntries ==
    ASSUME NEW a, NEW b, NEW c, NEW d, NEW e
    PROVE  /\ List(<< a, b, c, d, e >>) /\ Len(<< a, b, c, d, e >>) = 5
           /\ << a, b, c, d, e >>[1] = a /\ << a, b, c, d, e >>[2] = b
           /\ << a, b, c, d, e >>[3] = c /\ << a, b, c, d, e >>[4] = d
           /\ << a, b, c, d, e >>[5] = e
BY DEF List

LEMMA NoEntries == List(<< >>) /\ Len(<< >>) = 0
BY DEF List

(* What the three ways to write an entry have in common. *)
LEMMA EntryFields ==
    ASSUME NEW n, NEW v, NEW k
    PROVE  /\ Must(n, v, k).strict /\ Must(n, v, k).required
           /\ Must(n, v, k).node = n /\ Must(n, v, k).value = v
           /\ Bonus(n, v, k).strict /\ ~Bonus(n, v, k).required
           /\ Bonus(n, v, k).node = n
           /\ ~RawFeature(n, v, k).strict
           /\ RawFeature(n, v, k).required /\ RawFeature(n, v, k).node = n
BY DEF Must, Bonus, RawFeature, FeatureWrite

(* What the escape hatch may hold: nothing that is strict. *)
Lax(raw) ==
    /\ List(raw) /\ (raw = << >> <=> Len(raw) = 0)
    /\ \A i \in 1 .. Len(raw) : raw[i].node \in RawNodes /\ ~raw[i].strict /\ raw[i].required

LEMMA OneRaw ==
    ASSUME NEW n \in RawNodes, NEW v, NEW k
    PROVE  Lax(<< RawFeature(n, v, k) >>)
<1>. DEFINE a == RawFeature(n, v, k)
<1>1. a.node \in RawNodes /\ ~a.strict /\ a.required
  BY EntryFields
<1>. HIDE DEF a
<1>2. /\ List(<< a >>) /\ Len(<< a >>) = 1 /\ << a >> # << >>
      /\ \A i \in 1 .. 1 : << a >>[i] = a
  BY OneEntry
<1>3. Lax(<< a >>)
  BY <1>1, <1>2 DEF Lax
<1>. QED BY <1>3 DEF a

LEMMA TwoRaw ==
    ASSUME NEW n \in RawNodes, NEW v, NEW k, NEW m \in RawNodes, NEW w, NEW l
    PROVE  Lax(<< RawFeature(n, v, k), RawFeature(m, w, l) >>)
<1>. DEFINE a == RawFeature(n, v, k)
            b == RawFeature(m, w, l)
<1>1. a.node \in RawNodes /\ ~a.strict /\ a.required
  BY EntryFields
<1>2. b.node \in RawNodes /\ ~b.strict /\ b.required
  BY EntryFields
<1>. HIDE DEF a, b
<1>3. /\ List(<< a, b >>) /\ Len(<< a, b >>) = 2 /\ << a, b >> # << >>
      /\ \A i \in 1 .. 2 : << a, b >>[i] \in {a, b}
  BY TwoEntries
<1>4. Lax(<< a, b >>)
  BY <1>1, <1>2, <1>3 DEF Lax
<1>. QED BY <1>4 DEF a, b

(* Every list of features.raw is lax. *)
LEMMA RawEntries == ASSUME NEW raw \in RawLists PROVE Lax(raw)
<1>1. {"PixelFormat", "UserSetLoad", "CounterSelector", "GainSelector", "Untouched",
          "LineSource", "LineSelector"} \subseteq RawNodes
  BY DEF RawNodes
<1>3. Lax(<< >>)
  BY NoEntries DEF Lax
<1>4. Lax(<< RawFeature("PixelFormat", "Mono8", "enum") >>)
  BY <1>1, OneRaw, Zenon
<1>5. Lax(<< RawFeature("UserSetLoad", "", "command") >>)
  BY <1>1, OneRaw, Zenon
<1>6. Lax(<< RawFeature("CounterSelector", "1", "enum") >>)
  BY <1>1, OneRaw, Zenon
<1>7. Lax(<< RawFeature("GainSelector", "1", "enum"), RawFeature("Untouched", "raw", "float") >>)
  BY <1>1, TwoRaw, Zenon
<1>8. Lax(<< RawFeature("LineSource", "Strobe", "enum") >>)
  BY <1>1, OneRaw, Zenon
<1>9. Lax(<< RawFeature("LineSelector", "Line1", "enum"), RawFeature("LineSource", "Strobe", "enum") >>)
  BY <1>1, TwoRaw, Zenon
<1>. QED BY <1>3, <1>4, <1>5, <1>6, <1>7, <1>8, <1>9, Zenon DEF RawLists

Joined(u, s, t) ==
    /\ List(u) /\ Len(s) \in Nat /\ Len(t) \in Nat /\ Len(u) = Len(s) + Len(t)
    /\ \A i \in 1 .. Len(s) : u[i] = s[i]
    /\ \A i \in 1 .. Len(t) : u[Len(s) + i] = t[i]

LEMMA Extend == ASSUME NEW s, NEW t, List(s), List(t) PROVE Joined(s \o t, s, t)
BY Join DEF Joined

(* A part of a plan that is there or not. *)
LEMMA Optional ==
    ASSUME NEW b \in BOOLEAN, NEW s, List(s), NEW k, k = (IF b THEN Len(s) ELSE 0)
    PROVE  /\ List(When(b, s)) /\ Len(When(b, s)) = k
           /\ b => When(b, s) = s
BY NoEntries DEF When

LEMMA OptionalOne ==
    ASSUME NEW b \in BOOLEAN, NEW x, NEW k, k = (IF b THEN 1 ELSE 0)
    PROVE  /\ List(When(b, << x >>)) /\ Len(When(b, << x >>)) = k
           /\ k = 1 => When(b, << x >>)[1] = x
<1>1. List(<< x >>) /\ Len(<< x >>) = 1 /\ << x >>[1] = x
  BY OneEntry
<1>2. CASE b
  BY <1>1, <1>2 DEF When
<1>3. CASE ~b
  BY NoEntries, <1>3 DEF When
<1>. QED BY <1>2, <1>3

(* The Go-X's plan, entry by entry: where each of them is when it is there. *)
GoxAt(c, w, o, f, e) ==
    LET p == GoxPlan(c)
        n == 6 + w + o + f + e
    IN  /\ List(p) /\ Len(p) = n + Len(c.raw)
        /\ p[1] = Must("ExtendedId", "On", "enum")
        /\ p[2] = Must("Digitization", "12", "enum")
        /\ w = 1 => p[3] = Must("Width", c.width, "int")
        /\ o = 1 => p[3 + w] = Must("OffsetX", c.offset, "int")
        /\ p[3 + w + o] = Must("PixelFormat", Native.gox, "enum")
        /\ f = 1 => p[4 + w + o] = Must("FrameRate", "set", "float")
        /\ p[4 + w + o + f] = Must("ExposureTime", "set", "float")
        /\ e = 5 => /\ p[5 + w + o + f] = Must("TriggerSelector", "FrameStart", "enum")
                    /\ p[6 + w + o + f] = Must("TriggerSource", "Line5", "enum")
                    /\ p[7 + w + o + f] = Must("TriggerMode", "On", "enum")
                    /\ p[8 + w + o + f] = Bonus("CounterSelector", "0", "enum")
                    /\ p[9 + w + o + f] = Bonus("CounterSource", "FrameTrigger", "enum")
        /\ p[n - 1] = Must("LineSelector", "Line2", "enum")
        /\ p[n] = Must("LineSource", "Exposure", "enum")
        /\ \A i \in 1 .. Len(c.raw) : p[n + i] = c.raw[i]

(* What the plan of the GO-X holds at which place. *)
LEMMA GoxEntries ==
    ASSUME NEW c \in ConfigType
    PROVE  GoxAt(c, IF c.width # 0 THEN 1 ELSE 0, IF c.offset # 0 THEN 1 ELSE 0,
                    IF c.external THEN 0 ELSE 1, IF c.external THEN 5 ELSE 0)
<1>. DEFINE w == IF c.width # 0 THEN 1 ELSE 0
            o == IF c.offset # 0 THEN 1 ELSE 0
            f == IF c.external THEN 0 ELSE 1
            e == IF c.external THEN 5 ELSE 0
            a1 == Must("ExtendedId", "On", "enum")
            a2 == Must("Digitization", "12", "enum")
            wx == Must("Width", c.width, "int")
            ox == Must("OffsetX", c.offset, "int")
            px == Must("PixelFormat", Native.gox, "enum")
            fx == Must("FrameRate", "set", "float")
            ex == Must("ExposureTime", "set", "float")
            t1 == Must("TriggerSelector", "FrameStart", "enum")
            t2 == Must("TriggerSource", "Line5", "enum")
            t3 == Must("TriggerMode", "On", "enum")
            t4 == Bonus("CounterSelector", "0", "enum")
            t5 == Bonus("CounterSource", "FrameTrigger", "enum")
            l1 == Must("LineSelector", "Line2", "enum")
            l2 == Must("LineSource", "Exposure", "enum")
            s1 == << a1, a2 >> \o When(c.width # 0, << wx >>)
            s2 == s1 \o When(c.offset # 0, << ox >>)
            s3 == s2 \o << px >>
            s4 == s3 \o When(~c.external, << fx >>)
            s5 == s4 \o << ex >>
            s6 == s5 \o When(c.external, << t1, t2, t3, t4, t5 >>)
            s7 == s6 \o << l1, l2 >>
            s8 == s7 \o c.raw
<1>1. GoxPlan(c) = s8
  BY DEF GoxPlan
<1>2. /\ (c.width # 0) \in BOOLEAN /\ (c.offset # 0) \in BOOLEAN
      /\ c.external \in BOOLEAN /\ (~c.external) \in BOOLEAN /\ c.raw \in RawLists
  BY DEF ConfigType
<1>3. /\ w \in {0, 1} /\ o \in {0, 1} /\ f \in {0, 1} /\ e \in {0, 5}
      /\ (w = 1) = (c.width # 0) /\ (o = 1) = (c.offset # 0)
      /\ (f = 1) = ~c.external /\ (e = 5) = c.external
  BY <1>2
<1>. HIDE DEF a1, a2, wx, ox, px, fx, ex, t1, t2, t3, t4, t5, l1, l2
<1>10. /\ List(When(c.width # 0, << wx >>)) /\ Len(When(c.width # 0, << wx >>)) = w
       /\ w = 1 => When(c.width # 0, << wx >>)[1] = wx
  BY <1>2, <1>3, OptionalOne
<1>20. /\ List(When(c.offset # 0, << ox >>)) /\ Len(When(c.offset # 0, << ox >>)) = o
       /\ o = 1 => When(c.offset # 0, << ox >>)[1] = ox
  BY <1>2, <1>3, OptionalOne
<1>40. /\ List(When(~c.external, << fx >>)) /\ Len(When(~c.external, << fx >>)) = f
       /\ f = 1 => When(~c.external, << fx >>)[1] = fx
  BY <1>2, <1>3, OptionalOne
<1>60. DEFINE t == When(c.external, << t1, t2, t3, t4, t5 >>)
<1>61. /\ List(t) /\ Len(t) = e
       /\ e = 5 => t[1] = t1 /\ t[2] = t2 /\ t[3] = t3 /\ t[4] = t4 /\ t[5] = t5
  <2>1. CASE c.external
    <3>1. t = << t1, t2, t3, t4, t5 >> /\ e = 5
      BY <2>1 DEF When
    <3>. HIDE DEF t
    <3>. QED BY <3>1, FiveEntries
  <2>2. CASE ~c.external
    <3>1. t = << >> /\ e = 0
      BY <2>2 DEF When
    <3>. HIDE DEF t
    <3>. QED BY <3>1, NoEntries
  <2>. QED BY <2>1, <2>2
<1>80. List(c.raw) /\ Len(c.raw) \in Nat
  BY <1>2, RawEntries DEF Lax, List
<1>. HIDE DEF w, o, f, e, t
<1>11. List(s1) /\ Len(s1) = 2 + w /\ s1[1] = a1 /\ s1[2] = a2 /\ (w = 1 => s1[3] = wx)
  BY <1>3, <1>10, TwoEntries, Join
<1>. HIDE DEF s1
<1>21. /\ List(s2) /\ Len(s2) = 2 + w + o /\ \A i \in 1 .. 2 + w : s2[i] = s1[i]
       /\ o = 1 => s2[3 + w] = ox
  BY <1>3, <1>11, <1>20, Join
<1>. HIDE DEF s2
<1>31. /\ List(s3) /\ Len(s3) = 3 + w + o /\ \A i \in 1 .. 2 + w + o : s3[i] = s2[i]
       /\ s3[3 + w + o] = px
  BY <1>3, <1>21, OneEntry, Join
<1>. HIDE DEF s3
<1>41. /\ List(s4) /\ Len(s4) = 3 + w + o + f /\ \A i \in 1 .. 3 + w + o : s4[i] = s3[i]
       /\ f = 1 => s4[4 + w + o] = fx
  BY <1>3, <1>31, <1>40, Join
<1>. HIDE DEF s4
<1>51. /\ List(s5) /\ Len(s5) = 4 + w + o + f /\ \A i \in 1 .. 3 + w + o + f : s5[i] = s4[i]
       /\ s5[4 + w + o + f] = ex
  BY <1>3, <1>41, OneEntry, Join
<1>. HIDE DEF s5
<1>62. s6 = s5 \o t
  BY DEF t
<1>. DEFINE k == 4 + w + o + f
<1>63. /\ List(s6) /\ Len(s6) = k + e /\ \A i \in 1 .. k : s6[i] = s5[i]
       /\ \A i \in 1 .. e : s6[k + i] = t[i]
  <2>. HIDE DEF s6
  <2>1. Len(s5) = k
    BY <1>51
  <2>. HIDE DEF k
  <2>2. Joined(s6, s5, t)
    BY <1>51, <1>61, <1>62, Extend
  <2>. QED BY <1>61, <2>1, <2>2 DEF Joined
<1>64. e = 5 => /\ s6[5 + w + o + f] = t1 /\ s6[6 + w + o + f] = t2 /\ s6[7 + w + o + f] = t3
                /\ s6[8 + w + o + f] = t4 /\ s6[9 + w + o + f] = t5
  <2>. SUFFICES ASSUME e = 5
                PROVE  /\ s6[5 + w + o + f] = t1 /\ s6[6 + w + o + f] = t2 /\ s6[7 + w + o + f] = t3
                       /\ s6[8 + w + o + f] = t4 /\ s6[9 + w + o + f] = t5
    OBVIOUS
  <2>1. 1 \in 1 .. e /\ 2 \in 1 .. e /\ 3 \in 1 .. e /\ 4 \in 1 .. e /\ 5 \in 1 .. e
    OBVIOUS
  <2>2. /\ s6[k + 1] = t[1] /\ s6[k + 2] = t[2] /\ s6[k + 3] = t[3] /\ s6[k + 4] = t[4]
        /\ s6[k + 5] = t[5]
    <3>. HIDE DEF k
    <3>. QED BY <1>63, <2>1
  <2>3. /\ k + 1 = 5 + w + o + f /\ k + 2 = 6 + w + o + f /\ k + 3 = 7 + w + o + f
        /\ k + 4 = 8 + w + o + f /\ k + 5 = 9 + w + o + f
    BY <1>3
  <2>. QED BY <1>61, <2>2, <2>3
<1>. HIDE DEF s6
<1>71. /\ List(s7) /\ Len(s7) = 6 + w + o + f + e
       /\ \A i \in 1 .. 4 + w + o + f + e : s7[i] = s6[i]
       /\ s7[5 + w + o + f + e] = l1 /\ s7[6 + w + o + f + e] = l2
  BY <1>3, <1>63, TwoEntries, Join
<1>. HIDE DEF s7
<1>. DEFINE n == 6 + w + o + f + e
<1>81. /\ List(s8) /\ Len(s8) = n + Len(c.raw)
       /\ \A i \in 1 .. n : s8[i] = s7[i]
       /\ \A i \in 1 .. Len(c.raw) : s8[n + i] = c.raw[i]
  <2>1. Len(s7) = n
    BY <1>71
  <2>. HIDE DEF n
  <2>2. Joined(s8, s7, c.raw)
    BY <1>71, <1>80, Extend
  <2>. HIDE DEF s8
  <2>. QED BY <2>1, <2>2 DEF Joined
<1>. HIDE DEF s8
<1>90. /\ \A i \in 1 .. 4 + w + o + f : s8[i] = s5[i]
       /\ \A i \in 1 .. 4 + w + o + f + e : s8[i] = s6[i]
       /\ s8[n - 1] = l1 /\ s8[n] = l2
  <2>1. /\ \A i \in 1 .. 6 + w + o + f + e : s8[i] = s7[i]
        /\ n = 6 + w + o + f + e /\ n - 1 = 5 + w + o + f + e
    BY <1>3, <1>81
  <2>2. \A i \in 1 .. 4 + w + o + f : s6[i] = s5[i]
    BY <1>63
  <2>. HIDE DEF n, k
  <2>. QED BY <1>3, <1>71, <2>1, <2>2
<1>91. /\ \A i \in 1 .. 2 + w : s8[i] = s1[i]
       /\ \A i \in 1 .. 2 + w + o : s8[i] = s2[i]
       /\ \A i \in 1 .. 3 + w + o : s8[i] = s3[i]
       /\ \A i \in 1 .. 3 + w + o + f : s8[i] = s4[i]
  BY <1>3, <1>21, <1>31, <1>41, <1>51, <1>90
<1>92. /\ s8[1] = a1 /\ s8[2] = a2 /\ (w = 1 => s8[3] = wx) /\ (o = 1 => s8[3 + w] = ox)
       /\ s8[3 + w + o] = px /\ (f = 1 => s8[4 + w + o] = fx) /\ s8[4 + w + o + f] = ex
  BY <1>3, <1>11, <1>21, <1>31, <1>41, <1>51, <1>90, <1>91
<1>94. e = 5 => /\ s8[5 + w + o + f] = t1 /\ s8[6 + w + o + f] = t2 /\ s8[7 + w + o + f] = t3
                /\ s8[8 + w + o + f] = t4 /\ s8[9 + w + o + f] = t5
  BY <1>3, <1>64, <1>90
<1>93. GoxAt(c, w, o, f, e)
  BY <1>1, <1>81, <1>90, <1>92, <1>94 DEF GoxAt, a1, a2, wx, ox, px, fx, ex, t1, t2, t3, t4, t5,
     l1, l2
<1>. QED BY <1>93 DEF w, o, f, e

LEMMA ThreeEntries ==
    ASSUME NEW a, NEW b, NEW c
    PROVE  /\ List(<< a, b, c >>) /\ Len(<< a, b, c >>) = 3
           /\ << a, b, c >>[1] = a /\ << a, b, c >>[2] = b /\ << a, b, c >>[3] = c
BY DEF List

(* The FX10's plan, entry by entry. *)
Fx10At(c, m, x, q) ==
    LET p == Fx10Plan(c)
        n == 6 + m + x + q
    IN  /\ List(p) /\ Len(p) = n + Len(c.raw)
        /\ p[1] = Must("Binning", "1", "int")
        /\ p[2] = Must("PixelFormat", Native.fx10, "enum")
        /\ m = 2 => /\ p[3] = Must("MroiIndex", "0", "int")
                    /\ p[4] = Must("MroiRegion", "set", "int")
        /\ p[3 + m] = Must("MroiEnable", IF c.mroi THEN "true" ELSE "false", "bool")
        /\ p[4 + m] = Must("StatusLine", "set", "bool")
        /\ p[5 + m] = Must("ExposureMode", IF c.pulseWidth THEN "TriggerControlled" ELSE "Timed", "enum")
        /\ x = 1 => p[6 + m] = Must("ExposureTime", "set", "float")
        /\ p[6 + m + x] = Must("TriggerSelector", "FrameStart", "enum")
        /\ q = 5 => /\ p[7 + m + x] = Must("TriggerSource", "Line5", "enum")
                    /\ p[8 + m + x] = Must("TriggerMode", "On", "enum")
                    /\ p[9 + m + x] = Must("FrameRateEnable", "false", "bool")
                    /\ p[10 + m + x] = Bonus("CounterSource", "MissedTrigger", "enum")
                    /\ p[11 + m + x] = Bonus("CounterReset", "", "command")
        /\ q = 3 => /\ p[7 + m + x] = Must("TriggerMode", "Off", "enum")
                    /\ p[8 + m + x] = Must("FrameRateEnable", "true", "bool")
                    /\ p[9 + m + x] = Must("FrameRate", "set", "float")
        /\ \A i \in 1 .. Len(c.raw) : p[n + i] = c.raw[i]

(* What the plan of the FX10 holds at which place. *)
LEMMA Fx10Entries ==
    ASSUME NEW c \in ConfigType
    PROVE  Fx10At(c, IF c.mroi THEN 2 ELSE 0, IF c.pulseWidth THEN 0 ELSE 1,
                     IF c.external THEN 5 ELSE 3)
<1>. DEFINE m == IF c.mroi THEN 2 ELSE 0
            x == IF c.pulseWidth THEN 0 ELSE 1
            q == IF c.external THEN 5 ELSE 3
            a1 == Must("Binning", "1", "int")
            a2 == Must("PixelFormat", Native.fx10, "enum")
            b1 == Must("MroiIndex", "0", "int")
            b2 == Must("MroiRegion", "set", "int")
            c1 == Must("MroiEnable", IF c.mroi THEN "true" ELSE "false", "bool")
            c2 == Must("StatusLine", "set", "bool")
            c3 == Must("ExposureMode", IF c.pulseWidth THEN "TriggerControlled" ELSE "Timed", "enum")
            ex == Must("ExposureTime", "set", "float")
            tx == Must("TriggerSelector", "FrameStart", "enum")
            t1 == Must("TriggerSource", "Line5", "enum")
            t2 == Must("TriggerMode", "On", "enum")
            t3 == Must("FrameRateEnable", "false", "bool")
            t4 == Bonus("CounterSource", "MissedTrigger", "enum")
            t5 == Bonus("CounterReset", "", "command")
            f1 == Must("TriggerMode", "Off", "enum")
            f2 == Must("FrameRateEnable", "true", "bool")
            f3 == Must("FrameRate", "set", "float")
            s1 == << a1, a2 >> \o When(c.mroi, << b1, b2 >>)
            s2 == s1 \o << c1, c2, c3 >>
            s3 == s2 \o When(~c.pulseWidth, << ex >>)
            s4 == s3 \o << tx >>
            s5 == s4 \o (IF c.external THEN << t1, t2, t3, t4, t5 >> ELSE << f1, f2, f3 >>)
            s6 == s5 \o c.raw
<1>1. Fx10Plan(c) = s6
  BY DEF Fx10Plan
<1>2. /\ c.mroi \in BOOLEAN /\ (~c.pulseWidth) \in BOOLEAN /\ c.pulseWidth \in BOOLEAN
      /\ c.external \in BOOLEAN /\ c.raw \in RawLists
  BY DEF ConfigType
<1>3. /\ m \in {0, 2} /\ x \in {0, 1} /\ q \in {3, 5}
      /\ (m = 2) = c.mroi /\ (x = 1) = ~c.pulseWidth /\ (q = 5) = c.external
  BY <1>2
<1>. HIDE DEF a1, a2, b1, b2, c1, c2, c3, ex, tx, t1, t2, t3, t4, t5, f1, f2, f3
<1>. DEFINE b == When(c.mroi, << b1, b2 >>)
            t == IF c.external THEN << t1, t2, t3, t4, t5 >> ELSE << f1, f2, f3 >>
<1>10. List(b) /\ Len(b) = m /\ (m = 2 => b[1] = b1 /\ b[2] = b2)
  <2>0. List(<< b1, b2 >>) /\ Len(<< b1, b2 >>) = 2 /\ << b1, b2 >>[1] = b1 /\ << b1, b2 >>[2] = b2
    BY TwoEntries
  <2>1. CASE c.mroi
    BY <2>0, <2>1 DEF When
  <2>2. CASE ~c.mroi
    BY NoEntries, <2>2 DEF When
  <2>. QED BY <1>2, <2>1, <2>2
<1>30. /\ List(When(~c.pulseWidth, << ex >>)) /\ Len(When(~c.pulseWidth, << ex >>)) = x
       /\ x = 1 => When(~c.pulseWidth, << ex >>)[1] = ex
  BY <1>2, <1>3, OptionalOne
<1>50. /\ List(t) /\ Len(t) = q
       /\ q = 5 => t[1] = t1 /\ t[2] = t2 /\ t[3] = t3 /\ t[4] = t4 /\ t[5] = t5
       /\ q = 3 => t[1] = f1 /\ t[2] = f2 /\ t[3] = f3
  <2>1. CASE c.external
    <3>1. t = << t1, t2, t3, t4, t5 >> /\ q = 5
      BY <2>1
    <3>. HIDE DEF t, q
    <3>. QED BY <3>1, FiveEntries
  <2>2. CASE ~c.external
    <3>1. t = << f1, f2, f3 >> /\ q = 3
      BY <2>2
    <3>. HIDE DEF t, q
    <3>. QED BY <3>1, ThreeEntries
  <2>. QED BY <2>1, <2>2
<1>60. List(c.raw) /\ Len(c.raw) \in Nat
  BY <1>2, RawEntries DEF Lax, List
<1>11. Joined(s1, << a1, a2 >>, b)
  BY <1>10, TwoEntries, Extend
<1>51. Joined(s5, s4, t)
  <2>1. Joined(s1, << a1, a2 >>, b) /\ List(s1)
    BY <1>11 DEF Joined
  <2>2. Joined(s2, s1, << c1, c2, c3 >>) /\ List(s2)
    <3>. HIDE DEF s1
    <3>1. Joined(s2, s1, << c1, c2, c3 >>)
      BY <2>1, ThreeEntries, Extend
    <3>. QED BY <3>1, Zenon DEF Joined
  <2>3. Joined(s3, s2, When(~c.pulseWidth, << ex >>)) /\ List(s3)
    <3>. HIDE DEF s2
    <3>1. Joined(s3, s2, When(~c.pulseWidth, << ex >>))
      BY <2>2, <1>30, Extend
    <3>. QED BY <3>1, Zenon DEF Joined
  <2>4. List(s4)
    <3>. HIDE DEF s3
    <3>. QED BY <2>3, OneEntry, Join
  <2>. HIDE DEF s4
  <2>5. Joined(s4 \o t, s4, t)
    <3>. HIDE DEF t
    <3>. QED BY <2>4, <1>50, Extend
  <2>. QED BY <2>5
<1>. HIDE DEF m, x, q, b, t
<1>12. List(s1) /\ Len(s1) = 2 + m /\ s1[1] = a1 /\ s1[2] = a2 /\ (m = 2 => s1[3] = b1 /\ s1[4] = b2)
  <2>. HIDE DEF s1
  <2>1. Len(<< a1, a2 >>) = 2 /\ << a1, a2 >>[1] = a1 /\ << a1, a2 >>[2] = a2
    BY TwoEntries
  <2>. DEFINE aa == << a1, a2 >>
  <2>. HIDE DEF aa
  <2>2. Joined(s1, aa, b) /\ Len(aa) = 2 /\ aa[1] = a1 /\ aa[2] = a2
    BY <1>11, <2>1 DEF aa
  <2>3. m = 2 => s1[2 + 1] = b[1] /\ s1[2 + 2] = b[2]
    BY <1>10, <2>2 DEF Joined
  <2>. QED BY <1>3, <1>10, <2>2, <2>3 DEF Joined
<1>. HIDE DEF s1
<1>21. /\ List(s2) /\ Len(s2) = 5 + m /\ \A i \in 1 .. 2 + m : s2[i] = s1[i]
       /\ s2[3 + m] = c1 /\ s2[4 + m] = c2 /\ s2[5 + m] = c3
  BY <1>3, <1>12, ThreeEntries, Join
<1>. HIDE DEF s2
<1>31. /\ List(s3) /\ Len(s3) = 5 + m + x /\ \A i \in 1 .. 5 + m : s3[i] = s2[i]
       /\ x = 1 => s3[6 + m] = ex
  BY <1>3, <1>21, <1>30, Join
<1>. HIDE DEF s3
<1>41. /\ List(s4) /\ Len(s4) = 6 + m + x /\ \A i \in 1 .. 5 + m + x : s4[i] = s3[i]
       /\ s4[6 + m + x] = tx
  BY <1>3, <1>31, OneEntry, Join
<1>. HIDE DEF s4
<1>. DEFINE k == 6 + m + x
            n == 6 + m + x + q
<1>52. /\ List(s5) /\ Len(s5) = k + q /\ \A i \in 1 .. k : s5[i] = s4[i]
       /\ \A i \in 1 .. q : s5[k + i] = t[i]
  <2>1. Len(s4) = k
    BY <1>41
  <2>. HIDE DEF s5, k
  <2>. QED BY <1>50, <1>51, <2>1 DEF Joined
<1>53. /\ q = 5 => /\ s5[7 + m + x] = t1 /\ s5[8 + m + x] = t2 /\ s5[9 + m + x] = t3
                   /\ s5[10 + m + x] = t4 /\ s5[11 + m + x] = t5
       /\ q = 3 => s5[7 + m + x] = f1 /\ s5[8 + m + x] = f2 /\ s5[9 + m + x] = f3
  <2>1. /\ k + 1 = 7 + m + x /\ k + 2 = 8 + m + x /\ k + 3 = 9 + m + x
        /\ k + 4 = 10 + m + x /\ k + 5 = 11 + m + x
    BY <1>3
  <2>. HIDE DEF k, s5
  <2>2. ASSUME q = 5
        PROVE  /\ s5[k + 1] = t[1] /\ s5[k + 2] = t[2] /\ s5[k + 3] = t[3] /\ s5[k + 4] = t[4]
               /\ s5[k + 5] = t[5]
    <3>1. 1 \in 1 .. q /\ 2 \in 1 .. q /\ 3 \in 1 .. q /\ 4 \in 1 .. q /\ 5 \in 1 .. q
      BY <2>2
    <3>. QED BY <1>52, <3>1
  <2>3. ASSUME q = 3
        PROVE  /\ s5[k + 1] = t[1] /\ s5[k + 2] = t[2] /\ s5[k + 3] = t[3]
    <3>1. 1 \in 1 .. q /\ 2 \in 1 .. q /\ 3 \in 1 .. q
      BY <2>3
    <3>. QED BY <1>52, <3>1
  <2>. QED BY <1>50, <2>1, <2>2, <2>3
<1>. HIDE DEF s5
<1>61. /\ List(s6) /\ Len(s6) = n + Len(c.raw) /\ \A i \in 1 .. n : s6[i] = s5[i]
       /\ \A i \in 1 .. Len(c.raw) : s6[n + i] = c.raw[i]
  <2>1. Len(s5) = n
    BY <1>3, <1>52
  <2>2. Joined(s6, s5, c.raw)
    BY <1>52, <1>60, Extend
  <2>. HIDE DEF s6, n
  <2>. QED BY <2>1, <2>2 DEF Joined
<1>. HIDE DEF s6
<1>71. /\ \A i \in 1 .. 6 + m + x + q : s6[i] = s5[i]
       /\ \A i \in 1 .. 6 + m + x : s5[i] = s4[i]
  BY <1>52, <1>61
<1>72. /\ \A i \in 1 .. 2 + m : s6[i] = s1[i]
       /\ \A i \in 1 .. 5 + m : s6[i] = s2[i]
       /\ \A i \in 1 .. 5 + m + x : s6[i] = s3[i]
       /\ \A i \in 1 .. 6 + m + x : s6[i] = s4[i]
  BY <1>3, <1>21, <1>31, <1>41, <1>71
<1>73. /\ s6[1] = a1 /\ s6[2] = a2 /\ (m = 2 => s6[3] = b1 /\ s6[4] = b2)
       /\ s6[3 + m] = c1 /\ s6[4 + m] = c2 /\ s6[5 + m] = c3
       /\ (x = 1 => s6[6 + m] = ex) /\ s6[6 + m + x] = tx
  BY <1>3, <1>12, <1>21, <1>31, <1>41, <1>72
<1>74. /\ q = 5 => /\ s6[7 + m + x] = t1 /\ s6[8 + m + x] = t2 /\ s6[9 + m + x] = t3
                   /\ s6[10 + m + x] = t4 /\ s6[11 + m + x] = t5
       /\ q = 3 => s6[7 + m + x] = f1 /\ s6[8 + m + x] = f2 /\ s6[9 + m + x] = f3
  BY <1>3, <1>53, <1>71
<1>75. Fx10At(c, m, x, q)
  BY <1>1, <1>61, <1>73, <1>74
     DEF Fx10At, a1, a2, b1, b2, c1, c2, c3, ex, tx, t1, t2, t3, t4, t5, f1, f2, f3
<1>. QED BY <1>75 DEF m, x, q
----------------------------------------------------------------------------
(* What the order of the plans is for. *)

Entry(x, n, v) == x.node = n /\ x.value = v /\ x.strict /\ x.required
Extra(x, n) == x.node = n /\ x.strict /\ ~x.required

(* The write at k is the last one before i on its node. *)
LastBefore(p, k, i) ==
    \A j \in k + 1 .. i - 1 : p[j].node \notin {p[k].node, "UserSetLoad"}
Unwritten(p, i, n) == \A j \in 1 .. i - 1 : p[j].node # n
InForce(p, i) ==
    \A k \in 1 .. i - 1 :
       p[k].required /\ p[k].strict /\ p[k].node \in Nodes /\ LastBefore(p, k, i)
       => reg[p[k].node] = p[k].value

(* An entry with this value is the last one on its node before i. *)
Says(p, i, n, v) == \E k \in 1 .. i - 1 : Entry(p[k], n, v) /\ LastBefore(p, k, i)

(* The entries that the recording relies on, and those it does not. *)
LEMMA Entries ==
    ASSUME NEW n, NEW v, NEW k
    PROVE  Entry(Must(n, v, k), n, v) /\ Extra(Bonus(n, v, k), n)
BY EntryFields DEF Entry, Extra

(* Where the GO-X's plan has the nodes whose order matters. *)
GoxOrder(c, w, o, f, e) ==
    LET p == GoxPlan(c)
        n == 6 + w + o + f + e
    IN  /\ List(p) /\ Len(p) = n + Len(c.raw)
        /\ w = 1 <=> c.width # 0
        /\ Entry(p[1], "ExtendedId", "On") /\ Entry(p[2], "Digitization", "12")
        /\ w = 1 => Entry(p[3], "Width", c.width)
        /\ o = 1 => Entry(p[3 + w], "OffsetX", c.offset)
        /\ Entry(p[3 + w + o], "PixelFormat", Native.gox)
        /\ \A i \in 1 .. Len(p) :
              /\ i <= n \/ p[i].node \in RawNodes
              /\ p[i].node \in {"UserSetLoad", "GainSelector", "PtpEnable"} =>
                    ~p[i].strict \/ ~p[i].required
              /\ p[i].node = "UserSetLoad" => i > n
              /\ p[i].node = "ExtendedId" => i = 1
              /\ p[i].node = "Digitization" => i = 2
              /\ p[i].node = "Width" => w = 1 /\ i = 3
              /\ p[i].node = "OffsetX" => o = 1 /\ i = 3 + w
              /\ p[i].node = "PixelFormat" => i = 3 + w + o \/ i > n
              /\ p[i].node = "FrameRate" => e = 0
              /\ p[i].node = "TriggerMode" => e = 5
              /\ p[i].node # "ExposureMode"

(* From the places to the order, for the GO-X. *)
LEMMA GoxOrdered ==
    ASSUME NEW c \in ConfigType, NEW w \in {0, 1}, NEW o \in {0, 1}, NEW f \in {0, 1},
           NEW e \in {0, 5}, w = 1 <=> c.width # 0, f = 1 <=> e = 0, GoxAt(c, w, o, f, e)
    PROVE  GoxOrder(c, w, o, f, e)
<1>. DEFINE p == GoxPlan(c)
            n == 6 + w + o + f + e
<1>1. Lax(c.raw)
  BY RawEntries DEF ConfigType
<1>2. /\ List(p) /\ Len(p) = n + Len(c.raw) /\ Len(c.raw) \in Nat
      /\ \A i \in 1 .. Len(c.raw) : p[n + i] = c.raw[i]
  BY <1>1 DEF GoxAt, Lax, List
<1>3. /\ p[1] = Must("ExtendedId", "On", "enum") /\ p[2] = Must("Digitization", "12", "enum")
      /\ w = 1 => p[3] = Must("Width", c.width, "int")
      /\ o = 1 => p[3 + w] = Must("OffsetX", c.offset, "int")
      /\ p[3 + w + o] = Must("PixelFormat", Native.gox, "enum")
      /\ f = 1 => p[4 + w + o] = Must("FrameRate", "set", "float")
      /\ p[4 + w + o + f] = Must("ExposureTime", "set", "float")
  BY Zenon DEF GoxAt
<1>4. /\ e = 5 => /\ p[5 + w + o + f] = Must("TriggerSelector", "FrameStart", "enum")
                  /\ p[6 + w + o + f] = Must("TriggerSource", "Line5", "enum")
                  /\ p[7 + w + o + f] = Must("TriggerMode", "On", "enum")
                  /\ p[8 + w + o + f] = Bonus("CounterSelector", "0", "enum")
                  /\ p[9 + w + o + f] = Bonus("CounterSource", "FrameTrigger", "enum")
      /\ p[n - 1] = Must("LineSelector", "Line2", "enum")
      /\ p[n] = Must("LineSource", "Exposure", "enum")
  BY Zenon DEF GoxAt
<1>11. /\ Entry(p[1], "ExtendedId", "On") /\ Entry(p[2], "Digitization", "12")
       /\ w = 1 => Entry(p[3], "Width", c.width)
       /\ o = 1 => Entry(p[3 + w], "OffsetX", c.offset)
       /\ Entry(p[3 + w + o], "PixelFormat", Native.gox)
       /\ f = 1 => Entry(p[4 + w + o], "FrameRate", "set")
       /\ Entry(p[4 + w + o + f], "ExposureTime", "set")
  BY <1>3, Entries, Zenon
<1>12. /\ e = 5 => /\ Entry(p[5 + w + o + f], "TriggerSelector", "FrameStart")
                   /\ Entry(p[6 + w + o + f], "TriggerSource", "Line5")
                   /\ Entry(p[7 + w + o + f], "TriggerMode", "On")
                   /\ Extra(p[8 + w + o + f], "CounterSelector")
                   /\ Extra(p[9 + w + o + f], "CounterSource")
       /\ Entry(p[n - 1], "LineSelector", "Line2") /\ Entry(p[n], "LineSource", "Exposure")
  BY <1>4, Entries, Zenon
<1>8. n \in Nat
  OBVIOUS
<1>. HIDE DEF p
<1>5. \A i \in n + 1 .. Len(p) : p[i].node \in RawNodes /\ ~p[i].strict
  <2>. TAKE i \in n + 1 .. Len(p)
  <2>1. i - n \in 1 .. Len(c.raw) /\ n + (i - n) = i
    <3>. HIDE DEF n
    <3>. QED BY <1>2, <1>8
  <2>2. p[i] = c.raw[i - n]
    <3>. HIDE DEF n
    <3>. QED BY <1>2, <2>1
  <2>. QED BY <1>1, <2>1, <2>2 DEF Lax
<1>6. ASSUME NEW i \in 1 .. n
      PROVE  \/ Entry(p[i], "ExtendedId", "On") /\ i = 1
             \/ Entry(p[i], "Digitization", "12") /\ i = 2
             \/ Entry(p[i], "Width", c.width) /\ w = 1 /\ i = 3
             \/ Entry(p[i], "OffsetX", c.offset) /\ o = 1 /\ i = 3 + w
             \/ Entry(p[i], "PixelFormat", Native.gox) /\ i = 3 + w + o
             \/ Entry(p[i], "FrameRate", "set") /\ e = 0
             \/ Entry(p[i], "ExposureTime", "set")
             \/ Entry(p[i], "TriggerSelector", "FrameStart")
             \/ Entry(p[i], "TriggerSource", "Line5")
             \/ Entry(p[i], "TriggerMode", "On") /\ e = 5
             \/ Extra(p[i], "CounterSelector") \/ Extra(p[i], "CounterSource")
             \/ Entry(p[i], "LineSelector", "Line2") \/ Entry(p[i], "LineSource", "Exposure")
  <2>1. \/ i = 1 \/ i = 2 \/ (w = 1 /\ i = 3) \/ (o = 1 /\ i = 3 + w) \/ i = 3 + w + o
        \/ (f = 1 /\ i = 4 + w + o) \/ i = 4 + w + o + f
        \/ (e = 5 /\ i = 5 + w + o + f) \/ (e = 5 /\ i = 6 + w + o + f)
        \/ (e = 5 /\ i = 7 + w + o + f) \/ (e = 5 /\ i = 8 + w + o + f)
        \/ (e = 5 /\ i = 9 + w + o + f) \/ i = n - 1 \/ i = n
    BY <1>6
  <2>. HIDE DEF n
  <2>. QED BY <1>11, <1>12, <2>1
<1>7. \A i \in 1 .. Len(p) : i \in 1 .. n \/ i \in n + 1 .. Len(p)
  BY <1>2
<1>10. Len(p) = n + Len(c.raw)
  BY <1>2
<1>. HIDE DEF n
<1>9. ASSUME NEW i \in 1 .. Len(p)
      PROVE  /\ i <= n \/ p[i].node \in RawNodes
             /\ p[i].node \in {"UserSetLoad", "GainSelector", "PtpEnable"} =>
                   ~p[i].strict \/ ~p[i].required
             /\ p[i].node = "UserSetLoad" => i > n
             /\ p[i].node = "ExtendedId" => i = 1
             /\ p[i].node = "Digitization" => i = 2
             /\ p[i].node = "Width" => w = 1 /\ i = 3
             /\ p[i].node = "OffsetX" => o = 1 /\ i = 3 + w
             /\ p[i].node = "PixelFormat" => i = 3 + w + o \/ i > n
             /\ p[i].node = "FrameRate" => e = 0
             /\ p[i].node = "TriggerMode" => e = 5
             /\ p[i].node # "ExposureMode"
  <2>1. CASE i \in 1 .. n
    BY <1>6, <1>8, <2>1 DEF Entry, Extra
  <2>2. CASE i \in n + 1 .. Len(p)
    BY <1>5, <1>8, <2>2 DEF RawNodes
  <2>. QED BY <1>7, <2>1, <2>2
<1>. QED BY <1>2, <1>11, <1>9, <1>10 DEF GoxOrder, p, n

(* Where the FX10's plan has them. *)
Fx10Order(c, m, x, q) ==
    LET p == Fx10Plan(c)
        n == 6 + m + x + q
    IN  /\ List(p) /\ Len(p) = n + Len(c.raw)
        /\ Entry(p[1], "Binning", "1") /\ Entry(p[2], "PixelFormat", Native.fx10)
        /\ Entry(p[3 + m], "MroiEnable", IF c.mroi THEN "true" ELSE "false")
        /\ Entry(p[4 + m], "StatusLine", "set")
        /\ x = 1 => Entry(p[5 + m], "ExposureMode", "Timed")
        /\ q = 3 => Entry(p[7 + m + x], "TriggerMode", "Off")
        /\ \A i \in 1 .. Len(p) :
              /\ i <= n \/ p[i].node \in RawNodes
              /\ p[i].node \in {"UserSetLoad", "GainSelector", "PtpEnable"} =>
                    ~p[i].strict \/ ~p[i].required
              /\ p[i].node \in {"UserSetLoad", "LineSource"} => i > n
              /\ p[i].node = "Binning" => i = 1
              /\ p[i].node = "PixelFormat" => i = 2 \/ i > n
              /\ p[i].node = "MroiEnable" => i = 3 + m
              /\ p[i].node = "StatusLine" => i = 4 + m
              /\ p[i].node = "ExposureMode" => i = 5 + m
              /\ p[i].node = "ExposureTime" => x = 1 /\ i = 6 + m
              /\ p[i].node = "TriggerMode" => q = 5 \/ i = 7 + m + x
              /\ p[i].node = "FrameRate" => q = 3 /\ i = 9 + m + x
              /\ p[i].node \notin {"Width", "OffsetX"}

(* The same for the FX10. *)
LEMMA Fx10Ordered ==
    ASSUME NEW c \in ConfigType, NEW m \in {0, 2}, NEW x \in {0, 1}, NEW q \in {3, 5},
           x = 1 <=> ~c.pulseWidth, Fx10At(c, m, x, q)
    PROVE  Fx10Order(c, m, x, q)
<1>. DEFINE p == Fx10Plan(c)
            n == 6 + m + x + q
            on == IF c.mroi THEN "true" ELSE "false"
            mode == IF c.pulseWidth THEN "TriggerControlled" ELSE "Timed"
<1>1. Lax(c.raw)
  BY RawEntries DEF ConfigType
<1>2. /\ List(p) /\ Len(p) = n + Len(c.raw) /\ Len(c.raw) \in Nat
      /\ \A i \in 1 .. Len(c.raw) : p[n + i] = c.raw[i]
  BY <1>1 DEF Fx10At, Lax, List
<1>3. /\ p[1] = Must("Binning", "1", "int") /\ p[2] = Must("PixelFormat", Native.fx10, "enum")
      /\ m = 2 => p[3] = Must("MroiIndex", "0", "int") /\ p[4] = Must("MroiRegion", "set", "int")
      /\ p[3 + m] = Must("MroiEnable", on, "bool") /\ p[4 + m] = Must("StatusLine", "set", "bool")
      /\ p[5 + m] = Must("ExposureMode", mode, "enum")
      /\ x = 1 => p[6 + m] = Must("ExposureTime", "set", "float")
      /\ p[6 + m + x] = Must("TriggerSelector", "FrameStart", "enum")
  BY Zenon DEF Fx10At
<1>4. /\ q = 5 => /\ p[7 + m + x] = Must("TriggerSource", "Line5", "enum")
                  /\ p[8 + m + x] = Must("TriggerMode", "On", "enum")
                  /\ p[9 + m + x] = Must("FrameRateEnable", "false", "bool")
                  /\ p[10 + m + x] = Bonus("CounterSource", "MissedTrigger", "enum")
                  /\ p[11 + m + x] = Bonus("CounterReset", "", "command")
      /\ q = 3 => /\ p[7 + m + x] = Must("TriggerMode", "Off", "enum")
                  /\ p[8 + m + x] = Must("FrameRateEnable", "true", "bool")
                  /\ p[9 + m + x] = Must("FrameRate", "set", "float")
  BY Zenon DEF Fx10At
<1>5. mode = IF x = 1 THEN "Timed" ELSE "TriggerControlled"
  OBVIOUS
<1>. HIDE DEF on, mode
<1>11. /\ Entry(p[1], "Binning", "1") /\ Entry(p[2], "PixelFormat", Native.fx10)
       /\ m = 2 => Entry(p[3], "MroiIndex", "0") /\ Entry(p[4], "MroiRegion", "set")
       /\ Entry(p[3 + m], "MroiEnable", on) /\ Entry(p[4 + m], "StatusLine", "set")
       /\ Entry(p[5 + m], "ExposureMode", mode)
       /\ x = 1 => Entry(p[6 + m], "ExposureTime", "set")
       /\ Entry(p[6 + m + x], "TriggerSelector", "FrameStart")
  BY <1>3, Entries, Zenon
<1>12. /\ q = 5 => /\ Entry(p[7 + m + x], "TriggerSource", "Line5")
                   /\ Entry(p[8 + m + x], "TriggerMode", "On")
                   /\ Entry(p[9 + m + x], "FrameRateEnable", "false")
                   /\ Extra(p[10 + m + x], "CounterSource")
                   /\ Extra(p[11 + m + x], "CounterReset")
       /\ q = 3 => /\ Entry(p[7 + m + x], "TriggerMode", "Off")
                   /\ Entry(p[8 + m + x], "FrameRateEnable", "true")
                   /\ Entry(p[9 + m + x], "FrameRate", "set")
  BY <1>4, Entries, Zenon
<1>8. n \in Nat
  OBVIOUS
<1>. HIDE DEF p
<1>6. ASSUME NEW i \in 1 .. n
      PROVE  \/ Entry(p[i], "Binning", "1") /\ i = 1
             \/ Entry(p[i], "PixelFormat", Native.fx10) /\ i = 2
             \/ Entry(p[i], "MroiIndex", "0") \/ Entry(p[i], "MroiRegion", "set")
             \/ Entry(p[i], "MroiEnable", on) /\ i = 3 + m
             \/ Entry(p[i], "StatusLine", "set") /\ i = 4 + m
             \/ Entry(p[i], "ExposureMode", mode) /\ i = 5 + m
             \/ Entry(p[i], "ExposureTime", "set") /\ x = 1 /\ i = 6 + m
             \/ Entry(p[i], "TriggerSelector", "FrameStart")
             \/ Entry(p[i], "TriggerSource", "Line5")
             \/ Entry(p[i], "TriggerMode", "On") /\ q = 5
             \/ Entry(p[i], "FrameRateEnable", "false") \/ Entry(p[i], "FrameRateEnable", "true")
             \/ Extra(p[i], "CounterSource") \/ Extra(p[i], "CounterReset")
             \/ Entry(p[i], "TriggerMode", "Off") /\ i = 7 + m + x
             \/ Entry(p[i], "FrameRate", "set") /\ q = 3 /\ i = 9 + m + x
  <2>1. \/ i = 1 \/ i = 2 \/ (m = 2 /\ i = 3) \/ (m = 2 /\ i = 4) \/ i = 3 + m \/ i = 4 + m
        \/ i = 5 + m \/ (x = 1 /\ i = 6 + m) \/ i = 6 + m + x
        \/ (q = 5 /\ i = 7 + m + x) \/ (q = 5 /\ i = 8 + m + x) \/ (q = 5 /\ i = 9 + m + x)
        \/ (q = 5 /\ i = 10 + m + x) \/ (q = 5 /\ i = 11 + m + x)
        \/ (q = 3 /\ i = 7 + m + x) \/ (q = 3 /\ i = 8 + m + x) \/ (q = 3 /\ i = 9 + m + x)
    BY <1>6
  <2>. HIDE DEF n
  <2>. QED BY <1>11, <1>12, <2>1
<1>7. \A i \in 1 .. Len(p) : i \in 1 .. n \/ i \in n + 1 .. Len(p)
  BY <1>2
<1>10. Len(p) = n + Len(c.raw)
  BY <1>2
<1>. HIDE DEF n
<1>13. \A i \in n + 1 .. Len(p) : p[i].node \in RawNodes /\ ~p[i].strict
  <2>. TAKE i \in n + 1 .. Len(p)
  <2>1. i - n \in 1 .. Len(c.raw) /\ n + (i - n) = i
    BY <1>2, <1>8
  <2>2. p[i] = c.raw[i - n]
    BY <1>2, <2>1
  <2>. QED BY <1>1, <2>1, <2>2 DEF Lax
<1>9. ASSUME NEW i \in 1 .. Len(p)
      PROVE  /\ i <= n \/ p[i].node \in RawNodes
             /\ p[i].node \in {"UserSetLoad", "GainSelector", "PtpEnable"} =>
                   ~p[i].strict \/ ~p[i].required
             /\ p[i].node \in {"UserSetLoad", "LineSource"} => i > n
             /\ p[i].node = "Binning" => i = 1
             /\ p[i].node = "PixelFormat" => i = 2 \/ i > n
             /\ p[i].node = "MroiEnable" => i = 3 + m
             /\ p[i].node = "StatusLine" => i = 4 + m
             /\ p[i].node = "ExposureMode" => i = 5 + m
             /\ p[i].node = "ExposureTime" => x = 1 /\ i = 6 + m
             /\ p[i].node = "TriggerMode" => q = 5 \/ i = 7 + m + x
             /\ p[i].node = "FrameRate" => q = 3 /\ i = 9 + m + x
             /\ p[i].node \notin {"Width", "OffsetX"}
  <2>1. CASE i \in 1 .. n
    BY <1>6, <1>8, <2>1 DEF Entry, Extra
  <2>2. CASE i \in n + 1 .. Len(p)
    BY <1>8, <1>13, <2>2 DEF RawNodes
  <2>. QED BY <1>7, <2>1, <2>2
<1>14. /\ x = 1 => Entry(p[5 + m], "ExposureMode", "Timed")
       /\ q = 3 => Entry(p[7 + m + x], "TriggerMode", "Off")
       /\ Entry(p[3 + m], "MroiEnable", IF c.mroi THEN "true" ELSE "false")
  BY <1>5, <1>11, <1>12, Zenon DEF on
<1>. QED BY <1>2, <1>11, <1>9, <1>10, <1>14 DEF Fx10Order, p, n

(* What the camera and the recording need of the order of a plan: nothing that
   must be there touches what the driver does not write; every register that the
   camera looks at when it takes a value has been left alone or given the value
   that lets it; without features.raw the contract is the last word. *)
Sayings(p, i, said) == \A s \in said : Says(p, i, s[1], s[2])
ContractOf(c) ==
    IF c.kind = "gox"
    THEN {<<"ExtendedId", "On">>, <<"PixelFormat", Native.gox>>, <<"Digitization", "12">>}
    ELSE {<<"PixelFormat", Native.fx10>>, <<"Binning", "1">>, <<"StatusLine", "set">>,
          <<"MroiEnable", IF c.mroi THEN "true" ELSE "false">>}
PlanOrder(c) ==
    LET p == Plan(c)
    IN  /\ List(p)
        /\ \A i \in 1 .. Len(p) :
              /\ p[i].node \in {"UserSetLoad", "GainSelector", "PtpEnable"} =>
                    ~p[i].strict \/ ~p[i].required
              /\ p[i].node = "Width" =>
                    c.kind = "gox" /\ p[i].value = c.width /\ Unwritten(p, i, "OffsetX")
              /\ p[i].node = "OffsetX" =>
                    /\ c.kind = "gox" /\ p[i].value = c.offset
                    /\ IF c.width = 0 THEN Unwritten(p, i, "Width") ELSE Says(p, i, "Width", c.width)
              /\ p[i].node = "ExposureTime" =>
                    Unwritten(p, i, "ExposureMode") \/ Says(p, i, "ExposureMode", "Timed")
              /\ p[i].node = "FrameRate" =>
                    Unwritten(p, i, "TriggerMode") \/ Says(p, i, "TriggerMode", "Off")
              /\ p[i].node = "LineSource" /\ c.kind # "gox" => c.raw # << >>
        /\ c.raw = << >> => Sayings(p, Len(p) + 1, ContractOf(c))

(* The only write of a node is its last one. *)
LEMMA LastSaid ==
    ASSUME NEW p, NEW i \in Nat, NEW k \in 1 .. i - 1, NEW n, NEW v, Entry(p[k], n, v),
           \A j \in 1 .. i - 1 : p[j].node \in {n, "UserSetLoad"} => j = k
    PROVE  Says(p, i, n, v)
BY DEF Says, LastBefore, Entry

LEMMA GoxPlanOrder ==
    ASSUME NEW c \in ConfigType, c.kind = "gox" PROVE PlanOrder(c)
<1>. DEFINE p == Plan(c)
<1>1. PICK w \in {0, 1}, o \in {0, 1}, f \in {0, 1}, e \in {0, 5} : GoxOrder(c, w, o, f, e)
  <2>. DEFINE w == IF c.width # 0 THEN 1 ELSE 0
              o == IF c.offset # 0 THEN 1 ELSE 0
              f == IF c.external THEN 0 ELSE 1
              e == IF c.external THEN 5 ELSE 0
  <2>1. GoxAt(c, w, o, f, e)
    BY GoxEntries
  <2>2. /\ w \in {0, 1} /\ o \in {0, 1} /\ f \in {0, 1} /\ e \in {0, 5}
        /\ w = 1 <=> c.width # 0
        /\ f = 1 <=> e = 0
    OBVIOUS
  <2>. HIDE DEF w, o, f, e
  <2>3. GoxOrder(c, w, o, f, e)
    BY <2>1, <2>2, GoxOrdered
  <2>. QED BY <2>2, <2>3
<1>. DEFINE n == 6 + w + o + f + e
<1>2. p = GoxPlan(c)
  BY DEF Plan
<1>3. Lax(c.raw)
  BY RawEntries DEF ConfigType
<1>4. /\ List(p) /\ Len(p) = n + Len(c.raw) /\ Len(c.raw) \in Nat
      /\ c.raw = << >> => Len(c.raw) = 0
      /\ w = 1 <=> c.width # 0
      /\ Entry(p[1], "ExtendedId", "On") /\ Entry(p[2], "Digitization", "12")
      /\ w = 1 => Entry(p[3], "Width", c.width)
      /\ o = 1 => Entry(p[3 + w], "OffsetX", c.offset)
      /\ Entry(p[3 + w + o], "PixelFormat", Native.gox)
  BY <1>1, <1>2, <1>3, ZenonT(60) DEF GoxOrder, Lax, List
<1>5. \A i \in 1 .. Len(p) :
              /\ p[i].node \in {"UserSetLoad", "GainSelector", "PtpEnable"} =>
                    ~p[i].strict \/ ~p[i].required
              /\ p[i].node = "UserSetLoad" => i > n
              /\ p[i].node = "ExtendedId" => i = 1
              /\ p[i].node = "Digitization" => i = 2
              /\ p[i].node = "Width" => w = 1 /\ i = 3
              /\ p[i].node = "OffsetX" => o = 1 /\ i = 3 + w
              /\ p[i].node = "PixelFormat" => i = 3 + w + o \/ i > n
              /\ p[i].node = "FrameRate" => e = 0
              /\ p[i].node = "TriggerMode" => e = 5
              /\ p[i].node # "ExposureMode"
  BY <1>1, <1>2, ZenonT(60) DEF GoxOrder
<1>. HIDE DEF p
<1>9. n \in Nat /\ n >= 6 /\ 3 + w + o <= n
  OBVIOUS
<1>. HIDE DEF n
<1>6. n \in Nat /\ n >= 6 /\ 3 + w + o <= n /\ Len(p) \in Nat
  BY <1>4, <1>9
<1>7. ASSUME NEW i \in 1 .. Len(p)
      PROVE  /\ p[i].node = "Width" =>
                    p[i].value = c.width /\ Unwritten(p, i, "OffsetX")
             /\ p[i].node = "OffsetX" =>
                    /\ p[i].value = c.offset
                    /\ IF c.width = 0 THEN Unwritten(p, i, "Width") ELSE Says(p, i, "Width", c.width)
             /\ p[i].node = "ExposureTime" => Unwritten(p, i, "ExposureMode")
             /\ p[i].node = "FrameRate" => Unwritten(p, i, "TriggerMode")
  <2>0. \A j \in 1 .. i - 1 : j \in 1 .. Len(p) /\ j < i
    BY <1>6
  <2>1. p[i].node = "Width" => p[i].value = c.width /\ Unwritten(p, i, "OffsetX")
    BY <1>4, <1>5, <2>0 DEF Unwritten, Entry
  <2>2. ASSUME p[i].node = "OffsetX"
        PROVE  p[i].value = c.offset /\ i = 3 + w
    BY <1>4, <1>5, <2>2 DEF Entry
  <2>3. ASSUME p[i].node = "OffsetX", c.width = 0
        PROVE  Unwritten(p, i, "Width")
    BY <1>4, <1>5, <2>0, <2>3 DEF Unwritten
  <2>4. ASSUME p[i].node = "OffsetX", c.width # 0
        PROVE  Says(p, i, "Width", c.width)
    <3>1. w = 1 /\ i = 4 /\ Entry(p[3], "Width", c.width)
      BY <1>4, <2>2, <2>4
    <3>2. \A j \in 1 .. i - 1 : p[j].node \in {"Width", "UserSetLoad"} => j = 3
      BY <1>5, <1>6, <2>0, <3>1
    <3>. QED BY <3>1, <3>2, LastSaid
  <2>5. p[i].node = "ExposureTime" => Unwritten(p, i, "ExposureMode")
    BY <1>5, <2>0 DEF Unwritten
  <2>6. p[i].node = "FrameRate" => Unwritten(p, i, "TriggerMode")
    BY <1>5, <2>0 DEF Unwritten
  <2>. QED BY <2>1, <2>2, <2>3, <2>4, <2>5, <2>6
<1>8. ASSUME c.raw = << >>
      PROVE  Sayings(p, Len(p) + 1, ContractOf(c))
  <2>1. Len(p) = n /\ (Len(p) + 1) - 1 = Len(p) /\ Len(p) + 1 \in Nat
    BY <1>4, <1>6, <1>8
  <2>2. Says(p, Len(p) + 1, "ExtendedId", "On")
    <3>1. \A j \in 1 .. (Len(p) + 1) - 1 : p[j].node \in {"ExtendedId", "UserSetLoad"} => j = 1
      BY <1>5, <1>6, <2>1
    <3>2. 1 \in 1 .. (Len(p) + 1) - 1 /\ Entry(p[1], "ExtendedId", "On")
      BY <1>4, <1>6, <2>1
    <3>. QED BY <2>1, <3>1, <3>2, LastSaid
  <2>3. Says(p, Len(p) + 1, "Digitization", "12")
    <3>1. \A j \in 1 .. (Len(p) + 1) - 1 : p[j].node \in {"Digitization", "UserSetLoad"} => j = 2
      BY <1>5, <1>6, <2>1
    <3>2. 2 \in 1 .. (Len(p) + 1) - 1 /\ Entry(p[2], "Digitization", "12")
      BY <1>4, <1>6, <2>1
    <3>. QED BY <2>1, <3>1, <3>2, LastSaid
  <2>4. Says(p, Len(p) + 1, "PixelFormat", Native.gox)
    <3>1. \A j \in 1 .. (Len(p) + 1) - 1 : p[j].node \in {"PixelFormat", "UserSetLoad"} => j = 3 + w + o
      BY <1>5, <1>6, <2>1
    <3>2. 3 + w + o \in 1 .. (Len(p) + 1) - 1 /\ Entry(p[3 + w + o], "PixelFormat", Native.gox)
      BY <1>4, <1>6, <2>1
    <3>. QED BY <2>1, <3>1, <3>2, LastSaid
  <2>. QED BY <2>2, <2>3, <2>4 DEF Sayings, ContractOf
<1>. QED BY <1>4, <1>5, <1>7, <1>8 DEF PlanOrder, p

LEMMA Fx10PlanOrder ==
    ASSUME NEW c \in ConfigType, c.kind # "gox" PROVE PlanOrder(c)
<1>. DEFINE p == Plan(c)
<1>1. PICK m \in {0, 2}, x \in {0, 1}, q \in {3, 5} : Fx10Order(c, m, x, q)
  <2>. DEFINE m == IF c.mroi THEN 2 ELSE 0
              x == IF c.pulseWidth THEN 0 ELSE 1
              q == IF c.external THEN 5 ELSE 3
  <2>1. Fx10At(c, m, x, q)
    BY Fx10Entries
  <2>2. /\ m \in {0, 2} /\ x \in {0, 1} /\ q \in {3, 5}
        /\ x = 1 <=> ~c.pulseWidth
    OBVIOUS
  <2>. HIDE DEF m, x, q
  <2>3. Fx10Order(c, m, x, q)
    BY <2>1, <2>2, Fx10Ordered
  <2>. QED BY <2>2, <2>3
<1>. DEFINE n == 6 + m + x + q
            on == IF c.mroi THEN "true" ELSE "false"
<1>2. p = Fx10Plan(c)
  BY DEF Plan
<1>3. Lax(c.raw)
  BY RawEntries DEF ConfigType
<1>4. /\ List(p) /\ Len(p) = n + Len(c.raw) /\ Len(c.raw) \in Nat
      /\ c.raw = << >> <=> Len(c.raw) = 0
      /\ Entry(p[1], "Binning", "1") /\ Entry(p[2], "PixelFormat", Native.fx10)
      /\ Entry(p[3 + m], "MroiEnable", on)
      /\ Entry(p[4 + m], "StatusLine", "set")
      /\ x = 1 => Entry(p[5 + m], "ExposureMode", "Timed")
      /\ q = 3 => Entry(p[7 + m + x], "TriggerMode", "Off")
  BY <1>1, <1>2, <1>3, ZenonT(60) DEF Fx10Order, Lax, List
<1>5. \A i \in 1 .. Len(p) :
              /\ p[i].node \in {"UserSetLoad", "GainSelector", "PtpEnable"} =>
                    ~p[i].strict \/ ~p[i].required
              /\ p[i].node \in {"UserSetLoad", "LineSource"} => i > n
              /\ p[i].node = "Binning" => i = 1
              /\ p[i].node = "PixelFormat" => i = 2 \/ i > n
              /\ p[i].node = "MroiEnable" => i = 3 + m
              /\ p[i].node = "StatusLine" => i = 4 + m
              /\ p[i].node = "ExposureMode" => i = 5 + m
              /\ p[i].node = "ExposureTime" => x = 1 /\ i = 6 + m
              /\ p[i].node = "TriggerMode" => q = 5 \/ i = 7 + m + x
              /\ p[i].node = "FrameRate" => q = 3 /\ i = 9 + m + x
              /\ p[i].node \notin {"Width", "OffsetX"}
  BY <1>1, <1>2, ZenonT(60) DEF Fx10Order
<1>. HIDE DEF p, on
<1>6. n \in Nat /\ 9 + m + x <= n /\ n >= 9 /\ m + x >= 0
  OBVIOUS
<1>. HIDE DEF n
<1>9. Len(p) \in Nat /\ n <= Len(p) /\ 3 + m \in 1 .. Len(p) /\ 4 + m \in 1 .. Len(p)
  BY <1>4, <1>6
<1>7. ASSUME NEW i \in 1 .. Len(p)
      PROVE  /\ p[i].node = "ExposureTime" => Says(p, i, "ExposureMode", "Timed")
             /\ p[i].node = "FrameRate" => Says(p, i, "TriggerMode", "Off")
             /\ p[i].node = "LineSource" => c.raw # << >>
  <2>0. \A j \in 1 .. i - 1 : j \in 1 .. Len(p) /\ j < i
    BY <1>9
  <2>1. ASSUME p[i].node = "ExposureTime"
        PROVE  Says(p, i, "ExposureMode", "Timed")
    <3>1. x = 1 /\ i = 6 + m /\ Entry(p[5 + m], "ExposureMode", "Timed")
      BY <1>4, <1>5, <2>1
    <3>2. 5 + m \in 1 .. i - 1
      BY <3>1
    <3>3. \A j \in 1 .. i - 1 : p[j].node \in {"ExposureMode", "UserSetLoad"} => j = 5 + m
      BY <1>5, <1>6, <1>9, <2>0, <3>1
    <3>. QED BY <3>1, <3>2, <3>3, LastSaid
  <2>2. ASSUME p[i].node = "FrameRate"
        PROVE  Says(p, i, "TriggerMode", "Off")
    <3>1. q = 3 /\ i = 9 + m + x /\ Entry(p[7 + m + x], "TriggerMode", "Off")
      BY <1>4, <1>5, <2>2
    <3>2. 7 + m + x \in 1 .. i - 1
      BY <3>1
    <3>3. ASSUME NEW j \in 1 .. i - 1, p[j].node \in {"TriggerMode", "UserSetLoad"}
          PROVE  j = 7 + m + x
      <4>1. j \in 1 .. Len(p) /\ ~(j > n)
        BY <1>6, <2>0, <3>1
      <4>2. p[j].node = "TriggerMode" /\ q # 5
        BY <1>5, <3>1, <3>3, <4>1
      <4>. QED BY <1>5, <4>1, <4>2
    <3>. QED BY <3>1, <3>2, <3>3, LastSaid
  <2>3. p[i].node = "LineSource" => c.raw # << >>
    BY <1>4, <1>5, <1>6, <1>9
  <2>. QED BY <2>1, <2>2, <2>3
<1>8. ASSUME c.raw = << >>
      PROVE  Sayings(p, Len(p) + 1, ContractOf(c))
  <2>1. Len(p) = n /\ (Len(p) + 1) - 1 = Len(p) /\ Len(p) + 1 \in Nat
    BY <1>4, <1>6, <1>9, <1>8
  <2>2. Says(p, Len(p) + 1, "Binning", "1")
    <3>1. \A j \in 1 .. (Len(p) + 1) - 1 : p[j].node \in {"Binning", "UserSetLoad"} => j = 1
      BY <1>5, <1>6, <1>9, <2>1
    <3>2. 1 \in 1 .. (Len(p) + 1) - 1 /\ Entry(p[1], "Binning", "1")
      BY <1>4, <1>6, <1>9, <2>1
    <3>. QED BY <2>1, <3>1, <3>2, LastSaid
  <2>3. Says(p, Len(p) + 1, "PixelFormat", Native.fx10)
    <3>1. \A j \in 1 .. (Len(p) + 1) - 1 : p[j].node \in {"PixelFormat", "UserSetLoad"} => j = 2
      BY <1>5, <1>6, <1>9, <2>1
    <3>2. 2 \in 1 .. (Len(p) + 1) - 1 /\ Entry(p[2], "PixelFormat", Native.fx10)
      BY <1>4, <1>6, <1>9, <2>1
    <3>. QED BY <2>1, <3>1, <3>2, LastSaid
  <2>4. Says(p, Len(p) + 1, "MroiEnable", on)
    <3>1. \A j \in 1 .. (Len(p) + 1) - 1 : p[j].node \in {"MroiEnable", "UserSetLoad"} => j = 3 + m
      BY <1>5, <1>6, <1>9, <2>1
    <3>. QED BY <1>4, <1>9, <2>1, <3>1, LastSaid
  <2>5. Says(p, Len(p) + 1, "StatusLine", "set")
    <3>1. \A j \in 1 .. (Len(p) + 1) - 1 : p[j].node \in {"StatusLine", "UserSetLoad"} => j = 4 + m
      BY <1>5, <1>6, <1>9, <2>1
    <3>. QED BY <1>4, <1>9, <2>1, <3>1, LastSaid
  <2>. QED BY <2>2, <2>3, <2>4, <2>5 DEF Sayings, ContractOf, on
<1>. QED BY <1>4, <1>5, <1>7, <1>8 DEF PlanOrder, p

(* Every plan has the order that the camera needs. *)
LEMMA PlanOrdered == ASSUME NEW c \in ConfigType PROVE PlanOrder(c)
BY GoxPlanOrder, Fx10PlanOrder

----------------------------------------------------------------------------
(* The inductive invariant of the profiles. *)

Before == {"begin", "timeouts", "command", "await", "confirm", "ptpOff", "ptpOn", "lock",
           "stream", "configure"}
Checked == {"report", "home", "ready", "beforeStart", "pulse", "start"}
Sampling == {"temperature", "binding", "value", "status", "conclude"}
Preparing == Before \cup {"apply", "verify"} \cup Checked

(* The hooks after the contract was verified, until the capture starts. *)
Ready == phase = "baseline" /\ pc \in Checked \cup Sampling

(* The types, in three parts. *)
HookTypes ==
    /\ cfg \in Configs /\ pc \in PCs /\ round \in 1 .. 2
    /\ at \in 1 .. Len(Plan(cfg)) + 1 /\ phase \in {"baseline", "capture", "stop"}
    /\ attempt \in 0 .. HealthRetries
VerdictTypes ==
    /\ stop \in BOOLEAN /\ failed \in BOOLEAN /\ faults \in 0 .. MaxFaults
    /\ why \in {"none", "stop", "device", "refused", "config", "clock", "counter"}
    /\ comm \in {"normal", "raised", "stuck"} /\ (comm = "stuck" => faults > 0)
    /\ synced \in BOOLEAN
    /\ audit \in {"none", "match", "deviates", "unreadable"}
CounterTypes ==
    /\ bound \in BOOLEAN /\ resetDone \in BOOLEAN /\ flags \subseteq Flags
    /\ baseline \in Counts /\ previous \in Counts /\ triggered \in Counts
DeviceTypes ==
    /\ DOMAIN reg = Nodes /\ ready \in BOOLEAN /\ acquiring \in BOOLEAN
    /\ clock \in {"slave", "master", "faulty", "listening"}
    /\ count \in 0 .. CounterMax /\ overflow \in BOOLEAN

(* The history variables count; what a sample holds is a reading. *)
Readings == [binding : BOOLEAN, input : BOOLEAN, value : Counts,
             statusRead : BOOLEAN, overflow : BOOLEAN]
Counting == since \in Nat /\ sinceRead \in 0 .. since /\ sample \in Readings

(* Which hook is whose, and what has not happened before it. *)
Staged ==
    /\ phase = "baseline" => pc \in Preparing \cup Sampling \cup {"over"}
    /\ phase # "baseline" => pc \in Sampling \cup {"health", "capture", "over"}
    /\ phase = "baseline" /\ pc \in Sampling => Gox
    /\ pc \in {"confirm", "ptpOff", "ptpOn", "lock", "binding", "status", "home"} => Gox
    /\ pc = "pulse" => ~Gox
    /\ comm = "raised" => pc = "command" \/ (Gox /\ pc \in {"await", "confirm"})
    /\ phase = "baseline" /\ pc # "over" => ~failed /\ why = "none"
    /\ why = "stop" => phase = "baseline"
    /\ why = "counter" => phase # "baseline"

(* The factory state is in the registers before the plan is. *)
FactoryLoaded ==
    /\ pc \in {"begin", "timeouts", "command"} => ready
    /\ ~Gox /\ round = 1 => pc \in {"begin", "timeouts", "command", "await", "over"}
    /\ \/ pc = "await" /\ (Gox \/ round = 2)
       \/ pc \in Before \ {"begin", "timeouts", "command", "await"}
       => \A n \in Nodes \ {"PtpEnable"} : reg[n] = Factory[n]

(* What the plan has written so far is in the registers, what it has not is from
   the factory. *)
PlanApplied ==
    /\ pc \in Before => at = 1
    /\ pc \in {"verify"} \/ Ready => at = Len(Plan(cfg)) + 1
    /\ pc \in {"apply", "verify"} \/ Ready => InForce(Plan(cfg), at)
    /\ pc = "apply" =>
          \A n \in Nodes \ {"PtpEnable"} : Unwritten(Plan(cfg), at, n) => reg[n] = Factory[n]

(* What was verified stays so until the capture starts. *)
StillVerified ==
    /\ Ready => Contract
    /\ pc \in Before \cup {"apply", "verify", "report"} => audit = "none"
    /\ audit = "match" => reg["Untouched"] = "factory"
    /\ Gox /\ Ready /\ pc \notin {"report", "home"} => reg["GainSelector"] = "0"
    /\ ~Gox /\ phase = "baseline" /\ pc # "over" =>
          shutter = IF pc \notin {"pulse", "start"} THEN << >>
                    ELSE << IF cfg.dark THEN "close" ELSE "open" >>

(* The counter before the capture. *)
CounterFresh ==
    /\ pc \in Before \cup {"apply", "verify"} => ~bound
    /\ phase = "baseline" => since = 0 /\ ~overflow /\ triggered = Null
    /\ phase = "baseline" /\ pc \in Preparing \cup Sampling /\ pc # "start" =>
          baseline = Null /\ previous = Null /\ flags = {}
    /\ pc = "start" => previous = baseline
    /\ phase = "baseline" /\ baseline >= 0 => count = baseline
    /\ bound => CounterBound \/ (Gox /\ reg = Factory /\ faults > 0 /\ phase # "baseline")

(* A counter of the GO-X that is still bound has counted every trigger, unless
   it has wrapped; so has the reading of a sample that saw the binding. *)
GoxCounted ==
    Gox =>
    /\ bound /\ CounterBound /\ baseline >= 0 => overflow \/ count = baseline + since
    /\ pc \in {"binding", "value", "status"} => bound
    /\ pc = "binding" => sample = NoSample
    /\ pc \in {"value", "status"} => ~sample.statusRead /\ ~sample.overflow
    /\ pc \in {"value", "status", "conclude"} /\ sample.binding => bound /\ CounterBound
    /\ pc \in {"status", "conclude"} /\ sample.value >= 0 =>
          /\ sample.binding
          /\ phase = "baseline" => count = sample.value
          /\ baseline >= 0 => overflow \/ sample.value = baseline + sinceRead
    /\ pc = "conclude" /\ sample.value >= 0 /\ baseline >= 0 =>
          sample.overflow \/ ~sample.statusRead \/ sample.value = baseline + sinceRead
    /\ baseline = Negative => "negative" \in flags
    /\ pc \in {"capture", "over"} /\ phase # "baseline" /\ triggered # Null =>
          triggered = sinceRead

(* The FX10's counter turns at most once, and its first miss is the last that
   is not noticed. *)
Turned(n) == IF baseline + n > CounterMax THEN baseline + n - CounterMax - 1 ELSE baseline + n
Fx10Counted ==
    ~Gox /\ phase # "baseline" /\ bound /\ baseline >= 0 =>
    /\ since <= CounterMax /\ count = Turned(since)
    /\ pc = "conclude" /\ sample.value >= 0 => sample.value = Turned(sinceRead)
    /\ ~failed => previous = baseline
    /\ ~failed /\ (pc # "conclude" \/ sample.value < 0) => sinceRead = 0

(* While nothing goes wrong the counter is not blamed. *)
Quiet ==
    bound /\ faults = 0 /\ ~overflow =>
    /\ Gox =>
          /\ flags \cap {"binding_lost", "regressed", "overflow", "negative"} = {}
          /\ -1 <= previous /\ previous <= count
          /\ pc \in {"value", "status", "conclude"} => sample.binding
          /\ pc \in {"status", "conclude"} => sample.value \in previous .. count
          /\ pc = "conclude" => ~sample.overflow
    /\ ~Gox /\ since = 0 /\ (pc = "start" \/ phase # "baseline") =>
          /\ "regressed" \notin flags /\ baseline = count /\ previous = count
          /\ pc = "conclude" => sample.value = count

ProfileIInv ==
    /\ HookTypes /\ VerdictTypes /\ CounterTypes /\ DeviceTypes /\ Counting
    /\ Staged /\ FactoryLoaded /\ PlanApplied /\ StillVerified /\ CounterFresh
    /\ GoxCounted /\ Fx10Counted /\ Quiet /\ FailureHasCause

(* What the plan says last of a node is in its register. *)
LEMMA Heard ==
    ASSUME NEW p, NEW i, NEW n \in Nodes, NEW v, InForce(p, i), Says(p, i, n, v)
    PROVE  reg[n] = v
BY DEF InForce, Says, Entry

(* Every step of the hooks has one SDK call that goes wrong, or none. *)
LEMMA FaultBound ==
    ASSUME VerdictTypes, Fault \/ NoFault
    PROVE  /\ faults' \in 0 .. MaxFaults /\ faults \in Nat /\ faults' >= faults
           /\ (Fault => faults' > 0) /\ (NoFault => faults' = faults) /\ ~(Fault /\ NoFault)
BY CounterAssumption DEF VerdictTypes, Fault, NoFault

LEMMA FactoryNodes == DOMAIN Factory = Nodes
BY DEF Factory

(* What is said of the registers changes with the registers alone. *)
LEMMA SameRegisters ==
    ASSUME reg' = reg, cfg' = cfg
    PROVE  /\ (Contract' <=> Contract) /\ (CounterBound' <=> CounterBound) /\ (Gox' <=> Gox)
           /\ \A p, i : InForce(p, i)' <=> InForce(p, i)
<1>1. (Contract' <=> Contract) /\ (CounterBound' <=> CounterBound) /\ (Gox' <=> Gox)
  BY DEF Contract, GoxContract, Fx10Contract, CounterBound, TriggerCounterBound,
         MissedTriggerBound, Gox
<1>2. ASSUME NEW p, NEW i PROVE InForce(p, i)' <=> InForce(p, i)
  BY DEF InForce
<1>. QED BY <1>1, <1>2

(* The plan of the configuration. *)
LEMMA PlanOfConfig ==
    ASSUME HookTypes
    PROVE  cfg \in ConfigType /\ PlanOrder(cfg) /\ Len(Plan(cfg)) \in Nat
<1>1. cfg \in ConfigType
  BY ConfigsAssumption DEF HookTypes
<1>2. PlanOrder(cfg)
  BY <1>1, PlanOrdered
<1>. QED BY <1>1, <1>2, Zenon DEF PlanOrder, List

----------------------------------------------------------------------------
(* The steps of the hooks, one lemma for each. *)

(* Until the plan is begun, nothing of the counter and of the contract is at
   stake, whatever happens to the registers. *)
LEMMA NothingAtStake ==
    ASSUME ProfileIInv, pc \in Before, pc' \in Before \cup {"over"},
           UNCHANGED <<cfg, at, phase, audit, shutter, counterVars, triggerVars, sinceRead>>
    PROVE  /\ Counting' /\ PlanApplied' /\ StillVerified' /\ CounterFresh'
           /\ GoxCounted' /\ Fx10Counted' /\ Quiet'
<1>. USE DEF counterVars, triggerVars, Before, Preparing, Ready, Checked, Sampling
<1>1. phase = "baseline" /\ ~bound
  BY DEF ProfileIInv, Staged, CounterFresh
<1>2. Counting'
  BY DEF ProfileIInv, Counting
<1>3. PlanApplied' /\ StillVerified'
  BY <1>1 DEF ProfileIInv, PlanApplied, StillVerified, Gox
<1>4. CounterFresh'
  BY <1>1 DEF ProfileIInv, CounterFresh
<1>5. GoxCounted' /\ Fx10Counted' /\ Quiet'
  BY <1>1 DEF ProfileIInv, GoxCounted, Fx10Counted, Quiet, CounterFresh, Gox
<1>. QED BY <1>2, <1>3, <1>4, <1>5

LEMMA FactoryBeginKeeps == ASSUME ProfileIInv, FactoryBegin PROVE ProfileIInv'
<1>. USE DEF FactoryBegin, Goto, Throw, UnlessStopped, verdictVars, reportVars
<1>1. /\ pc \in Before /\ pc' \in Before \cup {"over"}
      /\ UNCHANGED <<cfg, at, phase, audit, shutter, counterVars, triggerVars, sinceRead>>
  BY DEF Before, ProfileIInv, Staged
<1>2. phase = "baseline"
  BY <1>1 DEF ProfileIInv, Staged, Before, Sampling
<1>3. HookTypes'
  BY <1>1 DEF ProfileIInv, HookTypes, PCs, Before
<1>30. VerdictTypes /\ (Fault \/ NoFault)
  BY DEF ProfileIInv
<1>31. VerdictTypes'
  BY <1>1, <1>30, FaultBound DEF VerdictTypes
<1>32. CounterTypes' /\ DeviceTypes'
  BY <1>1 DEF ProfileIInv, CounterTypes, DeviceTypes, counterVars, triggerVars
<1>4. Staged'
  BY <1>1, <1>2 DEF ProfileIInv, HookTypes, VerdictTypes, Staged, Before, Preparing, Gox, Sampling
<1>5. FactoryLoaded'
  BY <1>1, <1>2 DEF ProfileIInv, HookTypes, Staged, FactoryLoaded, Before, Gox
<1>6. FailureHasCause'
  BY <1>1, <1>2, <1>30, FaultBound DEF ProfileIInv, Staged, Before, FailureHasCause, Gox,
     counterVars, triggerVars
<1>. QED BY <1>1, <1>3, <1>31, <1>32, <1>4, <1>5, <1>6, NothingAtStake, Zenon DEF ProfileIInv

LEMMA RaiseTimeoutsKeeps == ASSUME ProfileIInv, RaiseTimeouts PROVE ProfileIInv'
<1>. USE DEF RaiseTimeouts, Broken, Goto, Throw, verdictVars, reportVars, deviceVars
<1>1. /\ pc \in Before /\ pc' \in Before \cup {"over"}
      /\ UNCHANGED <<cfg, at, phase, audit, shutter, counterVars, triggerVars, sinceRead>>
  BY DEF Before, ProfileIInv, Staged
<1>2. phase = "baseline"
  BY <1>1 DEF ProfileIInv, Staged, Before, Sampling
<1>3. HookTypes'
  BY <1>1 DEF ProfileIInv, HookTypes, PCs, Before
<1>30. VerdictTypes /\ (Fault \/ NoFault)
  BY DEF ProfileIInv
<1>31. VerdictTypes'
  BY <1>1, <1>30, FaultBound DEF VerdictTypes
<1>32. CounterTypes' /\ DeviceTypes'
  BY <1>1 DEF ProfileIInv, CounterTypes, DeviceTypes, counterVars, triggerVars
<1>4. Staged'
  BY <1>1, <1>2 DEF ProfileIInv, HookTypes, VerdictTypes, Staged, Before, Preparing, Gox, Sampling
<1>5. FactoryLoaded'
  BY <1>1, <1>2 DEF ProfileIInv, HookTypes, Staged, FactoryLoaded, Before, Gox
<1>6. FailureHasCause'
  BY <1>1, <1>2, <1>30, FaultBound DEF ProfileIInv, Staged, Before, FailureHasCause, Gox,
     counterVars, triggerVars
<1>. QED BY <1>1, <1>3, <1>31, <1>32, <1>4, <1>5, <1>6, NothingAtStake, Zenon DEF ProfileIInv

LEMMA FactoryCommandKeeps == ASSUME ProfileIInv, FactoryCommand PROVE ProfileIInv'
<1>. USE DEF FactoryCommand, RestoreTimeouts, Restored, Broken, Goto, Throw, verdictVars, reportVars
<1>1. /\ pc \in Before /\ pc' \in Before \cup {"over"}
      /\ UNCHANGED <<cfg, at, phase, audit, shutter, counterVars, triggerVars, sinceRead>>
  BY DEF Before, ProfileIInv, Staged
<1>2. phase = "baseline"
  BY <1>1 DEF ProfileIInv, Staged, Before, Sampling
<1>3. HookTypes'
  BY <1>1 DEF ProfileIInv, HookTypes, PCs, Before
<1>30. VerdictTypes /\ (Fault \/ NoFault)
  BY DEF ProfileIInv
<1>31. VerdictTypes'
  <2>1. faults' \in 0 .. MaxFaults /\ faults \in Nat /\ faults' >= faults /\ (Fault => faults' > 0)
    BY <1>30, FaultBound
  <2>2. comm' \in {"normal", "raised", "stuck"} /\ (comm' = "stuck" => faults' > 0)
    <3>1. /\ comm \in {"normal", "raised", "stuck"} /\ (comm = "stuck" => faults > 0)
          /\ comm' \in {comm, Restored, "stuck"} /\ (comm' \in {comm, Restored} \/ Fault)
      BY <1>30 DEF VerdictTypes
    <3>. QED BY <2>1, <3>1
  <2>. QED BY <1>1, <1>30, <2>1, <2>2 DEF VerdictTypes
<1>32. CounterTypes' /\ DeviceTypes'
  BY <1>1, FactoryNodes DEF ProfileIInv, CounterTypes, DeviceTypes, counterVars, triggerVars
<1>4. Staged'
  BY <1>1, <1>2 DEF ProfileIInv, HookTypes, VerdictTypes, Staged, Before, Preparing, Gox, Sampling
<1>5. FactoryLoaded'
  BY <1>1, <1>2 DEF ProfileIInv, HookTypes, Staged, FactoryLoaded, Before, Gox
<1>6. FailureHasCause'
  BY <1>1, <1>2, <1>30, FaultBound DEF ProfileIInv, Staged, Before, FailureHasCause, Gox,
     counterVars, triggerVars
<1>. QED BY <1>1, <1>3, <1>31, <1>32, <1>4, <1>5, <1>6, NothingAtStake, Zenon DEF ProfileIInv

LEMMA WaitCommandDoneKeeps == ASSUME ProfileIInv, WaitCommandDone PROVE ProfileIInv'
<1>. USE DEF WaitCommandDone, RestoreTimeouts, Restored, Goto, Throw, verdictVars, reportVars,
     deviceVars
<1>1. /\ pc \in Before /\ pc' \in Before \cup {"over"}
      /\ UNCHANGED <<cfg, at, phase, audit, shutter, counterVars, triggerVars, sinceRead>>
  BY DEF Before, ProfileIInv, Staged
<1>2. phase = "baseline"
  BY <1>1 DEF ProfileIInv, Staged, Before, Sampling
<1>3. HookTypes'
  BY <1>1 DEF ProfileIInv, HookTypes, PCs, Before
<1>30. VerdictTypes /\ (Fault \/ NoFault)
  BY DEF ProfileIInv
<1>31. VerdictTypes'
  BY <1>1, <1>30, FaultBound DEF VerdictTypes
<1>32. CounterTypes' /\ DeviceTypes'
  BY <1>1 DEF ProfileIInv, CounterTypes, DeviceTypes, counterVars, triggerVars
<1>4. Staged'
  BY <1>1, <1>2 DEF ProfileIInv, HookTypes, VerdictTypes, Staged, Before, Preparing, Gox, Sampling
<1>5. FactoryLoaded'
  BY <1>1, <1>2 DEF ProfileIInv, HookTypes, Staged, FactoryLoaded, Before, Gox
<1>6. FailureHasCause'
  BY <1>1, <1>2, <1>30, FaultBound DEF ProfileIInv, Staged, Before, FailureHasCause, Gox,
     counterVars, triggerVars
<1>. QED BY <1>1, <1>3, <1>31, <1>32, <1>4, <1>5, <1>6, NothingAtStake, Zenon DEF ProfileIInv

LEMMA AwaitControlReadyKeeps == ASSUME ProfileIInv, AwaitControlReady PROVE ProfileIInv'
<1>. USE DEF AwaitControlReady, Goto, Throw, verdictVars, reportVars, deviceVars
<1>1. /\ pc \in Before /\ pc' \in Before \cup {"over"}
      /\ UNCHANGED <<cfg, at, phase, audit, shutter, counterVars, triggerVars, sinceRead>>
  BY DEF Before, ProfileIInv, Staged
<1>2. phase = "baseline"
  BY <1>1 DEF ProfileIInv, Staged, Before, Sampling
<1>3. HookTypes'
  BY <1>1 DEF ProfileIInv, HookTypes, PCs, Before
<1>30. VerdictTypes /\ (Fault \/ NoFault)
  BY DEF ProfileIInv
<1>31. VerdictTypes'
  BY <1>1, <1>30, FaultBound DEF VerdictTypes
<1>32. CounterTypes' /\ DeviceTypes'
  BY <1>1 DEF ProfileIInv, CounterTypes, DeviceTypes, counterVars, triggerVars
<1>4. Staged'
  BY <1>1, <1>2 DEF ProfileIInv, HookTypes, VerdictTypes, Staged, Before, Preparing, Gox, Sampling
<1>5. FactoryLoaded'
  BY <1>1, <1>2 DEF ProfileIInv, HookTypes, Staged, FactoryLoaded, Before, Gox
<1>6. FailureHasCause'
  BY <1>1, <1>2, <1>30, FaultBound DEF ProfileIInv, Staged, Before, FailureHasCause, Gox,
     counterVars, triggerVars
<1>. QED BY <1>1, <1>3, <1>31, <1>32, <1>4, <1>5, <1>6, NothingAtStake, Zenon DEF ProfileIInv

LEMMA ConfirmLoadKeeps == ASSUME ProfileIInv, ConfirmLoad PROVE ProfileIInv'
<1>. USE DEF ConfirmLoad, RestoreTimeouts, Restored, Goto, Throw, UnlessStopped, verdictVars,
     reportVars, deviceVars
<1>1. /\ pc \in Before /\ pc' \in Before \cup {"over"}
      /\ UNCHANGED <<cfg, at, phase, audit, shutter, counterVars, triggerVars, sinceRead>>
  BY DEF Before, ProfileIInv, Staged
<1>2. phase = "baseline"
  BY <1>1 DEF ProfileIInv, Staged, Before, Sampling
<1>3. HookTypes'
  BY <1>1 DEF ProfileIInv, HookTypes, PCs, Before
<1>30. VerdictTypes /\ (Fault \/ NoFault)
  BY DEF ProfileIInv
<1>31. VerdictTypes'
  BY <1>1, <1>30, FaultBound DEF VerdictTypes
<1>32. CounterTypes' /\ DeviceTypes'
  BY <1>1 DEF ProfileIInv, CounterTypes, DeviceTypes, counterVars, triggerVars
<1>4. Staged'
  BY <1>1, <1>2 DEF ProfileIInv, HookTypes, VerdictTypes, Staged, Before, Preparing, Gox, Sampling
<1>5. FactoryLoaded'
  BY <1>1, <1>2 DEF ProfileIInv, HookTypes, Staged, FactoryLoaded, Before, Gox
<1>6. FailureHasCause'
  BY <1>1, <1>2, <1>30, FaultBound DEF ProfileIInv, Staged, Before, FailureHasCause, Gox,
     counterVars, triggerVars
<1>. QED BY <1>1, <1>3, <1>31, <1>32, <1>4, <1>5, <1>6, NothingAtStake, Zenon DEF ProfileIInv

LEMMA PtpDisableKeeps == ASSUME ProfileIInv, PtpDisable PROVE ProfileIInv'
<1>. USE DEF PtpDisable, PtpWrite, Degrade, Goto, Throw, UnlessStopped, verdictVars, reportVars
<1>1. /\ pc \in Before /\ pc' \in Before \cup {"over"}
      /\ UNCHANGED <<cfg, at, phase, audit, shutter, counterVars, triggerVars, sinceRead>>
  BY DEF Before, ProfileIInv, Staged
<1>2. phase = "baseline"
  BY <1>1 DEF ProfileIInv, Staged, Before, Sampling
<1>3. HookTypes'
  BY <1>1 DEF ProfileIInv, HookTypes, PCs, Before
<1>30. VerdictTypes /\ (Fault \/ NoFault)
  BY DEF ProfileIInv
<1>31. VerdictTypes'
  BY <1>1, <1>30, FaultBound DEF VerdictTypes
<1>32. CounterTypes' /\ DeviceTypes'
  BY <1>1 DEF ProfileIInv, CounterTypes, DeviceTypes, counterVars, triggerVars
<1>4. Staged'
  BY <1>1, <1>2 DEF ProfileIInv, HookTypes, VerdictTypes, Staged, Before, Preparing, Gox, Sampling
<1>51. DOMAIN reg = Nodes /\ \A n \in Nodes \ {"PtpEnable"} : reg'[n] = reg[n]
  BY DEF ProfileIInv, DeviceTypes
<1>5. FactoryLoaded'
  BY <1>1, <1>2, <1>51 DEF ProfileIInv, HookTypes, Staged, FactoryLoaded, Before, Gox
<1>6. FailureHasCause'
  BY <1>1, <1>2, <1>30, FaultBound DEF ProfileIInv, Staged, Before, FailureHasCause, Gox,
     counterVars, triggerVars
<1>. QED BY <1>1, <1>3, <1>31, <1>32, <1>4, <1>5, <1>6, NothingAtStake, Zenon DEF ProfileIInv

LEMMA PtpEnableKeeps == ASSUME ProfileIInv, PtpEnable PROVE ProfileIInv'
<1>. USE DEF PtpEnable, PtpWrite, Degrade, Goto, Throw, UnlessStopped, verdictVars, reportVars
<1>1. /\ pc \in Before /\ pc' \in Before \cup {"over"}
      /\ UNCHANGED <<cfg, at, phase, audit, shutter, counterVars, triggerVars, sinceRead>>
  BY DEF Before, ProfileIInv, Staged
<1>2. phase = "baseline"
  BY <1>1 DEF ProfileIInv, Staged, Before, Sampling
<1>3. HookTypes'
  BY <1>1 DEF ProfileIInv, HookTypes, PCs, Before
<1>30. VerdictTypes /\ (Fault \/ NoFault)
  BY DEF ProfileIInv
<1>31. VerdictTypes'
  BY <1>1, <1>30, FaultBound DEF VerdictTypes
<1>32. CounterTypes' /\ DeviceTypes'
  BY <1>1 DEF ProfileIInv, CounterTypes, DeviceTypes, counterVars, triggerVars
<1>4. Staged'
  BY <1>1, <1>2 DEF ProfileIInv, HookTypes, VerdictTypes, Staged, Before, Preparing, Gox, Sampling
<1>51. DOMAIN reg = Nodes /\ \A n \in Nodes \ {"PtpEnable"} : reg'[n] = reg[n]
  BY DEF ProfileIInv, DeviceTypes
<1>5. FactoryLoaded'
  BY <1>1, <1>2, <1>51 DEF ProfileIInv, HookTypes, Staged, FactoryLoaded, Before, Gox
<1>6. FailureHasCause'
  BY <1>1, <1>2, <1>30, FaultBound DEF ProfileIInv, Staged, Before, FailureHasCause, Gox,
     counterVars, triggerVars
<1>. QED BY <1>1, <1>3, <1>31, <1>32, <1>4, <1>5, <1>6, NothingAtStake, Zenon DEF ProfileIInv

LEMMA WaitForSyncKeeps == ASSUME ProfileIInv, WaitForSync PROVE ProfileIInv'
<1>. USE DEF WaitForSync, Degrade, Goto, Throw, UnlessStopped, verdictVars, deviceVars
<1>1. /\ pc \in Before /\ pc' \in Before \cup {"over"}
      /\ UNCHANGED <<cfg, at, phase, audit, shutter, counterVars, triggerVars, sinceRead>>
  BY DEF Before, ProfileIInv, Staged
<1>2. phase = "baseline"
  BY <1>1 DEF ProfileIInv, Staged, Before, Sampling
<1>3. HookTypes'
  BY <1>1 DEF ProfileIInv, HookTypes, PCs, Before
<1>30. VerdictTypes /\ (Fault \/ NoFault)
  BY DEF ProfileIInv
<1>31. VerdictTypes'
  BY <1>1, <1>30, FaultBound DEF VerdictTypes
<1>32. CounterTypes' /\ DeviceTypes'
  BY <1>1 DEF ProfileIInv, CounterTypes, DeviceTypes, counterVars, triggerVars
<1>4. Staged'
  BY <1>1, <1>2 DEF ProfileIInv, HookTypes, VerdictTypes, Staged, Before, Preparing, Gox, Sampling
<1>5. FactoryLoaded'
  BY <1>1, <1>2 DEF ProfileIInv, HookTypes, Staged, FactoryLoaded, Before, Gox
<1>6. FailureHasCause'
  BY <1>1, <1>2, <1>30, FaultBound DEF ProfileIInv, Staged, Before, FailureHasCause, Gox,
     counterVars, triggerVars
<1>. QED BY <1>1, <1>3, <1>31, <1>32, <1>4, <1>5, <1>6, NothingAtStake, Zenon DEF ProfileIInv

LEMMA ConfigureStreamKeeps == ASSUME ProfileIInv, ConfigureStream PROVE ProfileIInv'
<1>. USE DEF ConfigureStream, Interrupted, Goto, Throw, verdictVars, reportVars, deviceVars
<1>1. /\ pc \in Before /\ pc' \in Before \cup {"over"}
      /\ UNCHANGED <<cfg, at, phase, audit, shutter, counterVars, triggerVars, sinceRead>>
  BY DEF Before, ProfileIInv, Staged
<1>2. phase = "baseline"
  BY <1>1 DEF ProfileIInv, Staged, Before, Sampling
<1>3. HookTypes'
  BY <1>1 DEF ProfileIInv, HookTypes, PCs, Before
<1>30. VerdictTypes /\ (Fault \/ NoFault)
  BY DEF ProfileIInv
<1>31. VerdictTypes'
  BY <1>1, <1>30, FaultBound DEF VerdictTypes
<1>32. CounterTypes' /\ DeviceTypes'
  BY <1>1 DEF ProfileIInv, CounterTypes, DeviceTypes, counterVars, triggerVars
<1>4. Staged'
  BY <1>1, <1>2 DEF ProfileIInv, HookTypes, VerdictTypes, Staged, Before, Preparing, Gox, Sampling
<1>5. FactoryLoaded'
  BY <1>1, <1>2 DEF ProfileIInv, HookTypes, Staged, FactoryLoaded, Before, Gox
<1>6. FailureHasCause'
  BY <1>1, <1>2, <1>30, FaultBound DEF ProfileIInv, Staged, Before, FailureHasCause, Gox,
     counterVars, triggerVars
<1>. QED BY <1>1, <1>3, <1>31, <1>32, <1>4, <1>5, <1>6, NothingAtStake, Zenon DEF ProfileIInv

LEMMA BeginConfigureKeeps == ASSUME ProfileIInv, BeginConfigure PROVE ProfileIInv'
<1>. USE DEF BeginConfigure, Goto, Throw, UnlessStopped, verdictVars, reportVars, counterVars,
     deviceVars, triggerVars
<1>1. phase = "baseline" /\ pc = "configure"
  BY DEF ProfileIInv, Staged, Sampling
<1>2. VerdictTypes /\ (Fault \/ NoFault)
  BY DEF ProfileIInv
<1>11. HookTypes'
  BY <1>1 DEF ProfileIInv, HookTypes, Staged, PCs, Before, Checked, Sampling, Preparing, Ready
<1>12. VerdictTypes'
  BY <1>1, <1>2, FaultBound DEF ProfileIInv, VerdictTypes
<1>13. CounterTypes'
  BY <1>1 DEF ProfileIInv, CounterTypes
<1>14. DeviceTypes'
  BY <1>1 DEF ProfileIInv, DeviceTypes
<1>15. Counting'
  BY <1>1 DEF ProfileIInv, Counting, Staged, Counts, NoSample
<1>16. Staged'
  BY <1>1 DEF ProfileIInv, Staged, Gox, Before, Checked, Sampling, Preparing, Ready
<1>17. FactoryLoaded'
  BY <1>1 DEF ProfileIInv, Staged, FactoryLoaded, Gox, Before, Checked, Sampling, Preparing, Ready
<1>18. PlanApplied'
  BY <1>1 DEF ProfileIInv, Staged, PlanApplied, Before, Checked, Sampling, Preparing, Ready,
     FactoryLoaded, InForce, Unwritten
<1>19. StillVerified'
  BY <1>1 DEF ProfileIInv, Staged, StillVerified, Gox, Before, Checked, Sampling, Preparing, Ready
<1>20. CounterFresh'
  BY <1>1, <1>2, FaultBound DEF ProfileIInv, Staged, CounterFresh, Gox, Before, Checked, Sampling,
     Preparing, Ready
<1>21. GoxCounted'
  BY <1>1 DEF ProfileIInv, Staged, CounterFresh, GoxCounted, Gox, NoSample, Null, Negative,
     Before, Checked, Sampling, Preparing, Ready
<1>22. Fx10Counted'
  BY <1>1 DEF ProfileIInv, Staged, CounterFresh, Fx10Counted, Gox, Turned, Before, Checked,
     Sampling, Preparing, Ready
<1>23. Quiet'
  BY <1>1, <1>2, FaultBound DEF ProfileIInv, DeviceTypes, Staged, CounterFresh, Quiet, Gox, Null,
     Negative, Before, Checked, Sampling, Preparing, Ready
<1>24. FailureHasCause'
  BY <1>1, <1>2, FaultBound DEF ProfileIInv, Staged, FailureHasCause, Gox, Before, Checked,
     Sampling, Preparing, Ready
<1>. QED BY <1>11, <1>12, <1>13, <1>14, <1>15, <1>16, <1>17, <1>18, <1>19, <1>20, <1>21, <1>22,
     <1>23, <1>24, Zenon DEF ProfileIInv

LEMMA ApplyDoneKeeps == ASSUME ProfileIInv, ApplyDone PROVE ProfileIInv'
<1>. USE DEF ApplyDone, Goto, verdictVars, reportVars, counterVars, deviceVars, triggerVars
<1>1. phase = "baseline" /\ pc = "apply"
  BY DEF ProfileIInv, Staged, Sampling
<1>2. VerdictTypes /\ (Fault \/ NoFault)
  BY DEF ProfileIInv
<1>3. /\ (Contract' <=> Contract) /\ (CounterBound' <=> CounterBound) /\ (Gox' <=> Gox)
      /\ \A p, i : InForce(p, i)' <=> InForce(p, i)
  BY SameRegisters
<1>11. HookTypes'
  BY <1>1 DEF ProfileIInv, HookTypes, Staged, PCs, Before, Checked, Sampling, Preparing, Ready
<1>12. VerdictTypes'
  BY <1>1, <1>2, FaultBound DEF ProfileIInv, VerdictTypes
<1>13. CounterTypes'
  BY <1>1 DEF ProfileIInv, CounterTypes
<1>14. DeviceTypes'
  BY <1>1 DEF ProfileIInv, DeviceTypes
<1>15. Counting'
  BY <1>1 DEF ProfileIInv, Counting, Staged, Counts, NoSample
<1>16. Staged'
  BY <1>1 DEF ProfileIInv, Staged, Gox, Before, Checked, Sampling, Preparing, Ready
<1>17. FactoryLoaded'
  BY <1>1 DEF ProfileIInv, Staged, FactoryLoaded, Gox, Before, Checked, Sampling, Preparing, Ready
<1>18. PlanApplied'
  BY <1>1, <1>3, PlanOfConfig DEF ProfileIInv, Staged, PlanApplied, Before, Checked, Sampling,
     Preparing, Ready, HookTypes
<1>19. StillVerified'
  BY <1>1, <1>3 DEF ProfileIInv, Staged, StillVerified, Before, Checked, Sampling, Preparing, Ready
<1>20. CounterFresh'
  BY <1>1, <1>2, FaultBound, <1>3 DEF ProfileIInv, Staged, CounterFresh, Before, Checked,
     Sampling, Preparing, Ready
<1>21. GoxCounted'
  BY <1>1, <1>3 DEF ProfileIInv, Staged, CounterFresh, GoxCounted, NoSample, Null, Negative,
     Before, Checked, Sampling, Preparing, Ready
<1>22. Fx10Counted'
  BY <1>1 DEF ProfileIInv, Staged, CounterFresh, Fx10Counted, Gox, Turned, Before, Checked,
     Sampling, Preparing, Ready
<1>23. Quiet'
  BY <1>1, <1>2, FaultBound, <1>3 DEF ProfileIInv, DeviceTypes, Staged, CounterFresh, Quiet, Null,
     Negative, Before, Checked, Sampling, Preparing, Ready
<1>24. FailureHasCause'
  BY <1>1, <1>2, FaultBound DEF ProfileIInv, Staged, FailureHasCause, Gox, Before, Checked,
     Sampling, Preparing, Ready
<1>. QED BY <1>11, <1>12, <1>13, <1>14, <1>15, <1>16, <1>17, <1>18, <1>19, <1>20, <1>21, <1>22,
     <1>23, <1>24, Zenon DEF ProfileIInv

(* What a write leaves in the registers. *)
LEMMA WrittenRegisters ==
    ASSUME NEW r, DOMAIN r = Nodes, NEW w, NEW reply
    PROVE  /\ DOMAIN Written(r, w, reply) = Nodes
           /\ \A n \in Nodes : \/ n = w.node
                               \/ Written(r, w, reply)[n] = r[n]
                               \/ w.node = "UserSetLoad" /\ Written(r, w, reply) = Factory
           /\ w.node \in Nodes /\ reply = "exact" => Written(r, w, reply)[w.node] = w.value
<1>. DEFINE load == w.node = "UserSetLoad" /\ reply \in {"exact", "unconfirmed"}
            kept == w.node \notin Nodes \/ reply \in {"refused", "absent"}
            taken == IF reply # "clamped" THEN w.value
                     ELSE IF w.node = "Width" THEN Sensor - r["OffsetX"]
                     ELSE IF w.node = "OffsetX" THEN Sensor - r["Width"] ELSE "clamped"
<1>1. "UserSetLoad" \notin Nodes
  BY DEF Nodes
<1>2. Written(r, w, reply) = IF load THEN Factory ELSE IF kept THEN r ELSE [r EXCEPT ![w.node] = taken]
  BY DEF Written
<1>3. reply = "exact" => taken = w.value
  OBVIOUS
<1>. HIDE DEF taken
<1>4. CASE load
  BY <1>1, <1>2, <1>4, FactoryNodes
<1>5. CASE ~load /\ kept
  BY <1>2, <1>5
<1>6. CASE ~load /\ ~kept
  BY <1>2, <1>3, <1>6
<1>. QED BY <1>4, <1>5, <1>6

(* The camera refuses what the plan asks of it only when the window is too wide. *)
LEMMA RefusedWindow ==
    ASSUME ProfileIInv, pc = "apply", at \in 1 .. Len(Plan(cfg)),
           NEW w, w = Plan(cfg)[at], Natural(reg, w) # "exact"
    PROVE  /\ Gox
           /\ cfg.offset + (IF cfg.width = 0 THEN Sensor ELSE cfg.width) > Sensor
<1>. DEFINE p == Plan(cfg)
<1>1. HookTypes /\ cfg \in ConfigType /\ PlanOrder(cfg)
  BY PlanOfConfig DEF ProfileIInv
<1>2. /\ w.node = "Width" => Gox /\ w.value = cfg.width /\ Unwritten(p, at, "OffsetX")
      /\ w.node = "OffsetX" =>
            /\ Gox /\ w.value = cfg.offset
            /\ IF cfg.width = 0 THEN Unwritten(p, at, "Width") ELSE Says(p, at, "Width", cfg.width)
      /\ w.node = "ExposureTime" =>
            Unwritten(p, at, "ExposureMode") \/ Says(p, at, "ExposureMode", "Timed")
      /\ w.node = "FrameRate" =>
            Unwritten(p, at, "TriggerMode") \/ Says(p, at, "TriggerMode", "Off")
  BY <1>1, Zenon DEF PlanOrder, Gox
<1>. HIDE DEF p
<1>3. /\ InForce(p, at)
      /\ \A n \in Nodes \ {"PtpEnable"} : Unwritten(p, at, n) => reg[n] = Factory[n]
  BY DEF p, ProfileIInv, PlanApplied, Before, Ready
<1>4. {"Width", "OffsetX", "ExposureMode", "TriggerMode"} \subseteq Nodes \ {"PtpEnable"}
  BY DEF Nodes
<1>5. /\ Factory["Width"] = Sensor /\ Factory["OffsetX"] = 0
      /\ Factory["ExposureMode"] = "Timed" /\ Factory["TriggerMode"] = "Off"
  BY <1>4 DEF Factory
<1>6. /\ w.node = "Width" => Gox /\ w.value = cfg.width /\ reg["OffsetX"] = 0
      /\ w.node = "OffsetX" =>
            Gox /\ w.value = cfg.offset
            /\ reg["Width"] = IF cfg.width = 0 THEN Sensor ELSE cfg.width
      /\ w.node = "ExposureTime" => reg["ExposureMode"] = "Timed"
      /\ w.node = "FrameRate" => reg["TriggerMode"] = "Off"
  BY <1>2, <1>3, <1>4, <1>5, Heard
<1>7. cfg.width \in 0 .. Sensor /\ cfg.offset \in 0 .. Sensor /\ Sensor \in Nat
  BY <1>1, CounterAssumption DEF ConfigType
<1>. QED BY <1>6, <1>7 DEF Natural

LEMMA ApplyFeatureKeeps == ASSUME ProfileIInv, ApplyFeature PROVE ProfileIInv'
<1>. DEFINE p == Plan(cfg)
            w == p[at]
<1>. USE DEF counterVars, verdictVars
<1>1. PICK reply \in {Natural(reg, w), "refused", "unconfirmed", "clamped", "absent"} :
          /\ IF reply = Natural(reg, w) THEN NoFault ELSE Fault
          /\ IF BlindLineSource THEN UNCHANGED reg ELSE reg' = Written(reg, w, reply)
          /\ \/ /\ ~BlindLineSource /\ (Verified(w, reply) \/ ~w.required)
                /\ applied' = Append(applied, IF Verified(w, reply) THEN "done" ELSE "skipped")
                /\ at' = at + 1 /\ Goto("apply")
             \/ /\ BlindLineSource /\ Throw("config") /\ UNCHANGED <<applied, at>>
             \/ /\ ~BlindLineSource /\ ~Verified(w, reply) /\ w.required
                /\ Throw(IF reply = Natural(reg, w) THEN "refused" ELSE "device")
                /\ UNCHANGED <<applied, at>>
          /\ count' = IF w.node = "CounterReset" /\ reply \in {"exact", "unconfirmed"}
                      THEN 0 ELSE count
  BY Zenon DEF ApplyFeature
<1>2. /\ pc = "apply" /\ at <= Len(p)
      /\ UNCHANGED <<cfg, round, phase, attempt, comm, synced, audit, shutter,
                     counterVars, ready, acquiring, clock, overflow, since, sinceRead>>
  BY DEF ApplyFeature
<1>3. /\ HookTypes /\ VerdictTypes /\ PlanOrder(cfg) /\ Len(p) \in Nat /\ at \in 1 .. Len(p)
  BY <1>2, PlanOfConfig DEF ProfileIInv, HookTypes
<1>4. phase = "baseline" /\ ~bound /\ baseline = Null /\ previous = Null /\ audit = "none"
      /\ ~failed /\ why = "none" /\ comm # "raised" /\ ~(~Gox /\ round = 1)
  BY <1>2 DEF ProfileIInv, Staged, Sampling, Before, CounterFresh, StillVerified, Preparing,
              VerdictTypes, FactoryLoaded
<1>5. faults' \in 0 .. MaxFaults /\ faults \in Nat /\ faults' >= faults
  BY <1>1, <1>3, FaultBound
<1>6. \/ at' = at + 1 /\ pc' = "apply" /\ UNCHANGED <<stop, failed, why>>
         /\ ~BlindLineSource /\ (Verified(w, reply) \/ ~w.required)
      \/ /\ at' = at /\ pc' = "over" /\ failed' = TRUE /\ stop' = TRUE
         /\ \/ why' = "config" /\ BlindLineSource
            \/ why' = "refused" /\ w.required /\ ~Verified(w, Natural(reg, w))
            \/ why' = "device"
  BY <1>1, <1>4, Zenon DEF Goto, Throw
<1>7. DOMAIN reg' = Nodes /\ count' \in 0 .. CounterMax
  <2>1. DOMAIN reg = Nodes /\ count \in 0 .. CounterMax
    BY DEF ProfileIInv, DeviceTypes
  <2>2. DOMAIN Written(reg, w, reply) = Nodes
    BY <2>1, WrittenRegisters
  <2>3. 0 \in 0 .. CounterMax
    BY CounterAssumption
  <2>. QED BY <1>1, <2>1, <2>2, <2>3
<1>11. HookTypes' /\ VerdictTypes'
  <2>1. HookTypes'
    BY <1>2, <1>3, <1>6 DEF HookTypes, PCs
  <2>2. /\ comm' \in {"normal", "raised", "stuck"} /\ (comm' = "stuck" => faults' > 0)
        /\ synced' \in BOOLEAN /\ audit' \in {"none", "match", "deviates", "unreadable"}
    <3>1. comm' = comm /\ synced' = synced /\ audit' = audit
      BY <1>2
    <3>. QED BY <1>3, <1>5, <3>1 DEF VerdictTypes
  <2>3. /\ stop' \in BOOLEAN /\ failed' \in BOOLEAN
        /\ why' \in {"none", "stop", "device", "refused", "config", "clock", "counter"}
    BY <1>3, <1>6, Zenon DEF VerdictTypes
  <2>. QED BY <1>5, <2>1, <2>2, <2>3 DEF VerdictTypes
<1>12. CounterTypes' /\ DeviceTypes'
  BY <1>2, <1>7 DEF ProfileIInv, CounterTypes, DeviceTypes
<1>13. Counting'
  BY <1>2 DEF ProfileIInv, Counting
<1>14. Staged'
  BY <1>2, <1>4, <1>6 DEF Staged, Preparing, Sampling, Gox
<1>15. FactoryLoaded'
  BY <1>2, <1>4, <1>6 DEF FactoryLoaded, Before, Gox
<1>16. PlanApplied'
  <2>1. CASE pc' = "over"
    BY <1>2, <1>4, <2>1 DEF PlanApplied, Before, Ready, Checked, Sampling
  <2>2. CASE pc' = "apply"
    <3>1. /\ reg' = Written(reg, w, reply) /\ at' = at + 1 /\ cfg' = cfg
          /\ Verified(w, reply) \/ ~w.required
      BY <1>1, <1>2, <1>6, <2>2
    <3>2. /\ InForce(p, at) /\ DOMAIN reg = Nodes
          /\ \A n \in Nodes \ {"PtpEnable"} : Unwritten(p, at, n) => reg[n] = Factory[n]
      BY <1>2 DEF ProfileIInv, PlanApplied, DeviceTypes
    <3>3. /\ \A n \in Nodes : \/ n = w.node \/ reg'[n] = reg[n]
                              \/ w.node = "UserSetLoad" /\ reg'[n] = Factory[n]
          /\ w.node \in Nodes /\ reply = "exact" => reg'[w.node] = w.value
      BY <3>1, <3>2, WrittenRegisters
    <3>4. w.strict /\ w.required => reply = "exact"
      BY <3>1 DEF Verified
    <3>. HIDE DEF p
    <3>5. InForce(p, at)'
      <4>. SUFFICES ASSUME NEW k \in 1 .. at, p[k].required, p[k].strict, p[k].node \in Nodes,
                           LastBefore(p, k, at + 1)
                    PROVE  reg'[p[k].node] = p[k].value
        BY <1>2, <1>3, <3>1 DEF InForce, p
      <4>1. CASE k = at
        BY <3>3, <3>4, <4>1
      <4>2. CASE k # at
        <5>1. k \in 1 .. at - 1 /\ at \in k + 1 .. (at + 1) - 1
              /\ \A j \in k + 1 .. at - 1 : j \in k + 1 .. (at + 1) - 1
          BY <1>3, <4>2
        <5>2. LastBefore(p, k, at) /\ w.node \notin {p[k].node, "UserSetLoad"}
          BY <5>1 DEF LastBefore
        <5>3. reg[p[k].node] = p[k].value
          BY <3>2, <5>1, <5>2 DEF InForce
        <5>. QED BY <3>3, <5>2, <5>3
      <4>. QED BY <4>1, <4>2
    <3>6. ASSUME NEW n \in Nodes \ {"PtpEnable"}, Unwritten(p, at + 1, n)
          PROVE  reg'[n] = Factory[n]
      <4>1. at \in 1 .. (at + 1) - 1 /\ \A j \in 1 .. at - 1 : j \in 1 .. (at + 1) - 1
        BY <1>3
      <4>2. Unwritten(p, at, n) /\ n # w.node
        BY <3>6, <4>1 DEF Unwritten
      <4>. QED BY <3>2, <3>3, <4>2
    <3>7. p' = p
      BY <1>2 DEF p
    <3>. QED BY <1>2, <1>4, <2>2, <3>1, <3>5, <3>6, <3>7
             DEF PlanApplied, Before, Ready, Checked, Sampling, p
  <2>. QED BY <1>6, <2>1, <2>2
<1>17. StillVerified'
  BY <1>2, <1>4, <1>6 DEF ProfileIInv, StillVerified, Ready, Checked, Sampling, Before, Gox
<1>18. CounterFresh'
  BY <1>2, <1>4, <1>6 DEF ProfileIInv, CounterFresh, Preparing, Null
<1>19. GoxCounted' /\ Fx10Counted' /\ Quiet'
  BY <1>2, <1>4, <1>6 DEF GoxCounted, Fx10Counted, Quiet, Null, Negative
<1>20. FailureHasCause'
  <2>1. BlindLineSource => cfg.raw # << >>
    BY <1>3 DEF PlanOrder, BlindLineSource, Gox
  <2>2. w.required /\ ~Verified(w, Natural(reg, w)) =>
           Gox /\ cfg.offset + (IF cfg.width = 0 THEN Sensor ELSE cfg.width) > Sensor
    <3>1. ~Verified(w, Natural(reg, w)) => Natural(reg, w) # "exact"
      BY DEF Verified
    <3>. QED BY <1>2, <1>3, <3>1, RefusedWindow
  <2>. QED BY <1>2, <1>4, <1>6, <2>1, <2>2 DEF FailureHasCause, Gox
<1>. QED BY <1>11, <1>12, <1>13, <1>14, <1>15, <1>16, <1>17, <1>18, <1>19, <1>20, Zenon
         DEF ProfileIInv

(* Without features.raw the plan alone makes the contract. *)
LEMMA ContractOfPlan ==
    ASSUME ProfileIInv, pc = "verify", cfg.raw = << >> PROVE Contract
<1>. DEFINE p == Plan(cfg)
<1>1. HookTypes /\ PlanOrder(cfg)
  BY PlanOfConfig DEF ProfileIInv
<1>2. Sayings(p, Len(p) + 1, ContractOf(cfg))
  BY <1>1, Zenon DEF PlanOrder
<1>3. InForce(p, at) /\ at = Len(p) + 1
  BY DEF ProfileIInv, PlanApplied, Before, Ready
<1>. HIDE DEF p
<1>4. {"ExtendedId", "PixelFormat", "Digitization", "Binning", "StatusLine", "MroiEnable"}
         \subseteq Nodes
  BY DEF Nodes
<1>5. \A s \in ContractOf(cfg) : Says(p, at, s[1], s[2])
  BY <1>2, <1>3 DEF Sayings
<1>6. CASE Gox
  <2>1. /\ Says(p, at, "ExtendedId", "On") /\ Says(p, at, "PixelFormat", Native.gox)
        /\ Says(p, at, "Digitization", "12")
    BY <1>5, <1>6 DEF ContractOf, Gox
  <2>2. /\ reg["ExtendedId"] = "On" /\ reg["PixelFormat"] = Native.gox /\ reg["Digitization"] = "12"
    BY <1>3, <1>4, <2>1, Heard
  <2>. QED BY <1>6, <2>2 DEF Contract, GoxContract
<1>7. CASE ~Gox
  <2>. DEFINE on == IF cfg.mroi THEN "true" ELSE "false"
  <2>1. /\ Says(p, at, "PixelFormat", Native.fx10) /\ Says(p, at, "Binning", "1")
        /\ Says(p, at, "StatusLine", "set") /\ Says(p, at, "MroiEnable", on)
    BY <1>5, <1>7 DEF ContractOf, Gox
  <2>. HIDE DEF on
  <2>2. /\ reg["PixelFormat"] = Native.fx10 /\ reg["Binning"] = "1" /\ reg["StatusLine"] = "set"
        /\ reg["MroiEnable"] = on
    BY <1>3, <1>4, <2>1, Heard
  <2>. QED BY <1>7, <2>2 DEF Contract, Fx10Contract, on
<1>. QED BY <1>6, <1>7

(* The audit and the selectors it puts back touch no register of the contract
   and none that the plan had to write. *)
LEMMA OnlyTheGain ==
    ASSUME ProfileIInv, cfg' = cfg, \A n \in Nodes \ {"GainSelector"} : reg'[n] = reg[n]
    PROVE  /\ (Contract' <=> Contract) /\ (CounterBound' <=> CounterBound) /\ (Gox' <=> Gox)
           /\ InForce(Plan(cfg), Len(Plan(cfg)) + 1) => InForce(Plan(cfg), Len(Plan(cfg)) + 1)'
<1>1. {"ExtendedId", "PixelFormat", "Digitization", "Binning", "StatusLine", "MroiEnable",
       "CounterSelector", "CounterSource"} \subseteq Nodes \ {"GainSelector"}
  BY DEF Nodes
<1>2. (Contract' <=> Contract) /\ (CounterBound' <=> CounterBound) /\ (Gox' <=> Gox)
  BY <1>1 DEF Contract, GoxContract, Fx10Contract, CounterBound, TriggerCounterBound,
              MissedTriggerBound, Gox
<1>. DEFINE p == Plan(cfg)
<1>3. Len(p) \in Nat
      /\ \A i \in 1 .. Len(p) : p[i].node = "GainSelector" => ~p[i].strict \/ ~p[i].required
  <2>1. HookTypes /\ PlanOrder(cfg) /\ Len(p) \in Nat
    BY PlanOfConfig DEF ProfileIInv
  <2>. QED BY <2>1 DEF PlanOrder
<1>4. p' = p
  OBVIOUS
<1>. HIDE DEF p
<1>5. InForce(p, Len(p) + 1) => InForce(p, Len(p) + 1)'
  BY <1>3, <1>4 DEF InForce
<1>. QED BY <1>2, <1>5 DEF p

(* The selectors that the audit moves and puts back. *)
LEMMA MovedSelector ==
    ASSUME DOMAIN reg = Nodes
    PROVE  /\ DOMAIN Selected(SelectorAuditExpectations) = Nodes
           /\ DOMAIN Selected(SelectorHomeEntries) = Nodes
           /\ \A n \in Nodes \ {"GainSelector"} :
                 /\ Selected(SelectorAuditExpectations)[n] = reg[n]
                 /\ Selected(SelectorHomeEntries)[n] = reg[n]
           /\ Selected(SelectorHomeEntries)["GainSelector"] = "0"
<1>1. "GainSelector" \in Nodes
  BY DEF Nodes
<1>. QED BY <1>1 DEF SelectorAuditExpectations, SelectorHomeEntries, Selected

LEMMA VerifyContractKeeps == ASSUME ProfileIInv, VerifyContract PROVE ProfileIInv'
<1>. USE DEF VerifyContract, Goto, Throw, UnlessStopped, verdictVars, reportVars, deviceVars,
     triggerVars
<1>1. phase = "baseline" /\ pc = "verify"
  BY DEF ProfileIInv, Staged, Sampling
<1>4. /\ bound' \in BOOLEAN
      /\ bound' => Contract /\ CounterBound
      /\ pc' = "report" => Contract
      /\ pc' \in {"report", "over"} /\ (pc' = "report" => UNCHANGED verdictVars)
      /\ why' # why => why' \in {"stop", "device", "config"}
      /\ why' = "config" => why = "config" \/ cfg.raw # << >>
      /\ UNCHANGED <<cfg, round, at, phase, attempt, comm, reportVars, resetDone, baseline,
                     previous, flags, sample, triggered, deviceVars, triggerVars, sinceRead>>
  <2>1. cfg.raw = << >> => Contract
    BY <1>1, ContractOfPlan
  <2>. QED BY <1>1, <2>1 DEF Contract, GoxContract, Fx10Contract, CounterBound, TriggerCounterBound,
                             MissedTriggerBound
<1>2. VerdictTypes /\ (Fault \/ NoFault)
  BY DEF ProfileIInv
<1>3. /\ (Contract' <=> Contract) /\ (CounterBound' <=> CounterBound) /\ (Gox' <=> Gox)
      /\ \A p, i : InForce(p, i)' <=> InForce(p, i)
  BY <1>4, SameRegisters
<1>. HIDE DEF VerifyContract
<1>11. HookTypes'
  BY <1>1, <1>4 DEF ProfileIInv, HookTypes, Staged, PCs, Before, Checked, Sampling, Preparing, Ready
<1>12. VerdictTypes'
  BY <1>1, <1>2, FaultBound DEF VerifyContract, VerdictTypes
<1>13. CounterTypes'
  BY <1>1, <1>4 DEF ProfileIInv, CounterTypes
<1>14. DeviceTypes'
  BY <1>1, <1>4 DEF ProfileIInv, DeviceTypes
<1>15. Counting'
  BY <1>1, <1>4 DEF ProfileIInv, Counting, Staged, Counts, NoSample
<1>16. Staged'
  BY <1>1, <1>4 DEF ProfileIInv, Staged, Gox, Before, Checked, Sampling, Preparing, Ready
<1>17. FactoryLoaded'
  BY <1>1, <1>4 DEF ProfileIInv, Staged, FactoryLoaded, Gox, Before, Checked, Sampling, Preparing,
     Ready
<1>18. PlanApplied'
  BY <1>1, <1>4, <1>3 DEF ProfileIInv, Staged, PlanApplied, Before, Checked, Sampling, Preparing,
     Ready
<1>19. StillVerified'
  BY <1>1, <1>4, <1>3 DEF ProfileIInv, Staged, StillVerified, Before, Checked, Sampling,
     Preparing, Ready
<1>20. CounterFresh'
  BY <1>1, <1>4, <1>2, FaultBound, <1>3 DEF ProfileIInv, Staged, CounterFresh, Before, Checked,
     Sampling, Preparing, Ready
<1>21. GoxCounted'
  BY <1>1, <1>4, <1>3 DEF ProfileIInv, Staged, CounterFresh, GoxCounted, NoSample, Null, Negative,
     Before, Checked, Sampling, Preparing, Ready
<1>22. Fx10Counted'
  BY <1>1, <1>4 DEF ProfileIInv, Staged, CounterFresh, Fx10Counted, Gox, Turned, Before, Checked,
     Sampling, Preparing, Ready
<1>23. Quiet'
  BY <1>1, <1>4, <1>2, FaultBound, <1>3 DEF ProfileIInv, DeviceTypes, Staged, CounterFresh, Quiet,
     Null, Negative, Before, Checked, Sampling, Preparing, Ready
<1>24. FailureHasCause'
  BY <1>1, <1>4, <1>2, FaultBound DEF ProfileIInv, Staged, FailureHasCause, Gox, Before, Checked,
     Sampling, Preparing, Ready
<1>. QED BY <1>11, <1>12, <1>13, <1>14, <1>15, <1>16, <1>17, <1>18, <1>19, <1>20, <1>21, <1>22,
     <1>23, <1>24, Zenon DEF ProfileIInv

LEMMA RawAuditKeeps == ASSUME ProfileIInv, RawAudit PROVE ProfileIInv'
<1>. USE DEF RawAudit, Goto, Interrupted, verdictVars, counterVars, triggerVars
<1>1. phase = "baseline" /\ pc = "report"
  BY DEF ProfileIInv, Staged, Sampling
<1>4. /\ DOMAIN reg' = Nodes /\ \A n \in Nodes \ {"GainSelector"} : reg'[n] = reg[n]
      /\ audit' \in {"none", "match", "deviates", "unreadable"}
      /\ audit' = "match" => audit = "match" \/ reg["Untouched"] = "factory"
      /\ (pc' = "home" /\ Gox) \/ (pc' = "ready" /\ ~Gox) \/ pc' = "over"
      /\ stop' \in BOOLEAN /\ UNCHANGED <<failed, why>>
      /\ UNCHANGED <<cfg, round, at, phase, attempt, comm, applied, synced, shutter,
                     counterVars, ready, acquiring, clock, triggerVars, sinceRead>>
  <2>1. DOMAIN reg = Nodes /\ VerdictTypes
    BY DEF ProfileIInv, DeviceTypes
  <2>2. /\ DOMAIN reg' = Nodes /\ \A n \in Nodes \ {"GainSelector"} : reg'[n] = reg[n]
    BY <2>1, MovedSelector
  <2>3. /\ audit' \in {"none", "match", "deviates", "unreadable"}
        /\ audit' = "match" => audit = "match" \/ reg["Untouched"] = "factory"
    BY <2>1 DEF VerdictTypes, ClassifyAudit, RawAuditExpectations
  <2>4. /\ stop' \in BOOLEAN
        /\ (pc' = "home" /\ Gox) \/ (pc' = "ready" /\ ~Gox) \/ pc' = "over"
        /\ UNCHANGED <<failed, why>>
    BY <1>1, <2>1 DEF VerdictTypes, ClassifyAudit
  <2>5. UNCHANGED <<cfg, round, at, phase, attempt, comm, applied, synced, shutter,
                    counterVars, ready, acquiring, clock, triggerVars, sinceRead>>
    OBVIOUS
  <2>. HIDE DEF RawAudit
  <2>. QED BY <2>2, <2>3, <2>4, <2>5
<1>2. VerdictTypes /\ (Fault \/ NoFault)
  BY DEF ProfileIInv
<1>3. /\ (Contract' <=> Contract) /\ (CounterBound' <=> CounterBound) /\ (Gox' <=> Gox)
      /\ InForce(Plan(cfg), Len(Plan(cfg)) + 1) => InForce(Plan(cfg), Len(Plan(cfg)) + 1)'
  BY <1>4, OnlyTheGain
<1>. HIDE DEF RawAudit
<1>11. HookTypes'
  BY <1>1, <1>4 DEF ProfileIInv, HookTypes, Staged, PCs, Before, Checked, Sampling, Preparing, Ready
<1>12. VerdictTypes'
  BY <1>2, <1>4, FaultBound DEF VerdictTypes
<1>13. CounterTypes'
  BY <1>1, <1>4 DEF ProfileIInv, CounterTypes
<1>14. DeviceTypes'
  BY <1>1, <1>4 DEF ProfileIInv, DeviceTypes
<1>15. Counting'
  BY <1>1, <1>4 DEF ProfileIInv, Counting, Staged, Counts, NoSample
<1>16. Staged'
  BY <1>1, <1>4 DEF ProfileIInv, Staged, Gox, Before, Checked, Sampling, Preparing, Ready
<1>17. FactoryLoaded'
  BY <1>1, <1>4 DEF ProfileIInv, Staged, FactoryLoaded, Gox, Before, Checked, Sampling, Preparing,
     Ready
<1>18. PlanApplied'
  BY <1>3, <1>1, <1>4 DEF ProfileIInv, Staged, PlanApplied, Before, Checked, Sampling, Preparing,
     Ready
<1>19. StillVerified'
  BY <1>3, <1>1, <1>4 DEF ProfileIInv, Staged, StillVerified, Gox, Before, Checked, Sampling,
     Preparing, Ready, Nodes
<1>20. CounterFresh'
  BY <1>3, <1>1, <1>2, <1>4, FaultBound DEF ProfileIInv, Staged, CounterFresh, Gox, Before,
     Checked, Sampling, Preparing, Ready
<1>21. GoxCounted'
  BY <1>3, <1>1, <1>4 DEF ProfileIInv, Staged, CounterFresh, GoxCounted, Gox, NoSample, Null,
     Negative, Before, Checked, Sampling, Preparing, Ready
<1>22. Fx10Counted'
  BY <1>1, <1>4 DEF ProfileIInv, Staged, CounterFresh, Fx10Counted, Gox, Turned, Before, Checked,
     Sampling, Preparing, Ready
<1>23. Quiet'
  BY <1>3, <1>1, <1>2, <1>4, FaultBound DEF ProfileIInv, DeviceTypes, Staged, CounterFresh, Quiet,
     Gox, Null, Negative, Before, Checked, Sampling, Preparing, Ready
<1>24. FailureHasCause'
  BY <1>1, <1>2, <1>4, FaultBound DEF ProfileIInv, Staged, FailureHasCause, Gox, Before, Checked,
     Sampling, Preparing, Ready
<1>. QED BY <1>11, <1>12, <1>13, <1>14, <1>15, <1>16, <1>17, <1>18, <1>19, <1>20, <1>21, <1>22,
     <1>23, <1>24, Zenon DEF ProfileIInv

LEMMA SelectorsHomeKeeps == ASSUME ProfileIInv, SelectorsHome PROVE ProfileIInv'
<1>. USE DEF SelectorsHome, Goto, Throw, verdictVars, reportVars, counterVars, triggerVars
<1>1. phase = "baseline" /\ pc = "home"
  BY DEF ProfileIInv, Staged, Sampling
<1>4. /\ DOMAIN reg' = Nodes /\ \A n \in Nodes \ {"GainSelector"} : reg'[n] = reg[n]
      /\ \/ pc' = "ready" /\ reg'["GainSelector"] = "0" /\ UNCHANGED verdictVars
         \/ pc' = "over" /\ why' = "device" /\ failed' /\ stop'
      /\ UNCHANGED <<cfg, round, at, phase, attempt, comm, reportVars, counterVars,
                     ready, acquiring, clock, triggerVars, sinceRead>>
  <2>1. DOMAIN reg = Nodes /\ ~failed
    BY <1>1 DEF ProfileIInv, DeviceTypes, Staged
  <2>2. /\ UNCHANGED <<cfg, round, at, phase, attempt, comm, reportVars, counterVars,
                       ready, acquiring, clock, triggerVars, sinceRead>>
        /\ \/ pc' = "ready" /\ reg' = Selected(SelectorHomeEntries) /\ UNCHANGED verdictVars
           \/ pc' = "over" /\ why' = "device" /\ failed' /\ stop' /\ reg' = reg
    BY <1>1, <2>1
  <2>. HIDE DEF SelectorsHome
  <2>. QED BY <2>1, <2>2, MovedSelector
<1>2. VerdictTypes /\ (Fault \/ NoFault)
  BY DEF ProfileIInv
<1>3. /\ (Contract' <=> Contract) /\ (CounterBound' <=> CounterBound) /\ (Gox' <=> Gox)
      /\ InForce(Plan(cfg), Len(Plan(cfg)) + 1) => InForce(Plan(cfg), Len(Plan(cfg)) + 1)'
  BY <1>4, OnlyTheGain
<1>. HIDE DEF SelectorsHome
<1>11. HookTypes'
  BY <1>1, <1>4 DEF ProfileIInv, HookTypes, Staged, PCs, Before, Checked, Sampling, Preparing, Ready
<1>12. VerdictTypes'
  BY <1>1, <1>2, FaultBound DEF SelectorsHome, VerdictTypes
<1>13. CounterTypes'
  BY <1>1, <1>4 DEF ProfileIInv, CounterTypes
<1>14. DeviceTypes'
  BY <1>1, <1>4 DEF ProfileIInv, DeviceTypes
<1>15. Counting'
  BY <1>1, <1>4 DEF ProfileIInv, Counting, Staged, Counts, NoSample
<1>16. Staged'
  BY <1>1, <1>4 DEF ProfileIInv, Staged, Gox, Before, Checked, Sampling, Preparing, Ready
<1>17. FactoryLoaded'
  BY <1>1, <1>4 DEF ProfileIInv, Staged, FactoryLoaded, Gox, Before, Checked, Sampling, Preparing,
     Ready
<1>18. PlanApplied'
  BY <1>3, <1>1, <1>4 DEF ProfileIInv, Staged, PlanApplied, Before, Checked, Sampling, Preparing,
     Ready
<1>19. StillVerified'
  BY <1>3, <1>1, <1>4 DEF ProfileIInv, Staged, StillVerified, Gox, Before, Checked, Sampling,
     Preparing, Ready, Nodes
<1>20. CounterFresh'
  BY <1>3, <1>1, <1>2, <1>4, FaultBound DEF ProfileIInv, Staged, CounterFresh, Gox, Before,
     Checked, Sampling, Preparing, Ready
<1>21. GoxCounted'
  BY <1>3, <1>1, <1>4 DEF ProfileIInv, Staged, CounterFresh, GoxCounted, Gox, NoSample, Null,
     Negative, Before, Checked, Sampling, Preparing, Ready
<1>22. Fx10Counted'
  BY <1>1, <1>4 DEF ProfileIInv, Staged, CounterFresh, Fx10Counted, Gox, Turned, Before, Checked,
     Sampling, Preparing, Ready
<1>23. Quiet'
  BY <1>3, <1>1, <1>2, <1>4, FaultBound DEF ProfileIInv, DeviceTypes, Staged, CounterFresh, Quiet,
     Gox, Null, Negative, Before, Checked, Sampling, Preparing, Ready
<1>24. FailureHasCause'
  BY <1>1, <1>2, <1>4, FaultBound DEF ProfileIInv, Staged, FailureHasCause, Gox, Before, Checked,
     Sampling, Preparing, Ready
<1>. QED BY <1>11, <1>12, <1>13, <1>14, <1>15, <1>16, <1>17, <1>18, <1>19, <1>20, <1>21, <1>22,
     <1>23, <1>24, Zenon DEF ProfileIInv

LEMMA EngineReadyKeeps == ASSUME ProfileIInv, EngineReady PROVE ProfileIInv'
<1>. USE DEF EngineReady, Goto, Interrupted, verdictVars, reportVars, counterVars, deviceVars,
     triggerVars
<1>1. phase = "baseline" /\ pc = "ready"
  BY DEF ProfileIInv, Staged, Sampling
<1>2. VerdictTypes /\ (Fault \/ NoFault)
  BY DEF ProfileIInv
<1>3. /\ (Contract' <=> Contract) /\ (CounterBound' <=> CounterBound) /\ (Gox' <=> Gox)
      /\ \A p, i : InForce(p, i)' <=> InForce(p, i)
  BY SameRegisters
<1>11. HookTypes'
  BY <1>1 DEF ProfileIInv, HookTypes, Staged, PCs, Before, Checked, Sampling, Preparing, Ready
<1>12. VerdictTypes'
  BY <1>1, <1>2, FaultBound DEF ProfileIInv, VerdictTypes
<1>13. CounterTypes'
  BY <1>1 DEF ProfileIInv, CounterTypes
<1>14. DeviceTypes'
  BY <1>1 DEF ProfileIInv, DeviceTypes
<1>15. Counting'
  BY <1>1 DEF ProfileIInv, Counting, Staged, Counts, NoSample
<1>16. Staged'
  BY <1>1 DEF ProfileIInv, Staged, Gox, Before, Checked, Sampling, Preparing, Ready
<1>17. FactoryLoaded'
  BY <1>1 DEF ProfileIInv, Staged, FactoryLoaded, Gox, Before, Checked, Sampling, Preparing, Ready
<1>18. PlanApplied'
  BY <1>1, <1>3 DEF ProfileIInv, Staged, PlanApplied, Before, Checked, Sampling, Preparing, Ready
<1>19. StillVerified'
  BY <1>1, <1>3 DEF ProfileIInv, Staged, StillVerified, Before, Checked, Sampling, Preparing, Ready
<1>20. CounterFresh'
  BY <1>1, <1>2, FaultBound, <1>3 DEF ProfileIInv, Staged, CounterFresh, Before, Checked,
     Sampling, Preparing, Ready
<1>21. GoxCounted'
  BY <1>1, <1>3 DEF ProfileIInv, Staged, CounterFresh, GoxCounted, NoSample, Null, Negative,
     Before, Checked, Sampling, Preparing, Ready
<1>22. Fx10Counted'
  BY <1>1 DEF ProfileIInv, Staged, CounterFresh, Fx10Counted, Gox, Turned, Before, Checked,
     Sampling, Preparing, Ready
<1>23. Quiet'
  BY <1>1, <1>2, FaultBound, <1>3 DEF ProfileIInv, DeviceTypes, Staged, CounterFresh, Quiet, Null,
     Negative, Before, Checked, Sampling, Preparing, Ready
<1>24. FailureHasCause'
  BY <1>1, <1>2, FaultBound DEF ProfileIInv, Staged, FailureHasCause, Gox, Before, Checked,
     Sampling, Preparing, Ready
<1>. QED BY <1>11, <1>12, <1>13, <1>14, <1>15, <1>16, <1>17, <1>18, <1>19, <1>20, <1>21, <1>22,
     <1>23, <1>24, Zenon DEF ProfileIInv

LEMMA ResetTriggerCounterKeeps == ASSUME ProfileIInv, ResetTriggerCounter PROVE ProfileIInv'
<1>. USE DEF ResetTriggerCounter, Goto, Throw, UnlessStopped, verdictVars, reportVars, deviceVars
<1>1. phase = "baseline" /\ pc = "beforeStart"
  BY DEF ProfileIInv, Staged, Sampling
<1>2. VerdictTypes /\ (Fault \/ NoFault)
  BY DEF ProfileIInv
<1>3. /\ (Contract' <=> Contract) /\ (CounterBound' <=> CounterBound) /\ (Gox' <=> Gox)
      /\ \A p, i : InForce(p, i)' <=> InForce(p, i)
  BY SameRegisters
<1>11. HookTypes'
  BY <1>1 DEF ProfileIInv, HookTypes, Staged, PCs, Before, Checked, Sampling, Preparing, Ready
<1>12. VerdictTypes'
  BY <1>1, <1>2, FaultBound DEF ProfileIInv, VerdictTypes
<1>13. CounterTypes'
  BY <1>1 DEF ProfileIInv, CounterTypes
<1>14. DeviceTypes'
  <2>1. count' \in {0, count} /\ UNCHANGED <<reg, ready, acquiring, clock>>
    OBVIOUS
  <2>2. DeviceTypes /\ 0 \in 0 .. CounterMax
    BY CounterAssumption DEF ProfileIInv
  <2>3. overflow' \in BOOLEAN
    BY <2>2 DEF DeviceTypes
  <2>. HIDE DEF ResetTriggerCounter
  <2>. QED BY <2>1, <2>2, <2>3 DEF DeviceTypes
<1>15. Counting'
  BY <1>1 DEF ProfileIInv, Counting, Staged, Counts, NoSample
<1>16. Staged'
  BY <1>1 DEF ProfileIInv, Staged, Gox, Before, Checked, Sampling, Preparing, Ready
<1>17. FactoryLoaded'
  BY <1>1 DEF ProfileIInv, Staged, FactoryLoaded, Gox, Before, Checked, Sampling, Preparing, Ready
<1>18. PlanApplied'
  BY <1>1, <1>3 DEF ProfileIInv, Staged, PlanApplied, Before, Checked, Sampling, Preparing, Ready
<1>19. StillVerified'
  BY <1>1, <1>3 DEF ProfileIInv, Staged, StillVerified, Before, Checked, Sampling, Preparing, Ready
<1>20. CounterFresh'
  BY <1>1, <1>2, FaultBound, <1>3 DEF ProfileIInv, Staged, CounterFresh, Before, Checked,
     Sampling, Preparing, Ready, Null, VerdictTypes, CounterTypes, DeviceTypes
<1>21. GoxCounted'
  BY <1>1, <1>3 DEF ProfileIInv, Staged, CounterFresh, GoxCounted, NoSample, Null, Negative,
     Before, Checked, Sampling, Preparing, Ready
<1>22. Fx10Counted'
  BY <1>1 DEF ProfileIInv, Staged, CounterFresh, Fx10Counted, Gox, Turned, Before, Checked,
     Sampling, Preparing, Ready
<1>23. Quiet'
  BY <1>1, <1>2, FaultBound, <1>3 DEF ProfileIInv, DeviceTypes, Staged, CounterFresh, Quiet, Null,
     Negative, Before, Checked, Sampling, Preparing, Ready
<1>24. FailureHasCause'
  BY <1>1, <1>2, FaultBound DEF ProfileIInv, Staged, FailureHasCause, Gox, Before, Checked,
     Sampling, Preparing, Ready
<1>. QED BY <1>11, <1>12, <1>13, <1>14, <1>15, <1>16, <1>17, <1>18, <1>19, <1>20, <1>21, <1>22,
     <1>23, <1>24, Zenon DEF ProfileIInv

LEMMA ShutterPulseKeeps == ASSUME ProfileIInv, ShutterPulse PROVE ProfileIInv'
<1>. USE DEF ShutterPulse, Goto, Throw, UnlessStopped, verdictVars, counterVars, deviceVars,
     triggerVars
<1>1. phase = "baseline" /\ pc = "beforeStart"
  BY DEF ProfileIInv, Staged, Sampling
<1>2. VerdictTypes /\ (Fault \/ NoFault)
  BY DEF ProfileIInv
<1>3. /\ (Contract' <=> Contract) /\ (CounterBound' <=> CounterBound) /\ (Gox' <=> Gox)
      /\ \A p, i : InForce(p, i)' <=> InForce(p, i)
  BY SameRegisters
<1>11. HookTypes'
  BY <1>1 DEF ProfileIInv, HookTypes, Staged, PCs, Before, Checked, Sampling, Preparing, Ready
<1>12. VerdictTypes'
  BY <1>1, <1>2, FaultBound DEF ProfileIInv, VerdictTypes
<1>13. CounterTypes'
  BY <1>1 DEF ProfileIInv, CounterTypes
<1>14. DeviceTypes'
  BY <1>1 DEF ProfileIInv, DeviceTypes
<1>15. Counting'
  BY <1>1 DEF ProfileIInv, Counting, Staged, Counts, NoSample
<1>16. Staged'
  BY <1>1 DEF ProfileIInv, Staged, Gox, Before, Checked, Sampling, Preparing, Ready
<1>17. FactoryLoaded'
  BY <1>1 DEF ProfileIInv, Staged, FactoryLoaded, Gox, Before, Checked, Sampling, Preparing, Ready
<1>18. PlanApplied'
  BY <1>1, <1>3 DEF ProfileIInv, Staged, PlanApplied, Before, Checked, Sampling, Preparing, Ready
<1>19. StillVerified'
  BY <1>1, <1>3 DEF ProfileIInv, Staged, StillVerified, Before, Checked, Sampling, Preparing, Ready
<1>20. CounterFresh'
  BY <1>1, <1>2, FaultBound, <1>3 DEF ProfileIInv, Staged, CounterFresh, Before, Checked,
     Sampling, Preparing, Ready
<1>21. GoxCounted'
  BY <1>1, <1>3 DEF ProfileIInv, Staged, CounterFresh, GoxCounted, NoSample, Null, Negative,
     Before, Checked, Sampling, Preparing, Ready
<1>22. Fx10Counted'
  BY <1>1 DEF ProfileIInv, Staged, CounterFresh, Fx10Counted, Gox, Turned, Before, Checked,
     Sampling, Preparing, Ready
<1>23. Quiet'
  BY <1>1, <1>2, FaultBound, <1>3 DEF ProfileIInv, DeviceTypes, Staged, CounterFresh, Quiet, Null,
     Negative, Before, Checked, Sampling, Preparing, Ready
<1>24. FailureHasCause'
  BY <1>1, <1>2, FaultBound DEF ProfileIInv, Staged, FailureHasCause, Gox, Before, Checked,
     Sampling, Preparing, Ready
<1>. QED BY <1>11, <1>12, <1>13, <1>14, <1>15, <1>16, <1>17, <1>18, <1>19, <1>20, <1>21, <1>22,
     <1>23, <1>24, Zenon DEF ProfileIInv

LEMMA MissedBaselineKeeps == ASSUME ProfileIInv, MissedBaseline PROVE ProfileIInv'
<1>. USE DEF MissedBaseline, Goto, Throw, UnlessStopped, verdictVars, reportVars, deviceVars,
     triggerVars
<1>1. phase = "baseline" /\ pc = "pulse"
  BY DEF ProfileIInv, Staged, Sampling
<1>2. VerdictTypes /\ (Fault \/ NoFault)
  BY DEF ProfileIInv
<1>3. /\ (Contract' <=> Contract) /\ (CounterBound' <=> CounterBound) /\ (Gox' <=> Gox)
      /\ \A p, i : InForce(p, i)' <=> InForce(p, i)
  BY SameRegisters
<1>11. HookTypes'
  BY <1>1 DEF ProfileIInv, HookTypes, Staged, PCs, Before, Checked, Sampling, Preparing, Ready
<1>12. VerdictTypes'
  BY <1>1, <1>2, FaultBound DEF ProfileIInv, VerdictTypes
<1>13. CounterTypes'
  BY <1>1, CounterAssumption DEF ProfileIInv, CounterTypes, DeviceTypes, Counts, Null, Negative
<1>14. DeviceTypes'
  BY <1>1 DEF ProfileIInv, DeviceTypes
<1>15. Counting'
  BY <1>1 DEF ProfileIInv, Counting, Staged, Counts, NoSample
<1>16. Staged'
  BY <1>1 DEF ProfileIInv, Staged, Gox, Before, Checked, Sampling, Preparing, Ready
<1>17. FactoryLoaded'
  BY <1>1 DEF ProfileIInv, Staged, FactoryLoaded, Gox, Before, Checked, Sampling, Preparing, Ready
<1>18. PlanApplied'
  BY <1>1, <1>3 DEF ProfileIInv, Staged, PlanApplied, Before, Checked, Sampling, Preparing, Ready
<1>19. StillVerified'
  BY <1>1, <1>3 DEF ProfileIInv, Staged, StillVerified, Before, Checked, Sampling, Preparing, Ready
<1>20. CounterFresh'
  BY <1>1, <1>2, FaultBound, <1>3 DEF ProfileIInv, Staged, CounterFresh, Before, Checked,
     Sampling, Preparing, Ready, Null, Negative
<1>21. GoxCounted'
  BY <1>1, <1>3 DEF ProfileIInv, Staged, CounterFresh, GoxCounted, NoSample, Null, Negative,
     Before, Checked, Sampling, Preparing, Ready
<1>22. Fx10Counted'
  BY <1>1 DEF ProfileIInv, Staged, CounterFresh, Fx10Counted, Gox, Turned, Before, Checked,
     Sampling, Preparing, Ready
<1>23. Quiet'
  BY <1>1, <1>2, FaultBound, <1>3 DEF ProfileIInv, DeviceTypes, Staged, CounterFresh, Quiet, Null,
     Negative, Before, Checked, Sampling, Preparing, Ready
<1>24. FailureHasCause'
  BY <1>1, <1>2, FaultBound DEF ProfileIInv, Staged, FailureHasCause, Gox, Before, Checked,
     Sampling, Preparing, Ready
<1>. QED BY <1>11, <1>12, <1>13, <1>14, <1>15, <1>16, <1>17, <1>18, <1>19, <1>20, <1>21, <1>22,
     <1>23, <1>24, Zenon DEF ProfileIInv

LEMMA StartCaptureKeeps == ASSUME ProfileIInv, StartCapture PROVE ProfileIInv'
<1>. USE DEF StartCapture, Goto, Throw, Interrupted, verdictVars, reportVars, counterVars,
     triggerVars
<1>1. phase = "baseline" /\ pc = "start"
  BY DEF ProfileIInv, Staged, Sampling
<1>2. VerdictTypes /\ (Fault \/ NoFault)
  BY DEF ProfileIInv
<1>3. /\ (Contract' <=> Contract) /\ (CounterBound' <=> CounterBound) /\ (Gox' <=> Gox)
      /\ \A p, i : InForce(p, i)' <=> InForce(p, i)
  BY SameRegisters
<1>11. HookTypes'
  BY <1>1 DEF ProfileIInv, HookTypes, Staged, PCs, Before, Checked, Sampling, Preparing, Ready
<1>12. VerdictTypes'
  BY <1>1, <1>2, FaultBound DEF ProfileIInv, VerdictTypes
<1>13. CounterTypes'
  BY <1>1 DEF ProfileIInv, CounterTypes
<1>14. DeviceTypes'
  BY <1>1 DEF ProfileIInv, DeviceTypes
<1>15. Counting'
  BY <1>1 DEF ProfileIInv, Counting, Staged, Counts, NoSample
<1>16. Staged'
  BY <1>1 DEF ProfileIInv, Staged, Gox, Before, Checked, Sampling, Preparing, Ready
<1>17. FactoryLoaded'
  BY <1>1 DEF ProfileIInv, Staged, FactoryLoaded, Gox, Before, Checked, Sampling, Preparing, Ready
<1>18. PlanApplied'
  BY <1>1, <1>3 DEF ProfileIInv, Staged, PlanApplied, Before, Checked, Sampling, Preparing, Ready
<1>19. StillVerified'
  BY <1>1, <1>3 DEF ProfileIInv, Staged, StillVerified, Before, Checked, Sampling, Preparing, Ready
<1>20. CounterFresh'
  BY <1>1, <1>2, FaultBound, <1>3 DEF ProfileIInv, Staged, CounterFresh, Before, Checked,
     Sampling, Preparing, Ready
<1>21. GoxCounted'
  BY <1>1, <1>3 DEF ProfileIInv, Staged, CounterFresh, GoxCounted, NoSample, Null, Negative,
     Before, Checked, Sampling, Preparing, Ready
<1>22. Fx10Counted'
  BY <1>1, CounterAssumption DEF ProfileIInv, Staged, CounterFresh, Fx10Counted, Gox, Turned,
     Before, Checked, Sampling, Preparing, Ready, Counting, DeviceTypes, Null
<1>23. Quiet'
  BY <1>1, <1>2, FaultBound, <1>3 DEF ProfileIInv, DeviceTypes, Staged, CounterFresh, Quiet, Null,
     Negative, Before, Checked, Sampling, Preparing, Ready
<1>24. FailureHasCause'
  BY <1>1, <1>2, FaultBound DEF ProfileIInv, Staged, FailureHasCause, Gox, Before, Checked,
     Sampling, Preparing, Ready
<1>. QED BY <1>11, <1>12, <1>13, <1>14, <1>15, <1>16, <1>17, <1>18, <1>19, <1>20, <1>21, <1>22,
     <1>23, <1>24, Zenon DEF ProfileIInv

(* The sample hook. *)
LEMMA CheckHealthKeeps == ASSUME ProfileIInv, CheckHealth PROVE ProfileIInv'
<1>. USE DEF CheckHealth, SampleFails, Goto, verdictVars, reportVars, counterVars, deviceVars,
     triggerVars
<1>1. pc = "health" /\ phase # "baseline"
  BY DEF ProfileIInv, Staged, Sampling, Preparing, Before, Checked
<1>2. VerdictTypes /\ (Fault \/ NoFault)
  BY DEF ProfileIInv
<1>3. /\ (Contract' <=> Contract) /\ (CounterBound' <=> CounterBound) /\ (Gox' <=> Gox)
      /\ \A p, i : InForce(p, i)' <=> InForce(p, i)
  BY SameRegisters
<1>11. HookTypes'
  BY <1>1 DEF ProfileIInv, HookTypes, Staged, PCs, Before, Checked, Sampling, Preparing, Ready,
     HealthRetries
<1>12. VerdictTypes'
  BY <1>1, <1>2, FaultBound DEF ProfileIInv, VerdictTypes
<1>13. CounterTypes'
  BY <1>1 DEF ProfileIInv, CounterTypes
<1>14. DeviceTypes'
  BY <1>1 DEF ProfileIInv, DeviceTypes
<1>15. Counting'
  BY <1>1 DEF ProfileIInv, Counting, Staged, Counts, NoSample
<1>16. Staged'
  BY <1>1 DEF ProfileIInv, Staged, Gox, Before, Checked, Sampling, Preparing, Ready
<1>17. FactoryLoaded'
  BY <1>1 DEF ProfileIInv, Staged, FactoryLoaded, Gox, Before, Checked, Sampling, Preparing, Ready
<1>18. PlanApplied'
  BY <1>1, <1>3 DEF ProfileIInv, Staged, PlanApplied, Before, Checked, Sampling, Preparing, Ready
<1>19. StillVerified'
  BY <1>1, <1>3 DEF ProfileIInv, Staged, StillVerified, Before, Checked, Sampling, Preparing, Ready
<1>20. CounterFresh'
  BY <1>1, <1>2, FaultBound, <1>3 DEF ProfileIInv, Staged, CounterFresh, Before, Checked,
     Sampling, Preparing, Ready
<1>21. GoxCounted'
  BY <1>1, <1>3 DEF ProfileIInv, Staged, CounterFresh, GoxCounted, NoSample, Null, Negative,
     Before, Checked, Sampling, Preparing, Ready
<1>22. Fx10Counted'
  BY <1>1 DEF ProfileIInv, Staged, CounterFresh, Fx10Counted, Gox, Turned, Before, Checked,
     Sampling, Preparing, Ready
<1>23. Quiet'
  BY <1>1, <1>2, FaultBound, <1>3 DEF ProfileIInv, DeviceTypes, Staged, CounterFresh, Quiet, Null,
     Negative, Before, Checked, Sampling, Preparing, Ready
<1>24. FailureHasCause'
  BY <1>1, <1>2, FaultBound DEF ProfileIInv, Staged, FailureHasCause, Gox, Before, Checked,
     Sampling, Preparing, Ready
<1>. QED BY <1>11, <1>12, <1>13, <1>14, <1>15, <1>16, <1>17, <1>18, <1>19, <1>20, <1>21, <1>22,
     <1>23, <1>24, Zenon DEF ProfileIInv

LEMMA ReadTemperaturesKeeps == ASSUME ProfileIInv, ReadTemperatures PROVE ProfileIInv'
<1>. USE DEF ReadTemperatures, Goto, verdictVars, reportVars, deviceVars, triggerVars
<1>1. pc = "temperature"
  BY DEF ProfileIInv, Staged, Sampling, Preparing, Before, Checked
<1>4. /\ pc' = (IF ~Gox THEN "value" ELSE IF bound THEN "binding" ELSE "conclude")
      /\ sample' = NoSample /\ sample' \in Readings /\ UNCHANGED sinceRead
      /\ UNCHANGED <<cfg, round, at, phase, attempt, verdictVars, comm, reportVars, bound, resetDone,
                     baseline, previous, flags, triggered, deviceVars, triggerVars>>
  BY <1>1, CounterAssumption DEF NoSample, Readings, Counts, Null
<1>2. VerdictTypes /\ (Fault \/ NoFault)
  BY DEF ProfileIInv
<1>3. /\ (Contract' <=> Contract) /\ (CounterBound' <=> CounterBound) /\ (Gox' <=> Gox)
      /\ \A p, i : InForce(p, i)' <=> InForce(p, i)
  BY <1>4, SameRegisters
<1>. HIDE DEF ReadTemperatures
<1>11. HookTypes'
  BY <1>1, <1>4 DEF ProfileIInv, HookTypes, Staged, PCs, Before, Checked, Sampling, Preparing, Ready
<1>12. VerdictTypes'
  BY <1>1, <1>2, <1>4, FaultBound DEF ProfileIInv, VerdictTypes
<1>13. CounterTypes'
  BY <1>1, <1>4 DEF ProfileIInv, CounterTypes
<1>14. DeviceTypes'
  BY <1>1, <1>4 DEF ProfileIInv, DeviceTypes
<1>15. Counting'
  BY <1>1, <1>4 DEF ProfileIInv, Counting, Staged, Counts, NoSample
<1>16. Staged'
  BY <1>1, <1>4 DEF ProfileIInv, Staged, Gox, Before, Checked, Sampling, Preparing, Ready
<1>17. FactoryLoaded'
  BY <1>1, <1>4 DEF ProfileIInv, Staged, FactoryLoaded, Gox, Before, Checked, Sampling, Preparing,
     Ready
<1>18. PlanApplied'
  BY <1>1, <1>3, <1>4 DEF ProfileIInv, Staged, PlanApplied, Before, Checked, Sampling, Preparing,
     Ready
<1>19. StillVerified'
  BY <1>1, <1>3, <1>4 DEF ProfileIInv, Staged, StillVerified, Before, Checked, Sampling,
     Preparing, Ready
<1>20. CounterFresh'
  BY <1>1, <1>2, <1>4, FaultBound, <1>3 DEF ProfileIInv, Staged, CounterFresh, Before, Checked,
     Sampling, Preparing, Ready
<1>21. GoxCounted'
  BY <1>1, <1>3, <1>4 DEF ProfileIInv, Staged, CounterFresh, GoxCounted, NoSample, Null, Negative,
     Before, Checked, Sampling, Preparing, Ready
<1>22. Fx10Counted'
  BY <1>1, <1>4 DEF ProfileIInv, Staged, CounterFresh, Fx10Counted, Gox, Turned, Before, Checked,
     Sampling, Preparing, Ready
<1>23. Quiet'
  BY <1>1, <1>2, <1>4, FaultBound, <1>3 DEF ProfileIInv, DeviceTypes, Staged, CounterFresh, Quiet,
     Null, Negative, Before, Checked, Sampling, Preparing, Ready, NoSample
<1>24. FailureHasCause'
  BY <1>1, <1>2, <1>4, FaultBound DEF ProfileIInv, Staged, FailureHasCause, Gox, Before, Checked,
     Sampling, Preparing, Ready
<1>. QED BY <1>11, <1>12, <1>13, <1>14, <1>15, <1>16, <1>17, <1>18, <1>19, <1>20, <1>21, <1>22,
     <1>23, <1>24, Zenon DEF ProfileIInv

LEMMA ReadBindingKeeps == ASSUME ProfileIInv, ReadBinding PROVE ProfileIInv'
<1>. USE DEF ReadBinding, Goto, verdictVars, reportVars, deviceVars, triggerVars
<1>1. pc = "binding" /\ Gox
  BY DEF ProfileIInv, Staged, Sampling, Preparing, Before, Checked
<1>4. /\ pc' = "value" /\ sample' \in Readings /\ sample'.value = Null /\ UNCHANGED sinceRead
      /\ sample'.binding => CounterBound
      /\ NoFault /\ CounterBound => sample'.binding
      /\ ~sample'.statusRead /\ ~sample'.overflow
      /\ UNCHANGED <<cfg, round, at, phase, attempt, verdictVars, comm, reportVars, bound, resetDone,
                     baseline, previous, flags, triggered, deviceVars, triggerVars>>
  <2>1. sample = NoSample /\ sample \in Readings
    BY <1>1 DEF ProfileIInv, GoxCounted, Counting
  <2>2. CounterBound \in BOOLEAN
    BY DEF CounterBound, TriggerCounterBound, MissedTriggerBound
  <2>3. \/ Fault /\ sample' = sample
        \/ \E i \in BOOLEAN : sample' = [sample EXCEPT !.binding = CounterBound, !.input = i]
        \/ Fault /\ sample' = [sample EXCEPT !.binding = CounterBound]
    OBVIOUS
  <2>4. pc' = "value" /\ sinceRead' = sinceRead
    OBVIOUS
  <2>5. ~(Fault /\ NoFault)
    BY FaultBound DEF ProfileIInv
  <2>. HIDE DEF ReadBinding
  <2>6. /\ sample' \in Readings /\ sample'.value = Null
        /\ sample'.binding => CounterBound
        /\ NoFault /\ CounterBound => sample'.binding
        /\ ~sample'.statusRead /\ ~sample'.overflow
    <3>1. /\ sample \in Readings /\ sample.value = Null /\ ~sample.binding
          /\ ~sample.statusRead /\ ~sample.overflow
      BY <2>1 DEF NoSample
    <3>. QED BY <2>2, <2>3, <2>5, <3>1 DEF Readings
  <2>. USE DEF ReadBinding
  <2>. QED BY <2>4, <2>6
<1>2. VerdictTypes /\ (Fault \/ NoFault)
  BY DEF ProfileIInv
<1>3. /\ (Contract' <=> Contract) /\ (CounterBound' <=> CounterBound) /\ (Gox' <=> Gox)
      /\ \A p, i : InForce(p, i)' <=> InForce(p, i)
  BY <1>4, SameRegisters
<1>. HIDE DEF ReadBinding
<1>11. HookTypes'
  BY <1>1, <1>4 DEF ProfileIInv, HookTypes, Staged, PCs, Before, Checked, Sampling, Preparing, Ready
<1>12. VerdictTypes'
  BY <1>1, <1>2, <1>4, FaultBound DEF ProfileIInv, VerdictTypes
<1>13. CounterTypes'
  BY <1>1, <1>4 DEF ProfileIInv, CounterTypes
<1>14. DeviceTypes'
  BY <1>1, <1>4 DEF ProfileIInv, DeviceTypes
<1>15. Counting'
  BY <1>1, <1>4 DEF ProfileIInv, Counting, Staged, Counts, NoSample
<1>16. Staged'
  BY <1>1, <1>4 DEF ProfileIInv, Staged, Gox, Before, Checked, Sampling, Preparing, Ready
<1>17. FactoryLoaded'
  BY <1>1, <1>4 DEF ProfileIInv, Staged, FactoryLoaded, Gox, Before, Checked, Sampling, Preparing,
     Ready
<1>18. PlanApplied'
  BY <1>1, <1>3, <1>4 DEF ProfileIInv, Staged, PlanApplied, Before, Checked, Sampling, Preparing,
     Ready
<1>19. StillVerified'
  BY <1>1, <1>3, <1>4 DEF ProfileIInv, Staged, StillVerified, Before, Checked, Sampling,
     Preparing, Ready
<1>20. CounterFresh'
  BY <1>1, <1>2, <1>4, FaultBound, <1>3 DEF ProfileIInv, Staged, CounterFresh, Before, Checked,
     Sampling, Preparing, Ready
<1>21. GoxCounted'
  BY <1>1, <1>3, <1>4 DEF ProfileIInv, Staged, CounterFresh, GoxCounted, NoSample, Null, Negative,
     Before, Checked, Sampling, Preparing, Ready
<1>22. Fx10Counted'
  BY <1>1, <1>4 DEF ProfileIInv, Staged, CounterFresh, Fx10Counted, Gox, Turned, Before, Checked,
     Sampling, Preparing, Ready
<1>23. Quiet'
  BY <1>1, <1>2, <1>4, FaultBound, <1>3 DEF ProfileIInv, DeviceTypes, Staged, CounterFresh, Quiet,
     Null, Negative, Before, Checked, Sampling, Preparing, Ready
<1>24. FailureHasCause'
  BY <1>1, <1>2, <1>4, FaultBound DEF ProfileIInv, Staged, FailureHasCause, Gox, Before, Checked,
     Sampling, Preparing, Ready
<1>. QED BY <1>11, <1>12, <1>13, <1>14, <1>15, <1>16, <1>17, <1>18, <1>19, <1>20, <1>21, <1>22,
     <1>23, <1>24, Zenon DEF ProfileIInv

LEMMA ReadValueKeeps == ASSUME ProfileIInv, ReadValue PROVE ProfileIInv'
<1>. USE DEF ReadValue, Goto, verdictVars, reportVars, deviceVars, triggerVars
<1>1. pc = "value"
  BY DEF ProfileIInv, Staged, Sampling, Preparing, Before, Checked
<1>4. /\ pc' = (IF Gox THEN "status" ELSE "conclude") /\ sample' \in Readings
      /\ sample'.binding = sample.binding /\ sample'.statusRead = sample.statusRead
      /\ sample'.overflow = sample.overflow
      /\ sample'.value >= 0 => sample'.value = count /\ (sample.binding \/ ~Gox)
      /\ NoFault => sample'.value = IF sample.binding \/ ~Gox THEN count ELSE Null
      /\ sinceRead' = (IF sample'.value >= 0 THEN since ELSE sinceRead)
      /\ UNCHANGED <<cfg, round, at, phase, attempt, verdictVars, comm, reportVars, bound, resetDone,
                     baseline, previous, flags, triggered, deviceVars, triggerVars>>
  <2>1. sample \in Readings /\ count \in Counts /\ Null \in Counts /\ Negative \in Counts
    BY CounterAssumption DEF ProfileIInv, Counting, DeviceTypes, Counts, Null, Negative
  <2>2. \/ sample' = [sample EXCEPT !.value = IF sample.binding \/ ~Gox THEN count ELSE Null]
        \/ /\ sample.binding \/ ~Gox
           /\ Fault /\ sample' \in {[sample EXCEPT !.value = v] : v \in {Null, Negative}}
    OBVIOUS
  <2>3. ~(Fault /\ NoFault)
    BY FaultBound DEF ProfileIInv
  <2>. HIDE DEF ReadValue
  <2>4. /\ sample' \in Readings
        /\ sample'.binding = sample.binding /\ sample'.statusRead = sample.statusRead
        /\ sample'.overflow = sample.overflow
        /\ sample'.value >= 0 => sample'.value = count /\ (sample.binding \/ ~Gox)
        /\ NoFault => sample'.value = IF sample.binding \/ ~Gox THEN count ELSE Null
    BY <2>1, <2>2, <2>3 DEF Readings, Null, Negative
  <2>. USE DEF ReadValue
  <2>. QED BY <2>4
<1>2. VerdictTypes /\ (Fault \/ NoFault)
  BY DEF ProfileIInv
<1>3. /\ (Contract' <=> Contract) /\ (CounterBound' <=> CounterBound) /\ (Gox' <=> Gox)
      /\ \A p, i : InForce(p, i)' <=> InForce(p, i)
  BY <1>4, SameRegisters
<1>. HIDE DEF ReadValue
<1>11. HookTypes'
  BY <1>1, <1>4 DEF ProfileIInv, HookTypes, Staged, PCs, Before, Checked, Sampling, Preparing, Ready
<1>12. VerdictTypes'
  BY <1>1, <1>2, <1>4, FaultBound DEF ProfileIInv, VerdictTypes
<1>13. CounterTypes'
  BY <1>1, <1>4 DEF ProfileIInv, CounterTypes
<1>14. DeviceTypes'
  BY <1>1, <1>4 DEF ProfileIInv, DeviceTypes
<1>15. Counting'
  BY <1>1, <1>4 DEF ProfileIInv, Counting, Staged, Counts, NoSample
<1>16. Staged'
  BY <1>1, <1>4 DEF ProfileIInv, Staged, Gox, Before, Checked, Sampling, Preparing, Ready
<1>17. FactoryLoaded'
  BY <1>1, <1>4 DEF ProfileIInv, Staged, FactoryLoaded, Gox, Before, Checked, Sampling, Preparing,
     Ready
<1>18. PlanApplied'
  BY <1>1, <1>3, <1>4 DEF ProfileIInv, Staged, PlanApplied, Before, Checked, Sampling, Preparing,
     Ready
<1>19. StillVerified'
  BY <1>1, <1>3, <1>4 DEF ProfileIInv, Staged, StillVerified, Before, Checked, Sampling,
     Preparing, Ready
<1>20. CounterFresh'
  BY <1>1, <1>2, <1>4, FaultBound, <1>3 DEF ProfileIInv, Staged, CounterFresh, Before, Checked,
     Sampling, Preparing, Ready
<1>21. GoxCounted'
  BY <1>1, <1>3, <1>4 DEF ProfileIInv, Staged, CounterFresh, GoxCounted, NoSample, Null, Negative,
     Before, Checked, Sampling, Preparing, Ready
<1>22. Fx10Counted'
  <2>. SUFFICES ASSUME ~Gox, phase # "baseline", bound, baseline >= 0
                PROVE  /\ since <= CounterMax /\ count = Turned(since)
                       /\ sample'.value >= 0 => sample'.value = Turned(sinceRead')
                       /\ ~failed => previous = baseline
                       /\ ~failed /\ sample'.value < 0 => sinceRead' = 0
    BY <1>1, <1>3, <1>4, <1>4 DEF Fx10Counted, Turned
  <2>1. /\ since <= CounterMax /\ count = Turned(since)
        /\ ~failed => previous = baseline /\ sinceRead = 0
    BY <1>1, <1>4 DEF ProfileIInv, Fx10Counted
  <2>2. sample'.value \in Int
    BY <1>4, CounterAssumption DEF Readings, Counts
  <2>. QED BY <1>4, <2>1, <2>2
<1>23. Quiet'
  BY <1>1, <1>2, <1>4, FaultBound, <1>3 DEF ProfileIInv, DeviceTypes, Staged, CounterFresh, Quiet,
     Null, Negative, Before, Checked, Sampling, Preparing, Ready
<1>24. FailureHasCause'
  BY <1>1, <1>2, <1>4, FaultBound DEF ProfileIInv, Staged, FailureHasCause, Gox, Before, Checked,
     Sampling, Preparing, Ready
<1>. QED BY <1>11, <1>12, <1>13, <1>14, <1>15, <1>16, <1>17, <1>18, <1>19, <1>20, <1>21, <1>22,
     <1>23, <1>24, Zenon DEF ProfileIInv

LEMMA ReadStatusKeeps == ASSUME ProfileIInv, ReadStatus PROVE ProfileIInv'
<1>. USE DEF ReadStatus, Goto, verdictVars, reportVars, deviceVars, triggerVars
<1>1. pc = "status" /\ Gox
  BY DEF ProfileIInv, Staged, Sampling, Preparing, Before, Checked
<1>4. /\ pc' = "conclude" /\ sample' \in Readings /\ UNCHANGED sinceRead
      /\ sample'.binding = sample.binding /\ sample'.value = sample.value
      /\ sample'.statusRead /\ overflow => sample'.overflow
      /\ sample'.overflow => overflow
      /\ UNCHANGED <<cfg, round, at, phase, attempt, verdictVars, comm, reportVars, bound, resetDone,
                     baseline, previous, flags, triggered, deviceVars, triggerVars>>
  <2>1. sample \in Readings /\ overflow \in BOOLEAN /\ ~sample.overflow /\ ~sample.statusRead
    BY <1>1 DEF ProfileIInv, Counting, DeviceTypes, GoxCounted
  <2>2. sample' = sample \/ \E s, o \in BOOLEAN :
           /\ s = sample.binding /\ o = (sample.binding /\ overflow)
           /\ sample' = [sample EXCEPT !.statusRead = s, !.overflow = o]
    BY <2>1 DEF Readings
  <2>. QED BY <1>1, <2>1, <2>2 DEF Readings
<1>2. VerdictTypes /\ (Fault \/ NoFault)
  BY DEF ProfileIInv
<1>3. /\ (Contract' <=> Contract) /\ (CounterBound' <=> CounterBound) /\ (Gox' <=> Gox)
      /\ \A p, i : InForce(p, i)' <=> InForce(p, i)
  BY <1>4, SameRegisters
<1>. HIDE DEF ReadStatus
<1>11. HookTypes'
  BY <1>1, <1>4 DEF ProfileIInv, HookTypes, Staged, PCs, Before, Checked, Sampling, Preparing, Ready
<1>12. VerdictTypes'
  BY <1>1, <1>2, <1>4, FaultBound DEF ProfileIInv, VerdictTypes
<1>13. CounterTypes'
  BY <1>1, <1>4 DEF ProfileIInv, CounterTypes
<1>14. DeviceTypes'
  BY <1>1, <1>4 DEF ProfileIInv, DeviceTypes
<1>15. Counting'
  BY <1>1, <1>4 DEF ProfileIInv, Counting, Staged, Counts, NoSample
<1>16. Staged'
  BY <1>1, <1>4 DEF ProfileIInv, Staged, Gox, Before, Checked, Sampling, Preparing, Ready
<1>17. FactoryLoaded'
  BY <1>1, <1>4 DEF ProfileIInv, Staged, FactoryLoaded, Gox, Before, Checked, Sampling, Preparing,
     Ready
<1>18. PlanApplied'
  BY <1>1, <1>3, <1>4 DEF ProfileIInv, Staged, PlanApplied, Before, Checked, Sampling, Preparing,
     Ready
<1>19. StillVerified'
  BY <1>1, <1>3, <1>4 DEF ProfileIInv, Staged, StillVerified, Before, Checked, Sampling,
     Preparing, Ready
<1>20. CounterFresh'
  BY <1>1, <1>2, <1>4, FaultBound, <1>3 DEF ProfileIInv, Staged, CounterFresh, Before, Checked,
     Sampling, Preparing, Ready
<1>21. GoxCounted'
  BY <1>1, <1>3, <1>4 DEF ProfileIInv, Staged, CounterFresh, GoxCounted, NoSample, Null, Negative,
     Before, Checked, Sampling, Preparing, Ready
<1>22. Fx10Counted'
  BY <1>1, <1>4 DEF ProfileIInv, Staged, CounterFresh, Fx10Counted, Gox, Turned, Before, Checked,
     Sampling, Preparing, Ready
<1>23. Quiet'
  BY <1>1, <1>2, <1>4, FaultBound, <1>3 DEF ProfileIInv, DeviceTypes, Staged, CounterFresh, Quiet,
     Null, Negative, Before, Checked, Sampling, Preparing, Ready
<1>24. FailureHasCause'
  BY <1>1, <1>2, <1>4, FaultBound DEF ProfileIInv, Staged, FailureHasCause, Gox, Before, Checked,
     Sampling, Preparing, Ready
<1>. QED BY <1>11, <1>12, <1>13, <1>14, <1>15, <1>16, <1>17, <1>18, <1>19, <1>20, <1>21, <1>22,
     <1>23, <1>24, Zenon DEF ProfileIInv

LEMMA NextSampleKeeps == ASSUME ProfileIInv, NextSample PROVE ProfileIInv'
<1>. USE DEF NextSample, Goto, verdictVars, reportVars, counterVars, deviceVars, triggerVars
<1>1. pc = "capture" /\ phase # "baseline"
  BY DEF ProfileIInv, Staged, Sampling, Preparing, Before, Checked
<1>2. VerdictTypes /\ (Fault \/ NoFault)
  BY DEF ProfileIInv
<1>3. /\ (Contract' <=> Contract) /\ (CounterBound' <=> CounterBound) /\ (Gox' <=> Gox)
      /\ \A p, i : InForce(p, i)' <=> InForce(p, i)
  BY SameRegisters
<1>11. HookTypes'
  BY <1>1 DEF ProfileIInv, HookTypes, Staged, PCs, Before, Checked, Sampling, Preparing, Ready
<1>12. VerdictTypes'
  BY <1>1, <1>2, FaultBound DEF ProfileIInv, VerdictTypes
<1>13. CounterTypes'
  BY <1>1 DEF ProfileIInv, CounterTypes
<1>14. DeviceTypes'
  BY <1>1 DEF ProfileIInv, DeviceTypes
<1>15. Counting'
  BY <1>1 DEF ProfileIInv, Counting, Staged, Counts, NoSample
<1>16. Staged'
  BY <1>1 DEF ProfileIInv, Staged, Gox, Before, Checked, Sampling, Preparing, Ready
<1>17. FactoryLoaded'
  BY <1>1 DEF ProfileIInv, Staged, FactoryLoaded, Gox, Before, Checked, Sampling, Preparing, Ready
<1>18. PlanApplied'
  BY <1>1, <1>3 DEF ProfileIInv, Staged, PlanApplied, Before, Checked, Sampling, Preparing, Ready
<1>19. StillVerified'
  BY <1>1, <1>3 DEF ProfileIInv, Staged, StillVerified, Before, Checked, Sampling, Preparing, Ready
<1>20. CounterFresh'
  BY <1>1, <1>2, FaultBound, <1>3 DEF ProfileIInv, Staged, CounterFresh, Before, Checked,
     Sampling, Preparing, Ready
<1>21. GoxCounted'
  BY <1>1, <1>3 DEF ProfileIInv, Staged, CounterFresh, GoxCounted, NoSample, Null, Negative,
     Before, Checked, Sampling, Preparing, Ready
<1>22. Fx10Counted'
  BY <1>1 DEF ProfileIInv, Staged, CounterFresh, Fx10Counted, Gox, Turned, Before, Checked,
     Sampling, Preparing, Ready
<1>23. Quiet'
  BY <1>1, <1>2, FaultBound, <1>3 DEF ProfileIInv, DeviceTypes, Staged, CounterFresh, Quiet, Null,
     Negative, Before, Checked, Sampling, Preparing, Ready
<1>24. FailureHasCause'
  BY <1>1, <1>2, FaultBound DEF ProfileIInv, Staged, FailureHasCause, Gox, Before, Checked,
     Sampling, Preparing, Ready
<1>. QED BY <1>11, <1>12, <1>13, <1>14, <1>15, <1>16, <1>17, <1>18, <1>19, <1>20, <1>21, <1>22,
     <1>23, <1>24, Zenon DEF ProfileIInv

LEMMA StopSourceKeeps == ASSUME ProfileIInv, StopSource PROVE ProfileIInv'
<1>. USE DEF StopSource, Goto, verdictVars, reportVars, counterVars, triggerVars
<1>1. pc = "capture" /\ phase # "baseline"
  BY DEF ProfileIInv, Staged, Sampling, Preparing, Before, Checked
<1>2. VerdictTypes /\ (Fault \/ NoFault)
  BY DEF ProfileIInv
<1>3. /\ (Contract' <=> Contract) /\ (CounterBound' <=> CounterBound) /\ (Gox' <=> Gox)
      /\ \A p, i : InForce(p, i)' <=> InForce(p, i)
  BY SameRegisters
<1>11. HookTypes'
  BY <1>1 DEF ProfileIInv, HookTypes, Staged, PCs, Before, Checked, Sampling, Preparing, Ready
<1>12. VerdictTypes'
  BY <1>1, <1>2, FaultBound DEF ProfileIInv, VerdictTypes
<1>13. CounterTypes'
  BY <1>1 DEF ProfileIInv, CounterTypes
<1>14. DeviceTypes'
  BY <1>1 DEF ProfileIInv, DeviceTypes
<1>15. Counting'
  BY <1>1 DEF ProfileIInv, Counting, Staged, Counts, NoSample
<1>16. Staged'
  BY <1>1 DEF ProfileIInv, Staged, Gox, Before, Checked, Sampling, Preparing, Ready
<1>17. FactoryLoaded'
  BY <1>1 DEF ProfileIInv, Staged, FactoryLoaded, Gox, Before, Checked, Sampling, Preparing, Ready
<1>18. PlanApplied'
  BY <1>1, <1>3 DEF ProfileIInv, Staged, PlanApplied, Before, Checked, Sampling, Preparing, Ready
<1>19. StillVerified'
  BY <1>1, <1>3 DEF ProfileIInv, Staged, StillVerified, Before, Checked, Sampling, Preparing, Ready
<1>20. CounterFresh'
  BY <1>1, <1>2, FaultBound, <1>3 DEF ProfileIInv, Staged, CounterFresh, Before, Checked,
     Sampling, Preparing, Ready
<1>21. GoxCounted'
  BY <1>1, <1>3 DEF ProfileIInv, Staged, CounterFresh, GoxCounted, NoSample, Null, Negative,
     Before, Checked, Sampling, Preparing, Ready
<1>22. Fx10Counted'
  BY <1>1 DEF ProfileIInv, Staged, CounterFresh, Fx10Counted, Gox, Turned, Before, Checked,
     Sampling, Preparing, Ready
<1>23. Quiet'
  BY <1>1, <1>2, FaultBound, <1>3 DEF ProfileIInv, DeviceTypes, Staged, CounterFresh, Quiet, Null,
     Negative, Before, Checked, Sampling, Preparing, Ready
<1>24. FailureHasCause'
  BY <1>1, <1>2, FaultBound DEF ProfileIInv, Staged, FailureHasCause, Gox, Before, Checked,
     Sampling, Preparing, Ready
<1>. QED BY <1>11, <1>12, <1>13, <1>14, <1>15, <1>16, <1>17, <1>18, <1>19, <1>20, <1>21, <1>22,
     <1>23, <1>24, Zenon DEF ProfileIInv

BadFlags == {"binding_lost", "regressed", "overflow", "negative"}

(* What a reading of the GO-X says, flag by flag. *)
LEMMA RaisedFlags ==
    ASSUME NEW b, NEW s
    PROVE  /\ Raised(b, s) \subseteq Flags /\ "regressed" \notin Raised(b, s)
           /\ "binding_lost" \in Raised(b, s) => b /\ ~s.binding
           /\ "overflow" \in Raised(b, s) <=> s.overflow
           /\ "negative" \in Raised(b, s) <=> s.value = Negative
           /\ ~s.statusRead => "status_unavailable" \in Raised(b, s)
           /\ s.value = Null => "value_unavailable" \in Raised(b, s)
BY DEF Raised, Flags

(* The first sample of the GO-X takes the baseline. *)
LEMMA BaselineSampleKeeps ==
    ASSUME ProfileIInv, Conclude, phase = "baseline" PROVE ProfileIInv'
<1>. USE DEF Conclude, Baseline, Goto, verdictVars, reportVars, deviceVars, triggerVars
<1>1. pc = "conclude" /\ Gox /\ phase = "baseline"
  BY DEF ProfileIInv, Staged, Sampling
<1>4. /\ pc' = "start" /\ previous' = sample.value /\ baseline' = sample.value
      /\ flags' = Raised(bound, sample) /\ CounterTypes'
      /\ sample.value >= 0 => count = sample.value
      /\ UNCHANGED <<verdictVars, triggered>>
      /\ UNCHANGED <<cfg, round, at, phase, attempt, faults, comm, reportVars, bound, resetDone,
                     sample, deviceVars, triggerVars, sinceRead>>
  <2>1. /\ sample \in Readings /\ CounterTypes /\ VerdictTypes /\ count \in 0 .. CounterMax
        /\ CounterMax \in Nat
    BY CounterAssumption DEF ProfileIInv, Counting, DeviceTypes
  <2>2. previous = Null /\ (sample.value >= 0 => count = sample.value)
    BY <1>1 DEF ProfileIInv, CounterFresh, GoxCounted, Sampling
  <2>3. CounterTypes'
    BY <1>1, <2>1, <2>2, RaisedFlags DEF CounterTypes, Readings
  <2>4. /\ pc' = "start" /\ previous' = (IF sample.value # Null THEN sample.value ELSE previous)
        /\ baseline' = sample.value /\ flags' = Raised(bound, sample)
        /\ UNCHANGED <<verdictVars, triggered>>
    BY <1>1
  <2>5. /\ UNCHANGED faults
        /\ UNCHANGED <<cfg, round, at, phase, attempt, comm, reportVars, bound, resetDone,
                       sample, deviceVars, triggerVars, sinceRead>>
    BY Zenon DEF Conclude, NoFault
  <2>. HIDE DEF Conclude, Baseline
  <2>. QED BY <2>2, <2>3, <2>4, <2>5
<1>2. VerdictTypes /\ (Fault \/ NoFault)
  BY DEF ProfileIInv
<1>3. /\ (Contract' <=> Contract) /\ (CounterBound' <=> CounterBound) /\ (Gox' <=> Gox)
      /\ \A p, i : InForce(p, i)' <=> InForce(p, i)
  BY <1>4, SameRegisters
<1>. HIDE DEF Conclude
<1>11. HookTypes'
  BY <1>1, <1>4 DEF ProfileIInv, HookTypes, Staged, PCs, Before, Checked, Sampling, Preparing, Ready
<1>12. VerdictTypes'
  BY <1>1, <1>2, <1>4, FaultBound DEF ProfileIInv, VerdictTypes
<1>13. CounterTypes'
  BY <1>4
<1>14. DeviceTypes'
  BY <1>1, <1>4 DEF ProfileIInv, DeviceTypes
<1>15. Counting'
  BY <1>1, <1>4 DEF ProfileIInv, Counting, Staged, Counts, NoSample
<1>16. Staged'
  BY <1>1, <1>4 DEF ProfileIInv, Staged, Gox, Before, Checked, Sampling, Preparing, Ready
<1>17. FactoryLoaded'
  BY <1>1, <1>4 DEF ProfileIInv, Staged, FactoryLoaded, Gox, Before, Checked, Sampling, Preparing,
     Ready
<1>18. PlanApplied'
  BY <1>1, <1>3, <1>4 DEF ProfileIInv, Staged, PlanApplied, Before, Checked, Sampling, Preparing,
     Ready
<1>19. StillVerified'
  BY <1>1, <1>3, <1>4 DEF ProfileIInv, Staged, StillVerified, Before, Checked, Sampling,
     Preparing, Ready
<1>20. CounterFresh'
  BY <1>1, <1>2, <1>4, FaultBound, <1>3 DEF ProfileIInv, Staged, CounterFresh, Before, Checked,
     Sampling, Preparing, Ready, Null
<1>21. GoxCounted'
  BY <1>1, <1>3, <1>4, RaisedFlags DEF ProfileIInv, Staged, CounterFresh, GoxCounted, NoSample,
     Null, Negative, Before, Checked, Sampling, Preparing, Ready, DeviceTypes
<1>22. Fx10Counted'
  BY <1>1, <1>4 DEF ProfileIInv, Staged, CounterFresh, Fx10Counted, Gox, Turned, Before, Checked,
     Sampling, Preparing, Ready
<1>23. Quiet'
  <2>. SUFFICES ASSUME bound, faults = 0, ~overflow
                PROVE  flags' \cap BadFlags = {} /\ -1 <= previous' /\ previous' <= count
    BY <1>1, <1>3, <1>4 DEF Quiet, BadFlags
  <2>1. /\ sample.binding /\ ~sample.overflow /\ sample.value \in previous .. count
        /\ previous = Null
    BY <1>1, <1>4 DEF ProfileIInv, Quiet, CounterFresh, Sampling
  <2>2. sample.value # Negative /\ sample.value <= count /\ -1 <= sample.value
    BY <2>1 DEF Null, Negative
  <2>. QED BY <1>4, <2>1, <2>2, RaisedFlags DEF BadFlags
<1>24. FailureHasCause'
  BY <1>1, <1>2, <1>4, FaultBound DEF ProfileIInv, Staged, FailureHasCause, Gox, Before, Checked,
     Sampling, Preparing, Ready
<1>. QED BY <1>11, <1>12, <1>13, <1>14, <1>15, <1>16, <1>17, <1>18, <1>19, <1>20, <1>21, <1>22,
     <1>23, <1>24, Zenon DEF ProfileIInv

(* The later ones compare with it. *)
LEMMA GoxSampleKeeps ==
    ASSUME ProfileIInv, Conclude, phase # "baseline", Gox PROVE ProfileIInv'
<1>. USE DEF Conclude, GoxSample, verdictVars, reportVars, counterVars, deviceVars, triggerVars
<1>1. pc = "conclude" /\ Gox /\ phase # "baseline"
  BY DEF Conclude
<1>4. /\ pc' \in {"capture", "over"} /\ baseline' = baseline
      /\ flags \subseteq flags' /\ CounterTypes'
      /\ triggered' # Null => triggered' = sinceRead
      /\ bound /\ faults = 0 /\ ~overflow => flags' \cap BadFlags = {} /\ -1 <= previous' /\ previous' <= count
      /\ \/ UNCHANGED verdictVars
         \/ /\ stop' = TRUE /\ failed' = TRUE /\ why' = (IF failed THEN why ELSE "counter")
            /\ bound /\ (faults > 0 \/ overflow)
      /\ UNCHANGED <<cfg, round, at, phase, attempt, faults, comm, reportVars, bound, resetDone,
                     sample, deviceVars, triggerVars, sinceRead>>
  <2>1. /\ sample \in Readings /\ CounterTypes /\ VerdictTypes /\ count \in 0 .. CounterMax
        /\ CounterMax \in Nat
    BY CounterAssumption DEF ProfileIInv, Counting, DeviceTypes
  <2>2. /\ pc' \in {"capture", "over"} /\ baseline' = baseline
        /\ flags' = flags \cup Raised(bound, sample) \cup (IF Regressed THEN {"regressed"} ELSE {})
        /\ triggered' = IF Known(flags') THEN sample.value - baseline ELSE Null
        /\ previous' = IF sample.value # Null THEN sample.value ELSE previous
    BY <1>1
  <2>3. \/ UNCHANGED verdictVars
        \/ /\ stop' = TRUE /\ failed' = TRUE /\ why' = (IF failed THEN why ELSE "counter")
           /\ bound /\ flags' \cap BadFlags # {}
    BY <1>1 DEF BadFlags, SampleFails
  <2>4. /\ UNCHANGED faults
        /\ UNCHANGED <<cfg, round, at, phase, attempt, comm, reportVars, bound, resetDone,
                       sample, deviceVars, triggerVars, sinceRead>>
    BY Zenon DEF Conclude, NoFault
  <2>. HIDE DEF Conclude, GoxSample
  <2>5. ASSUME Known(flags')
        PROVE  /\ sample.value \in Nat /\ baseline \in Nat
               /\ sample.value = baseline + sinceRead
    <3>1. flags' = {} /\ baseline # Null /\ sample.value # Null
      BY <2>5 DEF Known
    <3>2. /\ "negative" \notin flags /\ sample.value # Negative /\ ~sample.overflow
          /\ sample.statusRead
      BY <2>2, <3>1, RaisedFlags
    <3>3. sample.value \in Counts /\ baseline \in Counts
      BY <2>1 DEF Readings, CounterTypes
    <3>4. baseline # Negative
      BY <1>1, <3>2 DEF ProfileIInv, GoxCounted
    <3>5. sample.value \in Nat /\ baseline \in Nat
      BY <2>1, <3>1, <3>2, <3>3, <3>4 DEF Counts, Null, Negative
    <3>. QED BY <1>1, <3>2, <3>5 DEF ProfileIInv, GoxCounted
  <2>6. triggered' # Null => Known(flags') /\ triggered' = sinceRead
    <3>1. sinceRead \in Nat
      BY DEF ProfileIInv, Counting
    <3>. QED BY <2>2, <2>5, <3>1
  <2>7. CounterTypes'
    <3>1. triggered' \in Counts
      <4>1. Null \in Counts
        BY CounterAssumption DEF Null, Counts
      <4>2. CASE triggered' = Null
        BY <4>1, <4>2
      <4>3. CASE triggered' # Null
        <5>1. sinceRead \in Nat /\ sample.value \in Counts /\ sample.value = baseline + sinceRead
              /\ baseline \in Nat /\ triggered' = sinceRead
          BY <2>1, <2>5, <2>6, <4>3 DEF ProfileIInv, Counting, Readings
        <5>. QED BY <2>1, <5>1 DEF Counts
      <4>. QED BY <4>2, <4>3
    <3>2. flags' \subseteq Flags
      BY <2>1, <2>2, RaisedFlags DEF CounterTypes, Flags
    <3>. QED BY <2>1, <2>2, <2>4, <3>1, <3>2 DEF CounterTypes, Readings, counterVars
  <2>8. ASSUME bound, faults = 0, ~overflow
        PROVE  flags' \cap BadFlags = {} /\ -1 <= previous' /\ previous' <= count
    <3>1. /\ flags \cap BadFlags = {} /\ -1 <= previous /\ previous <= count
          /\ sample.binding /\ ~sample.overflow /\ sample.value \in previous .. count
      BY <1>1, <2>8 DEF ProfileIInv, Quiet, BadFlags
    <3>4. sample.value \in Int /\ previous \in -2 .. CounterMax
      BY <2>1, <3>1 DEF CounterTypes, Counts, Readings
    <3>2. ~Regressed /\ sample.value # Negative
      BY <2>1, <3>1, <3>4 DEF Regressed, Negative, Null
    <3>3. flags' \cap BadFlags = {}
      BY <2>2, <3>1, <3>2, RaisedFlags DEF BadFlags
    <3>. QED BY <2>1, <2>2, <3>1, <3>3 DEF CounterTypes, Counts
  <2>9. faults \in Nat
    BY <2>1, CounterAssumption DEF VerdictTypes
  <2>10. flags' \cap BadFlags # {} /\ bound => faults > 0 \/ overflow
    BY <2>1, <2>8, <2>9
  <2>. QED BY <2>2, <2>3, <2>4, <2>6, <2>7, <2>8, <2>10
<1>2. VerdictTypes /\ (Fault \/ NoFault)
  BY DEF ProfileIInv
<1>3. /\ (Contract' <=> Contract) /\ (CounterBound' <=> CounterBound) /\ (Gox' <=> Gox)
      /\ \A p, i : InForce(p, i)' <=> InForce(p, i)
  BY <1>4, SameRegisters
<1>. HIDE DEF Conclude
<1>11. HookTypes'
  BY <1>1, <1>4 DEF ProfileIInv, HookTypes, Staged, PCs, Before, Checked, Sampling, Preparing, Ready
<1>12. VerdictTypes'
  BY <1>1, <1>2, <1>4, FaultBound DEF ProfileIInv, VerdictTypes
<1>13. CounterTypes'
  BY <1>4
<1>14. DeviceTypes'
  BY <1>1, <1>4 DEF ProfileIInv, DeviceTypes
<1>15. Counting'
  BY <1>1, <1>4 DEF ProfileIInv, Counting, Staged, Counts, NoSample
<1>16. Staged'
  BY <1>1, <1>4 DEF ProfileIInv, Staged, Gox, Before, Checked, Sampling, Preparing, Ready
<1>17. FactoryLoaded'
  BY <1>1, <1>4 DEF ProfileIInv, Staged, FactoryLoaded, Gox, Before, Checked, Sampling, Preparing,
     Ready
<1>18. PlanApplied'
  BY <1>1, <1>3, <1>4 DEF ProfileIInv, Staged, PlanApplied, Before, Checked, Sampling, Preparing,
     Ready
<1>19. StillVerified'
  BY <1>1, <1>3, <1>4 DEF ProfileIInv, Staged, StillVerified, Before, Checked, Sampling,
     Preparing, Ready
<1>20. CounterFresh'
  BY <1>1, <1>2, <1>4, FaultBound, <1>3 DEF ProfileIInv, Staged, CounterFresh, Before, Checked,
     Sampling, Preparing, Ready, DeviceTypes
<1>21. GoxCounted'
  BY <1>1, <1>3, <1>4 DEF ProfileIInv, Staged, CounterFresh, GoxCounted, NoSample, Null, Negative,
     Before, Checked, Sampling, Preparing, Ready
<1>22. Fx10Counted'
  BY <1>1, <1>4 DEF ProfileIInv, Staged, CounterFresh, Fx10Counted, Gox, Turned, Before, Checked,
     Sampling, Preparing, Ready
<1>23. Quiet'
  BY <1>1, <1>2, <1>4, FaultBound, <1>3 DEF ProfileIInv, DeviceTypes, Staged, CounterFresh, Quiet,
     Null, Negative, Before, Checked, Sampling, Preparing, Ready, BadFlags
<1>24. FailureHasCause'
  BY <1>1, <1>2, <1>4, FaultBound DEF ProfileIInv, Staged, FailureHasCause, Gox, Before, Checked,
     Sampling, Preparing, Ready
<1>. QED BY <1>11, <1>12, <1>13, <1>14, <1>15, <1>16, <1>17, <1>18, <1>19, <1>20, <1>21, <1>22,
     <1>23, <1>24, Zenon DEF ProfileIInv

(* The FX10 has no more to tell than whether its counter has moved. *)
LEMMA Fx10SampleKeeps ==
    ASSUME ProfileIInv, Conclude, phase # "baseline", ~Gox PROVE ProfileIInv'
<1>. USE DEF Conclude, Fx10Sample, verdictVars, reportVars, counterVars, deviceVars, triggerVars
<1>1. pc = "conclude" /\ ~Gox /\ phase # "baseline"
  BY DEF Conclude
<1>4. /\ pc' \in {"capture", "over"} /\ baseline' = baseline
      /\ CounterTypes' /\ UNCHANGED triggered
      /\ bound /\ faults = 0 /\ ~overflow /\ since = 0 => "regressed" \notin flags' /\ previous' = count
      /\ bound /\ baseline >= 0 /\ ~failed' => previous' = baseline /\ sinceRead = 0
      /\ \/ UNCHANGED verdictVars
         \/ /\ stop' = TRUE /\ failed' = TRUE /\ why' = (IF failed THEN why ELSE "counter")
            /\ bound /\ (faults > 0 \/ overflow \/ since > 0)
      /\ UNCHANGED <<cfg, round, at, phase, attempt, faults, comm, reportVars, bound, resetDone,
                     sample, deviceVars, triggerVars, sinceRead>>
  <2>1. /\ sample \in Readings /\ CounterTypes /\ VerdictTypes /\ count \in 0 .. CounterMax
        /\ CounterMax \in Nat
    BY CounterAssumption DEF ProfileIInv, Counting, DeviceTypes
  <2>2. /\ pc' \in {"capture", "over"} /\ baseline' = baseline /\ triggered' = triggered
        /\ flags' = flags \cup (IF Fx10Regressed THEN {"regressed"} ELSE {})
        /\ previous' = IF sample.value # Null THEN sample.value ELSE previous
    BY <1>1
  <2>. DEFINE exceeded == sample.value # Null /\ baseline >= 0 /\ sample.value > baseline
  <2>3. /\ bound /\ ("regressed" \in flags' \/ exceeded) =>
              stop' = TRUE /\ failed' = TRUE /\ why' = (IF failed THEN why ELSE "counter")
        /\ ~(bound /\ ("regressed" \in flags' \/ exceeded)) => UNCHANGED verdictVars
    <3>1. Fx10Sample
      BY <1>1, Zenon DEF Conclude
    <3>. HIDE DEF Conclude
    <3>. QED BY <3>1 DEF SampleFails
  <2>4. /\ UNCHANGED faults
        /\ UNCHANGED <<cfg, round, at, phase, attempt, comm, reportVars, bound, resetDone,
                       sample, deviceVars, triggerVars, sinceRead>>
    BY Zenon DEF Conclude, NoFault
  <2>. HIDE DEF Conclude, Fx10Sample
  <2>5. CounterTypes'
    <3>1. flags' \subseteq Flags
      BY <2>1, <2>2 DEF CounterTypes, Flags
    <3>. QED BY <2>1, <2>2, <2>4, <3>1 DEF CounterTypes, Readings, counterVars
  <2>6. /\ sample.value \in Int /\ previous \in Int /\ baseline \in Int /\ since \in Nat
        /\ sinceRead \in 0 .. since /\ faults \in Nat /\ failed \in BOOLEAN
    BY <2>1, CounterAssumption DEF ProfileIInv, Counting, Readings, CounterTypes, VerdictTypes,
       Counts
  <2>7. ASSUME bound, faults = 0, ~overflow, since = 0
        PROVE  /\ "regressed" \notin flags' /\ previous' = count
               /\ ~(sample.value # Null /\ baseline >= 0 /\ sample.value > baseline)
    <3>1. /\ "regressed" \notin flags /\ baseline = count /\ previous = count
          /\ sample.value = count
      BY <1>1, <2>7 DEF ProfileIInv, Quiet
    <3>2. ~Fx10Regressed
      BY <2>1, <3>1 DEF Fx10Regressed, Regressed
    <3>. QED BY <2>1, <2>2, <3>1, <3>2
  <2>8. ASSUME bound, baseline >= 0, ~failed'
        PROVE  previous' = baseline /\ sinceRead = 0
    <3>1. /\ since <= CounterMax
          /\ sample.value >= 0 => sample.value = Turned(sinceRead)
          /\ ~failed => previous = baseline
          /\ ~failed /\ sample.value < 0 => sinceRead = 0
      BY <1>1, <2>8 DEF ProfileIInv, Fx10Counted
    <3>2. /\ ~failed /\ "regressed" \notin flags'
          /\ ~(sample.value # Null /\ sample.value > baseline)
      BY <2>3, <2>8 DEF verdictVars
    <3>3. ~Fx10Regressed /\ previous = baseline
      BY <2>2, <3>1, <3>2
    <3>4. sample.value # Null => sample.value = baseline
      BY <2>6, <2>8, <3>2, <3>3 DEF Fx10Regressed, Regressed, Null
    <3>5. CASE sample.value = Null
      BY <2>2, <3>1, <3>2, <3>3, <3>5 DEF Null
    <3>6. CASE sample.value # Null
      <4>1. baseline = Turned(sinceRead)
        BY <2>8, <3>1, <3>4, <3>6
      <4>. QED BY <2>1, <2>2, <2>6, <3>1, <3>4, <3>6, <4>1 DEF Turned
    <3>. QED BY <3>5, <3>6
  <2>9. \/ UNCHANGED verdictVars
        \/ /\ stop' = TRUE /\ failed' = TRUE /\ why' = (IF failed THEN why ELSE "counter")
           /\ bound /\ (faults > 0 \/ overflow \/ since > 0)
    <3>1. CASE bound /\ ("regressed" \in flags' \/ exceeded)
      BY <2>3, <2>6, <2>7, <3>1
    <3>2. CASE ~(bound /\ ("regressed" \in flags' \/ exceeded))
      BY <2>3, <3>2
    <3>. QED BY <3>1, <3>2
  <2>. QED BY <2>2, <2>4, <2>5, <2>7, <2>8, <2>9
<1>2. VerdictTypes /\ (Fault \/ NoFault)
  BY DEF ProfileIInv
<1>3. /\ (Contract' <=> Contract) /\ (CounterBound' <=> CounterBound) /\ (Gox' <=> Gox)
      /\ \A p, i : InForce(p, i)' <=> InForce(p, i)
  BY <1>4, SameRegisters
<1>. HIDE DEF Conclude
<1>11. HookTypes'
  BY <1>1, <1>4 DEF ProfileIInv, HookTypes, Staged, PCs, Before, Checked, Sampling, Preparing, Ready
<1>12. VerdictTypes'
  BY <1>1, <1>2, <1>4, FaultBound DEF ProfileIInv, VerdictTypes
<1>13. CounterTypes'
  BY <1>4
<1>14. DeviceTypes'
  BY <1>1, <1>4 DEF ProfileIInv, DeviceTypes
<1>15. Counting'
  BY <1>1, <1>4 DEF ProfileIInv, Counting, Staged, Counts, NoSample
<1>16. Staged'
  BY <1>1, <1>4 DEF ProfileIInv, Staged, Gox, Before, Checked, Sampling, Preparing, Ready
<1>17. FactoryLoaded'
  BY <1>1, <1>4 DEF ProfileIInv, Staged, FactoryLoaded, Gox, Before, Checked, Sampling, Preparing,
     Ready
<1>18. PlanApplied'
  BY <1>1, <1>3, <1>4 DEF ProfileIInv, Staged, PlanApplied, Before, Checked, Sampling, Preparing,
     Ready
<1>19. StillVerified'
  BY <1>1, <1>3, <1>4 DEF ProfileIInv, Staged, StillVerified, Before, Checked, Sampling,
     Preparing, Ready
<1>20. CounterFresh'
  BY <1>1, <1>2, <1>4, FaultBound, <1>3 DEF ProfileIInv, Staged, CounterFresh, Before, Checked,
     Sampling, Preparing, Ready, DeviceTypes
<1>21. GoxCounted'
  BY <1>1, <1>3, <1>4 DEF ProfileIInv, Staged, CounterFresh, GoxCounted, NoSample, Null, Negative,
     Before, Checked, Sampling, Preparing, Ready
<1>22. Fx10Counted'
  BY <1>1, <1>4 DEF ProfileIInv, Staged, CounterFresh, Fx10Counted, Gox, Turned, Before, Checked,
     Sampling, Preparing, Ready
<1>23. Quiet'
  BY <1>1, <1>2, <1>4, FaultBound, <1>3 DEF ProfileIInv, DeviceTypes, Staged, CounterFresh, Quiet,
     Null, Negative, Before, Checked, Sampling, Preparing, Ready
<1>24. FailureHasCause'
  BY <1>1, <1>2, <1>4, FaultBound DEF ProfileIInv, Staged, FailureHasCause, Gox, Before, Checked,
     Sampling, Preparing, Ready
<1>. QED BY <1>11, <1>12, <1>13, <1>14, <1>15, <1>16, <1>17, <1>18, <1>19, <1>20, <1>21, <1>22,
     <1>23, <1>24, Zenon DEF ProfileIInv

LEMMA ConcludeKeeps == ASSUME ProfileIInv, Conclude PROVE ProfileIInv'
BY BaselineSampleKeeps, GoxSampleKeeps, Fx10SampleKeeps

(* The operator and the camera. *)
LEMMA RequestStopKeeps == ASSUME ProfileIInv, RequestStop PROVE ProfileIInv'
<1>. USE DEF RequestStop, NoFault, hookVars, reportVars, counterVars, deviceVars, triggerVars
<1>1. NoFault
  BY DEF NoFault
<1>2. VerdictTypes /\ (Fault \/ NoFault)
  BY DEF ProfileIInv
<1>3. /\ (Contract' <=> Contract) /\ (CounterBound' <=> CounterBound) /\ (Gox' <=> Gox)
      /\ \A p, i : InForce(p, i)' <=> InForce(p, i)
  BY SameRegisters
<1>11. HookTypes'
  BY <1>1 DEF ProfileIInv, HookTypes, Staged, PCs, Before, Checked, Sampling, Preparing, Ready
<1>12. VerdictTypes'
  BY <1>1, <1>2, FaultBound DEF ProfileIInv, VerdictTypes
<1>13. CounterTypes'
  BY <1>1 DEF ProfileIInv, CounterTypes
<1>14. DeviceTypes'
  BY <1>1 DEF ProfileIInv, DeviceTypes
<1>15. Counting'
  BY <1>1 DEF ProfileIInv, Counting, Staged, Counts, NoSample
<1>16. Staged'
  BY <1>1 DEF ProfileIInv, Staged, Gox, Before, Checked, Sampling, Preparing, Ready
<1>17. FactoryLoaded'
  BY <1>1 DEF ProfileIInv, Staged, FactoryLoaded, Gox, Before, Checked, Sampling, Preparing, Ready
<1>18. PlanApplied'
  BY <1>1, <1>3 DEF ProfileIInv, Staged, PlanApplied, Before, Checked, Sampling, Preparing, Ready
<1>19. StillVerified'
  BY <1>1, <1>3 DEF ProfileIInv, Staged, StillVerified, Before, Checked, Sampling, Preparing, Ready
<1>20. CounterFresh'
  BY <1>1, <1>2, FaultBound, <1>3 DEF ProfileIInv, Staged, CounterFresh, Before, Checked,
     Sampling, Preparing, Ready
<1>21. GoxCounted'
  BY <1>1, <1>3 DEF ProfileIInv, Staged, CounterFresh, GoxCounted, NoSample, Null, Negative,
     Before, Checked, Sampling, Preparing, Ready
<1>22. Fx10Counted'
  BY <1>1 DEF ProfileIInv, Staged, CounterFresh, Fx10Counted, Gox, Turned, Before, Checked,
     Sampling, Preparing, Ready
<1>23. Quiet'
  BY <1>1, <1>2, FaultBound, <1>3 DEF ProfileIInv, DeviceTypes, Staged, CounterFresh, Quiet, Null,
     Negative, Before, Checked, Sampling, Preparing, Ready
<1>24. FailureHasCause'
  BY <1>1, <1>2, FaultBound DEF ProfileIInv, Staged, FailureHasCause, Gox, Before, Checked,
     Sampling, Preparing, Ready
<1>. QED BY <1>11, <1>12, <1>13, <1>14, <1>15, <1>16, <1>17, <1>18, <1>19, <1>20, <1>21, <1>22,
     <1>23, <1>24, Zenon DEF ProfileIInv

LEMMA BecomeReadyKeeps == ASSUME ProfileIInv, BecomeReady PROVE ProfileIInv'
<1>. USE DEF BecomeReady, NoFault, verdictVars, hookVars, reportVars, counterVars, triggerVars
<1>1. NoFault
  BY DEF NoFault
<1>2. VerdictTypes /\ (Fault \/ NoFault)
  BY DEF ProfileIInv
<1>3. /\ (Contract' <=> Contract) /\ (CounterBound' <=> CounterBound) /\ (Gox' <=> Gox)
      /\ \A p, i : InForce(p, i)' <=> InForce(p, i)
  BY SameRegisters
<1>11. HookTypes'
  BY <1>1 DEF ProfileIInv, HookTypes, Staged, PCs, Before, Checked, Sampling, Preparing, Ready
<1>12. VerdictTypes'
  BY <1>1, <1>2, FaultBound DEF ProfileIInv, VerdictTypes
<1>13. CounterTypes'
  BY <1>1 DEF ProfileIInv, CounterTypes
<1>14. DeviceTypes'
  BY <1>1 DEF ProfileIInv, DeviceTypes
<1>15. Counting'
  BY <1>1 DEF ProfileIInv, Counting, Staged, Counts, NoSample
<1>16. Staged'
  BY <1>1 DEF ProfileIInv, Staged, Gox, Before, Checked, Sampling, Preparing, Ready
<1>17. FactoryLoaded'
  BY <1>1 DEF ProfileIInv, Staged, FactoryLoaded, Gox, Before, Checked, Sampling, Preparing, Ready
<1>18. PlanApplied'
  BY <1>1, <1>3 DEF ProfileIInv, Staged, PlanApplied, Before, Checked, Sampling, Preparing, Ready
<1>19. StillVerified'
  BY <1>1, <1>3 DEF ProfileIInv, Staged, StillVerified, Before, Checked, Sampling, Preparing, Ready
<1>20. CounterFresh'
  BY <1>1, <1>2, FaultBound, <1>3 DEF ProfileIInv, Staged, CounterFresh, Before, Checked,
     Sampling, Preparing, Ready
<1>21. GoxCounted'
  BY <1>1, <1>3 DEF ProfileIInv, Staged, CounterFresh, GoxCounted, NoSample, Null, Negative,
     Before, Checked, Sampling, Preparing, Ready
<1>22. Fx10Counted'
  BY <1>1 DEF ProfileIInv, Staged, CounterFresh, Fx10Counted, Gox, Turned, Before, Checked,
     Sampling, Preparing, Ready
<1>23. Quiet'
  BY <1>1, <1>2, FaultBound, <1>3 DEF ProfileIInv, DeviceTypes, Staged, CounterFresh, Quiet, Null,
     Negative, Before, Checked, Sampling, Preparing, Ready
<1>24. FailureHasCause'
  BY <1>1, <1>2, FaultBound DEF ProfileIInv, Staged, FailureHasCause, Gox, Before, Checked,
     Sampling, Preparing, Ready
<1>. QED BY <1>11, <1>12, <1>13, <1>14, <1>15, <1>16, <1>17, <1>18, <1>19, <1>20, <1>21, <1>22,
     <1>23, <1>24, Zenon DEF ProfileIInv

LEMMA ClockMovesKeeps == ASSUME ProfileIInv, ClockMoves PROVE ProfileIInv'
<1>. USE DEF ClockMoves, NoFault, verdictVars, hookVars, reportVars, counterVars, triggerVars
<1>1. NoFault /\ clock' \in {"slave", "master", "listening"}
  BY DEF NoFault
<1>2. VerdictTypes /\ (Fault \/ NoFault)
  BY DEF ProfileIInv
<1>3. /\ (Contract' <=> Contract) /\ (CounterBound' <=> CounterBound) /\ (Gox' <=> Gox)
      /\ \A p, i : InForce(p, i)' <=> InForce(p, i)
  BY SameRegisters
<1>11. HookTypes'
  BY <1>1 DEF ProfileIInv, HookTypes, Staged, PCs, Before, Checked, Sampling, Preparing, Ready
<1>12. VerdictTypes'
  BY <1>1, <1>2, FaultBound DEF ProfileIInv, VerdictTypes
<1>13. CounterTypes'
  BY <1>1 DEF ProfileIInv, CounterTypes
<1>14. DeviceTypes'
  BY <1>1 DEF ProfileIInv, DeviceTypes
<1>15. Counting'
  BY <1>1 DEF ProfileIInv, Counting, Staged, Counts, NoSample
<1>16. Staged'
  BY <1>1 DEF ProfileIInv, Staged, Gox, Before, Checked, Sampling, Preparing, Ready
<1>17. FactoryLoaded'
  BY <1>1 DEF ProfileIInv, Staged, FactoryLoaded, Gox, Before, Checked, Sampling, Preparing, Ready
<1>18. PlanApplied'
  BY <1>1, <1>3 DEF ProfileIInv, Staged, PlanApplied, Before, Checked, Sampling, Preparing, Ready
<1>19. StillVerified'
  BY <1>1, <1>3 DEF ProfileIInv, Staged, StillVerified, Before, Checked, Sampling, Preparing, Ready
<1>20. CounterFresh'
  BY <1>1, <1>2, FaultBound, <1>3 DEF ProfileIInv, Staged, CounterFresh, Before, Checked,
     Sampling, Preparing, Ready
<1>21. GoxCounted'
  BY <1>1, <1>3 DEF ProfileIInv, Staged, CounterFresh, GoxCounted, NoSample, Null, Negative,
     Before, Checked, Sampling, Preparing, Ready
<1>22. Fx10Counted'
  BY <1>1 DEF ProfileIInv, Staged, CounterFresh, Fx10Counted, Gox, Turned, Before, Checked,
     Sampling, Preparing, Ready
<1>23. Quiet'
  BY <1>1, <1>2, FaultBound, <1>3 DEF ProfileIInv, DeviceTypes, Staged, CounterFresh, Quiet, Null,
     Negative, Before, Checked, Sampling, Preparing, Ready
<1>24. FailureHasCause'
  BY <1>1, <1>2, FaultBound DEF ProfileIInv, Staged, FailureHasCause, Gox, Before, Checked,
     Sampling, Preparing, Ready
<1>. QED BY <1>11, <1>12, <1>13, <1>14, <1>15, <1>16, <1>17, <1>18, <1>19, <1>20, <1>21, <1>22,
     <1>23, <1>24, Zenon DEF ProfileIInv

(* The counter turns at its largest value. *)
LEMMA CounterStep ==
    ASSUME count \in 0 .. CounterMax
    PROVE  (count + 1) % (CounterMax + 1) = IF count = CounterMax THEN 0 ELSE count + 1
BY CounterAssumption

LEMMA TriggerKeeps == ASSUME ProfileIInv, Trigger PROVE ProfileIInv'
<1>. USE DEF Trigger, NoFault, verdictVars, hookVars, reportVars, counterVars, deviceVars
<1>1. phase = "capture" /\ NoFault
  BY DEF NoFault
<1>4. /\ count' = IF CounterBound THEN (IF count = CounterMax THEN 0 ELSE count + 1) ELSE count
      /\ overflow' \in BOOLEAN /\ (overflow => overflow')
      /\ CounterBound /\ count = CounterMax => overflow'
      /\ since' = since + 1 /\ (~Gox => since < CounterMax)
      /\ since \in Nat /\ count \in 0 .. CounterMax /\ CounterMax \in Nat
      /\ UNCHANGED <<cfg, hookVars, verdictVars, faults, comm, reportVars, counterVars, deviceVars,
                     sinceRead>>
  <2>1. /\ count \in 0 .. CounterMax /\ CounterMax \in Nat \ {0} /\ overflow \in BOOLEAN
        /\ since \in Nat
    BY CounterAssumption DEF ProfileIInv, DeviceTypes, Counting
  <2>2. /\ CounterBound \in BOOLEAN
        /\ count' = IF CounterBound THEN (count + 1) % (CounterMax + 1) ELSE count
        /\ overflow' = (overflow \/ (CounterBound /\ count = CounterMax))
        /\ since' = since + 1 /\ since <= (IF Gox THEN CounterMax ELSE CounterMax - 1)
    BY DEF CounterBound, TriggerCounterBound, MissedTriggerBound
  <2>3. UNCHANGED <<cfg, hookVars, verdictVars, faults, comm, reportVars, counterVars, deviceVars,
                    sinceRead>>
    OBVIOUS
  <2>. HIDE DEF Trigger
  <2>4. count' = IF CounterBound THEN (IF count = CounterMax THEN 0 ELSE count + 1) ELSE count
    BY <2>1, <2>2, CounterStep
  <2>5. ~Gox => since < CounterMax
    BY <2>1, <2>2
  <2>6. overflow' \in BOOLEAN /\ (overflow => overflow') /\ (CounterBound /\ count = CounterMax => overflow')
    BY <2>2, Zenon
  <2>. QED BY <2>1, <2>2, <2>3, <2>4, <2>5, <2>6
<1>2. VerdictTypes /\ (Fault \/ NoFault)
  BY DEF ProfileIInv
<1>3. /\ (Contract' <=> Contract) /\ (CounterBound' <=> CounterBound) /\ (Gox' <=> Gox)
      /\ \A p, i : InForce(p, i)' <=> InForce(p, i)
  BY <1>4, SameRegisters
<1>. HIDE DEF Trigger
<1>11. HookTypes'
  BY <1>1, <1>4 DEF ProfileIInv, HookTypes, Staged, PCs, Before, Checked, Sampling, Preparing, Ready
<1>12. VerdictTypes'
  BY <1>1, <1>2, <1>4, FaultBound DEF ProfileIInv, VerdictTypes
<1>13. CounterTypes'
  BY <1>1, <1>4 DEF ProfileIInv, CounterTypes
<1>14. DeviceTypes'
  BY <1>1, <1>4 DEF ProfileIInv, DeviceTypes
<1>15. Counting'
  BY <1>1, <1>4 DEF ProfileIInv, Counting, Staged, Counts, NoSample, Readings
<1>16. Staged'
  BY <1>1, <1>4 DEF ProfileIInv, Staged, Gox, Before, Checked, Sampling, Preparing, Ready
<1>17. FactoryLoaded'
  BY <1>1, <1>4 DEF ProfileIInv, Staged, FactoryLoaded, Gox, Before, Checked, Sampling, Preparing,
     Ready
<1>18. PlanApplied'
  BY <1>1, <1>3, <1>4 DEF ProfileIInv, Staged, PlanApplied, Before, Checked, Sampling, Preparing,
     Ready
<1>19. StillVerified'
  BY <1>1, <1>3, <1>4 DEF ProfileIInv, Staged, StillVerified, Before, Checked, Sampling,
     Preparing, Ready
<1>20. CounterFresh'
  BY <1>1, <1>2, <1>4, FaultBound, <1>3 DEF ProfileIInv, Staged, CounterFresh, Before, Checked,
     Sampling, Preparing, Ready
<1>21. GoxCounted'
  BY <1>1, <1>3, <1>4 DEF ProfileIInv, Staged, CounterFresh, GoxCounted, NoSample, Null, Negative,
     Before, Checked, Sampling, Preparing, Ready, Counting, CounterTypes, Counts
<1>22. Fx10Counted'
  <2>. SUFFICES ASSUME ~Gox, bound, baseline >= 0
                PROVE  /\ since' <= CounterMax /\ count' = Turned(since + 1)
                       /\ pc = "conclude" /\ sample.value >= 0 => sample.value = Turned(sinceRead)
                       /\ ~failed => previous = baseline
                       /\ ~failed /\ (pc # "conclude" \/ sample.value < 0) => sinceRead = 0
    BY <1>1, <1>3, <1>4, <1>4 DEF Fx10Counted, Turned
  <2>1. /\ since <= CounterMax /\ count = Turned(since)
        /\ pc = "conclude" /\ sample.value >= 0 => sample.value = Turned(sinceRead)
        /\ ~failed => previous = baseline
        /\ ~failed /\ (pc # "conclude" \/ sample.value < 0) => sinceRead = 0
    BY <1>1, <1>4 DEF ProfileIInv, Fx10Counted
  <2>2. CounterBound /\ baseline \in 0 .. CounterMax
    BY <1>4 DEF ProfileIInv, CounterFresh, CounterTypes, Counts
  <2>3. count' = Turned(since + 1) /\ since' <= CounterMax
    BY <1>4, <2>1, <2>2 DEF Turned
  <2>. QED BY <2>1, <2>3
<1>23. Quiet'
  <2>1. previous \in Int /\ (bound /\ Gox => CounterBound \/ faults > 0)
    BY DEF ProfileIInv, CounterTypes, CounterFresh, Counts
  <2>2. ASSUME bound, faults = 0, ~overflow', Gox
        PROVE  previous <= count => previous <= count'
    BY <1>4, <2>1, <2>2
  <2>3. ASSUME bound, faults = 0, ~overflow', Gox, sample.value \in previous .. count
        PROVE  sample.value \in previous .. count'
    BY <1>4, <2>1, <2>3
  <2>4. since' # 0
    BY <1>4
  <2>5. Quiet
    BY DEF ProfileIInv
  <2>. QED BY <1>1, <1>3, <1>4, <1>4, <2>2, <2>3, <2>4, <2>5 DEF Quiet
<1>24. FailureHasCause'
  BY <1>1, <1>2, <1>4, FaultBound DEF ProfileIInv, Staged, FailureHasCause, Gox, Before, Checked,
     Sampling, Preparing, Ready
<1>. QED BY <1>11, <1>12, <1>13, <1>14, <1>15, <1>16, <1>17, <1>18, <1>19, <1>20, <1>21, <1>22,
     <1>23, <1>24, Zenon DEF ProfileIInv

LEMMA FactoryValues ==
    /\ Factory["CounterSource"] = "factory" /\ Factory["Untouched"] = "factory"
    /\ DOMAIN Factory = Nodes
BY DEF Factory, Nodes

LEMMA CameraForgetsKeeps == ASSUME ProfileIInv, CameraForgets PROVE ProfileIInv'
<1>. USE DEF CameraForgets, verdictVars, hookVars, reportVars, counterVars
<1>1. /\ pc = "capture" /\ phase # "baseline" /\ Gox /\ reg' = Factory
      /\ DOMAIN reg' = Nodes /\ reg'["Untouched"] = "factory"
      /\ ~CounterBound' /\ CounterMax \in Nat /\ faults' > 0
  <2>1. pc = "capture" /\ Gox /\ reg' = Factory /\ cfg' = cfg
    OBVIOUS
  <2>2. phase # "baseline"
    BY <2>1 DEF ProfileIInv, Staged, Preparing, Before, Checked, Sampling
  <2>3. ~CounterBound'
    BY <2>1, FactoryValues DEF CounterBound, TriggerCounterBound, Gox
  <2>4. faults' > 0
    BY FaultBound DEF ProfileIInv
  <2>. QED BY <2>1, <2>2, <2>3, <2>4, FactoryValues, CounterAssumption
<1>2. VerdictTypes /\ (Fault \/ NoFault)
  BY DEF ProfileIInv
<1>11. HookTypes'
  BY <1>1 DEF ProfileIInv, HookTypes, Staged, PCs, Before, Checked, Sampling, Preparing, Ready
<1>12. VerdictTypes'
  BY <1>1, <1>2, FaultBound DEF ProfileIInv, VerdictTypes
<1>13. CounterTypes'
  BY <1>1 DEF ProfileIInv, CounterTypes
<1>14. DeviceTypes'
  <2>1. /\ count' = 0 /\ clock' = "listening" /\ overflow' = FALSE
        /\ ready' = ready /\ acquiring' = acquiring
    OBVIOUS
  <2>. HIDE DEF CameraForgets
  <2>2. ready \in BOOLEAN /\ acquiring \in BOOLEAN
    BY DEF ProfileIInv, DeviceTypes
  <2>3. count' \in 0 .. CounterMax
    BY <2>1, CounterAssumption
  <2>4. DOMAIN reg' = Nodes
    BY <1>1
  <2>. QED BY <2>1, <2>2, <2>3, <2>4 DEF DeviceTypes
<1>15. Counting'
  BY <1>1 DEF ProfileIInv, Counting, Staged, Counts, NoSample
<1>16. Staged'
  BY <1>1 DEF ProfileIInv, Staged, Gox, Before, Checked, Sampling, Preparing, Ready
<1>17. FactoryLoaded'
  BY <1>1 DEF ProfileIInv, Staged, FactoryLoaded, Gox, Before, Checked, Sampling, Preparing, Ready
<1>18. PlanApplied'
  BY <1>1 DEF ProfileIInv, Staged, PlanApplied, Before, Checked, Sampling, Preparing, Ready
<1>19. StillVerified'
  BY <1>1 DEF ProfileIInv, Staged, StillVerified, Gox, Before, Checked, Sampling, Preparing, Ready
<1>20. CounterFresh'
  BY <1>1, <1>2, FaultBound DEF ProfileIInv, Staged, CounterFresh, Gox, Before, Checked, Sampling,
     Preparing, Ready
<1>21. GoxCounted'
  BY <1>1 DEF ProfileIInv, Staged, CounterFresh, GoxCounted, Gox, NoSample, Null, Negative,
     Before, Checked, Sampling, Preparing, Ready
<1>22. Fx10Counted'
  BY <1>1 DEF ProfileIInv, Staged, CounterFresh, Fx10Counted, Gox, Turned, Before, Checked,
     Sampling, Preparing, Ready
<1>23. Quiet'
  BY <1>1, <1>2, FaultBound DEF ProfileIInv, DeviceTypes, Staged, CounterFresh, Quiet, Gox, Null,
     Negative, Before, Checked, Sampling, Preparing, Ready
<1>24. FailureHasCause'
  BY <1>1, <1>2, FaultBound DEF ProfileIInv, Staged, FailureHasCause, Gox, Before, Checked,
     Sampling, Preparing, Ready
<1>. QED BY <1>11, <1>12, <1>13, <1>14, <1>15, <1>16, <1>17, <1>18, <1>19, <1>20, <1>21, <1>22,
     <1>23, <1>24, Zenon DEF ProfileIInv

(* The search for the camera fails the driver before the hooks begin, or leaves
   it to them. *)
LEMMA LocateKeeps == ASSUME ProfileIInv, Locate PROVE ProfileIInv'
<1>. USE DEF Locate, NoFault, addressVars, Goto, Throw, Interrupted, verdictVars, reportVars,
     counterVars, deviceVars, triggerVars
<1>1. /\ phase = "baseline" /\ pc = "begin" /\ pc' \in {"begin", "over"} /\ NoFault
      /\ UNCHANGED <<cfg, round, at, phase, attempt, faults, comm, reportVars, counterVars,
                     deviceVars, triggerVars, sinceRead>>
      /\ \/ pc' = "begin" /\ UNCHANGED verdictVars
         \/ pc' = "over" /\ stop' = TRUE /\ failed' \in BOOLEAN /\ why' \in {why, "device"}
  <2>1. phase = "baseline" /\ failed \in BOOLEAN
    BY DEF ProfileIInv, Staged, Sampling, VerdictTypes
  <2>. QED BY <2>1 DEF NoFault
<1>. HIDE DEF Locate
<1>2. VerdictTypes /\ (Fault \/ NoFault)
  BY <1>1 DEF ProfileIInv
<1>3. /\ (Contract' <=> Contract) /\ (CounterBound' <=> CounterBound) /\ (Gox' <=> Gox)
      /\ \A p, i : InForce(p, i)' <=> InForce(p, i)
  BY <1>1, SameRegisters
<1>11. HookTypes'
  BY <1>1 DEF ProfileIInv, HookTypes, Staged, PCs, Before, Checked, Sampling, Preparing, Ready
<1>12. VerdictTypes'
  BY <1>1, <1>2, FaultBound DEF ProfileIInv, VerdictTypes
<1>13. CounterTypes'
  BY <1>1 DEF ProfileIInv, CounterTypes
<1>14. DeviceTypes'
  BY <1>1 DEF ProfileIInv, DeviceTypes
<1>15. Counting'
  BY <1>1 DEF ProfileIInv, Counting, Staged, Counts, NoSample
<1>16. Staged'
  BY <1>1 DEF ProfileIInv, Staged, Gox, Before, Checked, Sampling, Preparing, Ready
<1>17. FactoryLoaded'
  BY <1>1 DEF ProfileIInv, Staged, FactoryLoaded, Gox, Before, Checked, Sampling, Preparing, Ready
<1>18. PlanApplied'
  BY <1>1, <1>3 DEF ProfileIInv, Staged, PlanApplied, Before, Checked, Sampling, Preparing, Ready
<1>19. StillVerified'
  BY <1>1, <1>3 DEF ProfileIInv, Staged, StillVerified, Before, Checked, Sampling, Preparing, Ready
<1>20. CounterFresh'
  BY <1>1, <1>2, FaultBound, <1>3 DEF ProfileIInv, Staged, CounterFresh, Before, Checked,
     Sampling, Preparing, Ready
<1>21. GoxCounted'
  BY <1>1, <1>3 DEF ProfileIInv, Staged, CounterFresh, GoxCounted, NoSample, Null, Negative,
     Before, Checked, Sampling, Preparing, Ready
<1>22. Fx10Counted'
  BY <1>1 DEF ProfileIInv, Staged, CounterFresh, Fx10Counted, Gox, Turned, Before, Checked,
     Sampling, Preparing, Ready
<1>23. Quiet'
  BY <1>1, <1>2, FaultBound, <1>3 DEF ProfileIInv, DeviceTypes, Staged, CounterFresh, Quiet, Null,
     Negative, Before, Checked, Sampling, Preparing, Ready
<1>24. FailureHasCause'
  BY <1>1, <1>2, FaultBound DEF ProfileIInv, Staged, FailureHasCause, Gox, Before, Checked,
     Sampling, Preparing, Ready
<1>. QED BY <1>11, <1>12, <1>13, <1>14, <1>15, <1>16, <1>17, <1>18, <1>19, <1>20, <1>21, <1>22,
     <1>23, <1>24, Zenon DEF ProfileIInv

(* Nothing of the profiles changes. *)
LEMMA StutterKeeps == ASSUME ProfileIInv, UNCHANGED vars PROVE ProfileIInv'
<1>. USE DEF NoFault, vars, verdictVars, hookVars, reportVars, counterVars, deviceVars,
     triggerVars
<1>1. NoFault
  BY DEF NoFault
<1>2. VerdictTypes /\ (Fault \/ NoFault)
  BY DEF ProfileIInv
<1>3. /\ (Contract' <=> Contract) /\ (CounterBound' <=> CounterBound) /\ (Gox' <=> Gox)
      /\ \A p, i : InForce(p, i)' <=> InForce(p, i)
  BY SameRegisters
<1>11. HookTypes'
  BY <1>1 DEF ProfileIInv, HookTypes, Staged, PCs, Before, Checked, Sampling, Preparing, Ready
<1>12. VerdictTypes'
  BY <1>1, <1>2, FaultBound DEF ProfileIInv, VerdictTypes
<1>13. CounterTypes'
  BY <1>1 DEF ProfileIInv, CounterTypes
<1>14. DeviceTypes'
  BY <1>1 DEF ProfileIInv, DeviceTypes
<1>15. Counting'
  BY <1>1 DEF ProfileIInv, Counting, Staged, Counts, NoSample
<1>16. Staged'
  BY <1>1 DEF ProfileIInv, Staged, Gox, Before, Checked, Sampling, Preparing, Ready
<1>17. FactoryLoaded'
  BY <1>1 DEF ProfileIInv, Staged, FactoryLoaded, Gox, Before, Checked, Sampling, Preparing, Ready
<1>18. PlanApplied'
  BY <1>1, <1>3 DEF ProfileIInv, Staged, PlanApplied, Before, Checked, Sampling, Preparing, Ready
<1>19. StillVerified'
  BY <1>1, <1>3 DEF ProfileIInv, Staged, StillVerified, Before, Checked, Sampling, Preparing, Ready
<1>20. CounterFresh'
  BY <1>1, <1>2, FaultBound, <1>3 DEF ProfileIInv, Staged, CounterFresh, Before, Checked,
     Sampling, Preparing, Ready
<1>21. GoxCounted'
  BY <1>1, <1>3 DEF ProfileIInv, Staged, CounterFresh, GoxCounted, NoSample, Null, Negative,
     Before, Checked, Sampling, Preparing, Ready
<1>22. Fx10Counted'
  BY <1>1 DEF ProfileIInv, Staged, CounterFresh, Fx10Counted, Gox, Turned, Before, Checked,
     Sampling, Preparing, Ready
<1>23. Quiet'
  BY <1>1, <1>2, FaultBound, <1>3 DEF ProfileIInv, DeviceTypes, Staged, CounterFresh, Quiet, Null,
     Negative, Before, Checked, Sampling, Preparing, Ready
<1>24. FailureHasCause'
  BY <1>1, <1>2, FaultBound DEF ProfileIInv, Staged, FailureHasCause, Gox, Before, Checked,
     Sampling, Preparing, Ready
<1>. QED BY <1>11, <1>12, <1>13, <1>14, <1>15, <1>16, <1>17, <1>18, <1>19, <1>20, <1>21, <1>22,
     <1>23, <1>24, Zenon DEF ProfileIInv

----------------------------------------------------------------------------
(* The inductive invariant of the address. *)

IsRecord(s) ==
    s = [ip |-> s.ip, mask |-> s.mask, gateway |-> s.gateway, enabled |-> s.enabled]

AddressShape ==
    /\ request \in Requests \cup {NoRequest} /\ where \in DOMAIN Networks /\ IsRecord(stored)
    /\ exit \in {NoExit, 0, 2, 3, 4, 5, 6, 7} /\ node \in 1 .. 5
    /\ exit # NoExit => tool = "ended"

(* The adapter that saw the camera, and the check of the request against it. *)
Accepted == adapter \in Seeing /\ ValidateSetIp(request, net.adapters[adapter].addresses)

(* Which step of the tool comes after which; nothing is stored before the write;
   a write without errors has stored what was asked for, node by node, and the
   camera it went to is at the address that was asked for. *)
AddressStaged ==
    /\ tool \in {"validate", "force", "await", "connect", "write"} => adapter \in Seeing
    /\ tool \in {"force", "await", "connect", "write"} => Accepted
    /\ tool \notin {"write", "ended"} => node = 1 /\ ~linked /\ errors = {} /\ stored = net.stored
    /\ tool = "connect" => net.offers

Writing ==
    tool = "write" =>
    /\ net.offers
    /\ errors = {} =>
          \A k \in 1 .. node - 1 : stored[PersistentNodes[k]] = Wanted[PersistentNodes[k]]
    /\ linked => now.ip = Wanted.ip
    /\ node = 5 /\ errors = {} => now.ip = Wanted.ip

Answered ==
    /\ exit = 0 => stored = Wanted /\ now.ip = Wanted.ip /\ Accepted /\ ~linked
    /\ exit \in {2, 3, 4, 5, 7} \/ (exit = 6 /\ ~net.offers) => stored = net.stored

AddressIInv == AddressShape /\ AddressStaged /\ Writing /\ Answered

(* The first adapter of those that see the camera is one of them. *)
LEMMA LeastOf ==
    ASSUME NEW S \in SUBSET Nat, S # {}
    PROVE  Min(S) \in S
<1>1. PICK x \in S : \A y \in S : ~(<<y, x>> \in OpToRel(<, Nat))
  BY NatLessThanWellFounded, WFMin
<1>2. \A y \in S : x <= y
  <2>1. ASSUME NEW y \in S PROVE x <= y
    <3>1. ~(<<y, x>> \in OpToRel(<, Nat))
      BY <1>1
    <3>2. ~(y < x)
      BY <3>1 DEF OpToRel
    <3>. QED BY <3>2
  <2>. QED BY <2>1
<1>. QED BY <1>2 DEF Min

(* The adapter that the tool goes on with has seen the camera. *)
LEMMA SeenIsSeeing ==
    ASSUME AddressShape, NEW seen \in Sightings, seen # {}
    PROVE  Min(seen) \in Seeing
<1>1. seen \subseteq Seeing /\ Seeing \subseteq DOMAIN net.adapters
  BY DEF Sightings, Seeing
<1>2. DOMAIN net.adapters \subseteq Nat
  BY NetworksAssumption DEF AddressShape, net
<1>. QED BY <1>1, <1>2, LeastOf

(* The request and the host stay what they are. *)
LEMMA SameRequest ==
    ASSUME UNCHANGED <<request, where>>
    PROVE  /\ Wanted' = Wanted /\ Seeing' = Seeing /\ net' = net
           /\ UNCHANGED adapter => (Accepted' <=> Accepted)
BY DEF Wanted, Seeing, net, Accepted

(* The nodes are told apart by their names. *)
LEMMA NodeNames ==
    /\ Len(PersistentNodes) = 4
    /\ \A k \in 1 .. 4 : PersistentNodes[k] \in {"ip", "mask", "gateway", "enabled"}
    /\ \A j, k \in 1 .. 4 : j # k => PersistentNodes[j] # PersistentNodes[k]
BY DEF PersistentNodes

(* What a node is written to is a record again. *)
LEMMA WrittenNode ==
    ASSUME IsRecord(stored), node \in 1 .. 4,
           stored' = [stored EXCEPT ![PersistentNodes[node]] = Wanted[PersistentNodes[node]]]
    PROVE  /\ IsRecord(stored')
           /\ \A k \in 1 .. node - 1 : stored'[PersistentNodes[k]] = stored[PersistentNodes[k]]
           /\ stored'[PersistentNodes[node]] = Wanted[PersistentNodes[node]]
<1>1. DOMAIN stored = {"ip", "mask", "gateway", "enabled"}
  BY DEF IsRecord
<1>. DEFINE name == PersistentNodes[node]
<1>2. /\ name \in {"ip", "mask", "gateway", "enabled"}
      /\ \A k \in 1 .. node - 1 : PersistentNodes[k] # name
  BY NodeNames
<1>3. \A k \in 1 .. node - 1 : PersistentNodes[k] \in DOMAIN stored
  BY <1>1, NodeNames
<1>. HIDE DEF name
<1>4. /\ DOMAIN stored' = DOMAIN stored /\ stored'[name] = Wanted[name]
      /\ \A n \in DOMAIN stored \ {name} : stored'[n] = stored[n]
      /\ stored' = [n \in DOMAIN stored |-> stored'[n]]
  BY <1>1, <1>2 DEF name
<1>5. IsRecord(stored')
  BY <1>1, <1>4 DEF IsRecord
<1>6. \A k \in 1 .. node - 1 : stored'[PersistentNodes[k]] = stored[PersistentNodes[k]]
  BY <1>2, <1>3, <1>4
<1>. QED BY <1>4, <1>5, <1>6 DEF name

LEMMA AddressInitially == ASSUME AddressInit PROVE AddressIInv
<1>1. IsRecord(stored)
  BY NetworksAssumption DEF AddressInit, IsRecord, net
<1>. QED BY <1>1 DEF AddressInit, AddressIInv, AddressShape, AddressStaged, Writing, Answered,
     NoExit

(* ebus_set_ip, step by step. *)
LEMMA ArgumentsKeeps == ASSUME AddressIInv, Arguments PROVE AddressIInv'
<1>. USE DEF Arguments, Fail, Step
<1>1. /\ Wanted' = Wanted /\ Seeing' = Seeing /\ net' = net
      /\ UNCHANGED adapter => (Accepted' <=> Accepted)
  BY SameRequest
<1>11. AddressShape'
  BY <1>1 DEF AddressIInv, AddressShape, AddressStaged, Writing, Answered, NoExit
<1>12. AddressStaged'
  BY <1>1 DEF AddressIInv, AddressShape, AddressStaged, Writing, Answered, NoExit
<1>13. Writing'
  BY <1>1 DEF AddressIInv, AddressShape, AddressStaged, Writing, Answered, NoExit
<1>14. Answered'
  BY <1>1 DEF AddressIInv, AddressShape, AddressStaged, Writing, Answered, NoExit
<1>. QED BY <1>11, <1>12, <1>13, <1>14 DEF AddressIInv

LEMMA FindByMacKeeps == ASSUME AddressIInv, FindByMac PROVE AddressIInv'
<1>. USE DEF FindByMac, Fail, Step
<1>1. /\ Wanted' = Wanted /\ Seeing' = Seeing /\ net' = net
      /\ UNCHANGED adapter => (Accepted' <=> Accepted)
  BY SameRequest
<1>2. tool' = "validate" => adapter' \in Seeing
  BY SeenIsSeeing DEF AddressIInv
<1>11. AddressShape'
  BY <1>1 DEF AddressIInv, AddressShape, AddressStaged, Writing, Answered, NoExit
<1>12. AddressStaged'
  BY <1>1, <1>2 DEF AddressIInv, AddressShape, AddressStaged, Writing, Answered, NoExit
<1>13. Writing'
  BY <1>1 DEF AddressIInv, AddressShape, AddressStaged, Writing, Answered, NoExit
<1>14. Answered'
  BY <1>1 DEF AddressIInv, AddressShape, AddressStaged, Writing, Answered, NoExit
<1>. QED BY <1>11, <1>12, <1>13, <1>14 DEF AddressIInv

LEMMA ValidateKeeps == ASSUME AddressIInv, Validate PROVE AddressIInv'
<1>. USE DEF Validate, Fail, Step
<1>1. /\ Wanted' = Wanted /\ Seeing' = Seeing /\ net' = net
      /\ UNCHANGED adapter => (Accepted' <=> Accepted)
  BY SameRequest
<1>2. tool' = "force" => Accepted
  BY DEF Accepted, AddressIInv, AddressStaged
<1>11. AddressShape'
  BY <1>1 DEF AddressIInv, AddressShape, AddressStaged, Writing, Answered, NoExit
<1>12. AddressStaged'
  BY <1>1, <1>2 DEF AddressIInv, AddressShape, AddressStaged, Writing, Answered, NoExit
<1>13. Writing'
  BY <1>1 DEF AddressIInv, AddressShape, AddressStaged, Writing, Answered, NoExit
<1>14. Answered'
  BY <1>1 DEF AddressIInv, AddressShape, AddressStaged, Writing, Answered, NoExit
<1>. QED BY <1>11, <1>12, <1>13, <1>14 DEF AddressIInv

LEMMA ForceIpKeeps == ASSUME AddressIInv, ForceIp PROVE AddressIInv'
<1>. USE DEF ForceIp, Fail, Step
<1>1. /\ Wanted' = Wanted /\ Seeing' = Seeing /\ net' = net
      /\ UNCHANGED adapter => (Accepted' <=> Accepted)
  BY SameRequest
<1>11. AddressShape'
  BY <1>1 DEF AddressIInv, AddressShape, AddressStaged, Writing, Answered, NoExit
<1>12. AddressStaged'
  BY <1>1 DEF AddressIInv, AddressShape, AddressStaged, Writing, Answered, NoExit
<1>13. Writing'
  BY <1>1 DEF AddressIInv, AddressShape, AddressStaged, Writing, Answered, NoExit
<1>14. Answered'
  BY <1>1 DEF AddressIInv, AddressShape, AddressStaged, Writing, Answered, NoExit
<1>. QED BY <1>11, <1>12, <1>13, <1>14 DEF AddressIInv

LEMMA AwaitAddressKeeps == ASSUME AddressIInv, AwaitAddress PROVE AddressIInv'
<1>. USE DEF AwaitAddress, Fail, Step
<1>1. /\ Wanted' = Wanted /\ Seeing' = Seeing /\ net' = net
      /\ UNCHANGED adapter => (Accepted' <=> Accepted)
  BY SameRequest
<1>11. AddressShape'
  BY <1>1 DEF AddressIInv, AddressShape, AddressStaged, Writing, Answered, NoExit
<1>12. AddressStaged'
  BY <1>1 DEF AddressIInv, AddressShape, AddressStaged, Writing, Answered, NoExit
<1>13. Writing'
  BY <1>1 DEF AddressIInv, AddressShape, AddressStaged, Writing, Answered, NoExit
<1>14. Answered'
  BY <1>1 DEF AddressIInv, AddressShape, AddressStaged, Writing, Answered, NoExit
<1>. QED BY <1>11, <1>12, <1>13, <1>14 DEF AddressIInv

LEMMA ConnectForWriteKeeps == ASSUME AddressIInv, ConnectForWrite PROVE AddressIInv'
<1>. USE DEF ConnectForWrite, Fail, Step
<1>1. /\ Wanted' = Wanted /\ Seeing' = Seeing /\ net' = net
      /\ UNCHANGED adapter => (Accepted' <=> Accepted)
  BY SameRequest
<1>11. AddressShape'
  BY <1>1 DEF AddressIInv, AddressShape, AddressStaged, Writing, Answered, NoExit
<1>12. AddressStaged'
  BY <1>1 DEF AddressIInv, AddressShape, AddressStaged, Writing, Answered, NoExit
<1>13. Writing'
  BY <1>1 DEF AddressIInv, AddressShape, AddressStaged, Writing, Answered, NoExit
<1>14. Answered'
  BY <1>1 DEF AddressIInv, AddressShape, AddressStaged, Writing, Answered, NoExit
<1>. QED BY <1>11, <1>12, <1>13, <1>14 DEF AddressIInv

LEMMA WriteNodeKeeps == ASSUME AddressIInv, WriteNode PROVE AddressIInv'
<1>. USE DEF WriteNode
<1>1. /\ Wanted' = Wanted /\ Seeing' = Seeing /\ net' = net
      /\ UNCHANGED adapter => (Accepted' <=> Accepted)
  BY SameRequest
<1>2. /\ IsRecord(stored) /\ node \in 1 .. 4
  BY NodeNames DEF AddressIInv, AddressShape
<1>3. /\ IsRecord(stored') /\ node' = node + 1 /\ tool = "write"
      /\ errors' = {} => /\ errors = {} /\ linked
                        /\ stored' = [stored EXCEPT ![PersistentNodes[node]] = Wanted[PersistentNodes[node]]]
      /\ UNCHANGED <<request, where, now, forced, tool, exit, adapter, linked>>
  BY <1>2, WrittenNode DEF Noted
<1>4. exit = NoExit /\ now.ip = now'.ip
  BY <1>3 DEF AddressIInv, AddressShape
<1>5. ASSUME errors' = {}
      PROVE  /\ \A k \in 1 .. node' - 1 : stored'[PersistentNodes[k]] = Wanted[PersistentNodes[k]]
             /\ now.ip = Wanted.ip
  <2>1. /\ \A k \in 1 .. node - 1 : stored[PersistentNodes[k]] = Wanted[PersistentNodes[k]]
        /\ now.ip = Wanted.ip
    BY <1>3, <1>5 DEF AddressIInv, Writing
  <2>2. /\ \A k \in 1 .. node - 1 : stored'[PersistentNodes[k]] = stored[PersistentNodes[k]]
        /\ stored'[PersistentNodes[node]] = Wanted[PersistentNodes[node]]
    BY <1>2, <1>3, <1>5, WrittenNode
  <2>. HIDE DEF WriteNode
  <2>3. ASSUME NEW k \in 1 .. node' - 1
        PROVE  stored'[PersistentNodes[k]] = Wanted[PersistentNodes[k]]
    <3>1. k \in 1 .. node - 1 \/ k = node
      BY <1>2, <1>3
    <3>. QED BY <2>1, <2>2, <3>1
  <2>. QED BY <2>1, <2>3
<1>. HIDE DEF WriteNode
<1>11. AddressShape'
  BY <1>1, <1>2, <1>3 DEF AddressIInv, AddressShape, AddressStaged, Writing, Answered, NoExit
<1>12. AddressStaged'
  BY <1>1, <1>3 DEF AddressIInv, AddressShape, AddressStaged, Writing, Answered, NoExit
<1>13. Writing'
  BY <1>1, <1>3, <1>4, <1>5 DEF AddressIInv, AddressShape, AddressStaged, Writing, Answered, NoExit
<1>14. Answered'
  BY <1>1, <1>3, <1>4 DEF AddressIInv, AddressShape, AddressStaged, Writing, Answered, NoExit
<1>. QED BY <1>11, <1>12, <1>13, <1>14 DEF AddressIInv

LEMMA PersistDoneKeeps == ASSUME AddressIInv, PersistDone PROVE AddressIInv'
<1>. USE DEF PersistDone, Fail
<1>1. /\ Wanted' = Wanted /\ Seeing' = Seeing /\ net' = net
      /\ UNCHANGED adapter => (Accepted' <=> Accepted)
  BY SameRequest
<1>2. ASSUME errors = {} PROVE stored = Wanted /\ now.ip = Wanted.ip /\ Accepted /\ net.offers
  <2>1. node = 5 /\ IsRecord(stored)
    BY NodeNames DEF AddressIInv, AddressShape
  <2>2. \A k \in 1 .. 4 : stored[PersistentNodes[k]] = Wanted[PersistentNodes[k]]
    BY <1>2, <2>1 DEF AddressIInv, Writing
  <2>3. /\ stored.ip = Wanted.ip /\ stored.mask = Wanted.mask
        /\ stored.gateway = Wanted.gateway /\ stored.enabled = Wanted.enabled
    BY <2>2 DEF PersistentNodes
  <2>4. IsRecord(Wanted)
    BY DEF Wanted, IsRecord
  <2>5. stored = Wanted
    BY <2>1, <2>3, <2>4, Zenon DEF IsRecord
  <2>. QED BY <1>2, <2>1, <2>5 DEF AddressIInv, AddressStaged, Writing
<1>11. AddressShape'
  BY <1>1 DEF AddressIInv, AddressShape, AddressStaged, Writing, Answered, NoExit
<1>12. AddressStaged'
  BY <1>1 DEF AddressIInv, AddressShape, AddressStaged, Writing, Answered, NoExit
<1>13. Writing'
  BY <1>1 DEF AddressIInv, AddressShape, AddressStaged, Writing, Answered, NoExit
<1>14. Answered'
  BY <1>1, <1>2 DEF AddressIInv, AddressShape, AddressStaged, Writing, Answered, NoExit
<1>. QED BY <1>11, <1>12, <1>13, <1>14 DEF AddressIInv

LEMMA ReaddressedKeeps == ASSUME AddressIInv, Readdressed PROVE AddressIInv'
<1>. USE DEF Readdressed
<1>1. /\ Wanted' = Wanted /\ Seeing' = Seeing /\ net' = net
      /\ UNCHANGED adapter => (Accepted' <=> Accepted)
  BY SameRequest
<1>2. now'.ip = Wanted.ip
  BY DEF AddressOf
<1>11. AddressShape'
  BY <1>1 DEF AddressIInv, AddressShape, AddressStaged, Writing, Answered, NoExit
<1>12. AddressStaged'
  BY <1>1 DEF AddressIInv, AddressShape, AddressStaged, Writing, Answered, NoExit
<1>13. Writing'
  BY <1>1, <1>2 DEF AddressIInv, AddressShape, AddressStaged, Writing, Answered, NoExit
<1>14. Answered'
  BY <1>1, <1>2 DEF AddressIInv, AddressShape, AddressStaged, Writing, Answered, NoExit
<1>. QED BY <1>11, <1>12, <1>13, <1>14 DEF AddressIInv

LEMMA PowerCycleKeeps == ASSUME AddressIInv, PowerCycle PROVE AddressIInv'
<1>. USE DEF PowerCycle
<1>1. /\ Wanted' = Wanted /\ Seeing' = Seeing /\ net' = net
      /\ UNCHANGED adapter => (Accepted' <=> Accepted)
  BY SameRequest
<1>2. ASSUME stored.ip = Wanted.ip, stored.enabled = Wanted.enabled
      PROVE  now'.ip = Wanted.ip
  BY <1>2 DEF AddressOf, Wanted
<1>3. ASSUME tool = "write", errors = {}, node = 5 PROVE now'.ip = Wanted.ip
  <2>1. \A k \in 1 .. 4 : stored[PersistentNodes[k]] = Wanted[PersistentNodes[k]]
    BY <1>3 DEF AddressIInv, Writing
  <2>2. stored.ip = Wanted.ip /\ stored.enabled = Wanted.enabled
    BY <2>1 DEF PersistentNodes
  <2>. QED BY <1>2, <2>2
<1>4. exit = 0 => now'.ip = Wanted.ip
  BY <1>2, Zenon DEF AddressIInv, Answered
<1>11. AddressShape'
  BY <1>1 DEF AddressIInv, AddressShape, AddressStaged, Writing, Answered, NoExit
<1>12. AddressStaged'
  BY <1>1 DEF AddressIInv, AddressShape, AddressStaged, Writing, Answered, NoExit
<1>13. Writing'
  BY <1>1, <1>3 DEF AddressIInv, AddressShape, AddressStaged, Writing, Answered, NoExit
<1>14. Answered'
  BY <1>1, <1>4 DEF AddressIInv, AddressShape, AddressStaged, Writing, Answered, NoExit
<1>. QED BY <1>11, <1>12, <1>13, <1>14 DEF AddressIInv

LEMMA SetIpKeeps == ASSUME AddressIInv, SetDeviceIp \/ CameraMoves PROVE AddressIInv'
BY ArgumentsKeeps, FindByMacKeeps, ValidateKeeps, ForceIpKeeps, AwaitAddressKeeps,
   ConnectForWriteKeeps, WriteNodeKeeps, PersistDoneKeeps, ReaddressedKeeps, PowerCycleKeeps
   DEF SetDeviceIp, CameraMoves

LEMMA AddressStutter == ASSUME AddressIInv, UNCHANGED addressVars PROVE AddressIInv'
<1>1. /\ Wanted' = Wanted /\ Seeing' = Seeing /\ net' = net /\ (Accepted' <=> Accepted)
  BY SameRequest DEF addressVars
<1>. QED BY <1>1 DEF AddressIInv, AddressShape, AddressStaged, Writing, Answered, addressVars

(* What the operator and the driver are promised. *)
LEMMA AddressServes == ASSUME AddressIInv PROVE AddressIsHonest /\ SetIpServesTheDriver
<1>1. AddressIsHonest
  BY DEF AddressIInv, AddressShape, Answered, AddressIsHonest
<1>2. ASSUME exit = 0, ~request.allow_foreign_subnet, Cardinality(Seeing) = 1, now.mask = Wanted.mask
      PROVE  FindCamera(Seeing) = "found"
  <2>1. /\ now.ip = Wanted.ip /\ adapter \in Seeing
        /\ ValidateSetIp(request, net.adapters[adapter].addresses)
    BY <1>2 DEF AddressIInv, Answered, Accepted
  <2>2. DOMAIN net.adapters \subseteq Nat
    BY NetworksAssumption DEF AddressIInv, AddressShape, net
  <2>3. Min(Seeing) = adapter
    <3>1. IsFiniteSet(Seeing)
      <4>1. IsFiniteSet(DOMAIN net.adapters) /\ Seeing \subseteq DOMAIN net.adapters
        BY NetworksAssumption DEF AddressIInv, AddressShape, net, Seeing
      <4>. QED BY <4>1, FS_Subset
    <3>2. \E x : Seeing = {x}
      BY <1>2, <3>1, FS_Singleton
    <3>3. Seeing = {adapter} /\ adapter \in Nat
      BY <2>1, <2>2, <3>2 DEF Seeing
    <3>. QED BY <3>3 DEF Min
  <2>4. \E h \in HostAddresses(net.adapters[adapter].addresses) : Share(h, now.ip, now.mask)
    BY <1>2, <2>1 DEF ValidateSetIp, Wanted
  <2>. QED BY <1>2, <2>3, <2>4 DEF FindCamera, ConfigurationValid
<1>. QED BY <1>1, <1>2 DEF AddressIInv, Answered, SetIpServesTheDriver

----------------------------------------------------------------------------
(* The profiles. *)
LEMMA ProfileInitially == ASSUME Init PROVE ProfileIInv
<1>. USE DEF Init, Null
<1>1. HookTypes
  <2>1. Len(Plan(cfg)) \in Nat
    BY ConfigsAssumption, PlanOrdered, Zenon DEF PlanOrder, List
  <2>. QED BY <2>1 DEF HookTypes, PCs, HealthRetries
<1>20. Null \in Counts /\ 0 \in 0 .. MaxFaults /\ {0, 1} \subseteq 0 .. CounterMax
  BY CounterAssumption DEF Counts
<1>2. VerdictTypes /\ CounterTypes
  <2>. HIDE DEF Null
  <2>. QED BY <1>20 DEF VerdictTypes, CounterTypes
<1>3. DeviceTypes /\ Counting
  <2>. HIDE DEF Null
  <2>1. DeviceTypes
    BY <1>20 DEF DeviceTypes, Leftover
  <2>2. sample \in Readings
    BY <1>20 DEF Readings, NoSample
  <2>. QED BY <2>1, <2>2 DEF Counting
<1>4. Staged /\ FactoryLoaded
  BY DEF Staged, FactoryLoaded, Gox, Preparing, Before, Checked, Sampling
<1>5. PlanApplied /\ StillVerified
  BY DEF PlanApplied, StillVerified, Ready, Before, Checked, Sampling, Gox
<1>6. CounterFresh /\ GoxCounted /\ Fx10Counted /\ Quiet /\ FailureHasCause
  BY DEF CounterFresh, GoxCounted, Fx10Counted, Quiet, FailureHasCause, Negative
<1>. QED BY <1>1, <1>2, <1>3, <1>4, <1>5, <1>6 DEF ProfileIInv

LEMMA HookStepKeeps == ASSUME ProfileIInv, HookStep PROVE ProfileIInv'
BY FactoryBeginKeeps, RaiseTimeoutsKeeps, FactoryCommandKeeps, WaitCommandDoneKeeps,
   AwaitControlReadyKeeps, ConfirmLoadKeeps, PtpDisableKeeps, PtpEnableKeeps,
   WaitForSyncKeeps, ConfigureStreamKeeps, BeginConfigureKeeps, ApplyFeatureKeeps,
   ApplyDoneKeeps, VerifyContractKeeps, RawAuditKeeps, SelectorsHomeKeeps,
   EngineReadyKeeps, ResetTriggerCounterKeeps, ShutterPulseKeeps, MissedBaselineKeeps,
   StartCaptureKeeps, CheckHealthKeeps, ReadTemperaturesKeeps, ReadBindingKeeps,
   ReadValueKeeps, ReadStatusKeeps, ConcludeKeeps, NextSampleKeeps, StopSourceKeeps, Zenon DEF HookStep

(* Everything that happens to a camera keeps both invariants. *)
BringUpIInv == ProfileIInv /\ AddressIInv

LEMMA BringUpKeeps ==
    ASSUME BringUpIInv, [BringUpNext]_bringUpVars PROVE BringUpIInv'
<1>1. CASE SetIp
  BY <1>1, SetIpKeeps, StutterKeeps DEF BringUpIInv, SetIp
<1>2. CASE Locate
  BY <1>2, LocateKeeps, AddressStutter DEF BringUpIInv, Locate
<1>3. CASE Hooks
  BY <1>3, HookStepKeeps, AddressStutter DEF BringUpIInv, Hooks
<1>4. CASE Around
  BY <1>4, RequestStopKeeps, BecomeReadyKeeps, ClockMovesKeeps, TriggerKeeps,
     CameraForgetsKeeps, AddressStutter DEF BringUpIInv, Around
<1>5. CASE UNCHANGED bringUpVars
  BY <1>5, StutterKeeps, AddressStutter DEF BringUpIInv, bringUpVars
<1>. QED BY <1>1, <1>2, <1>3, <1>4, <1>5 DEF BringUpNext, Ended

LEMMA BringUpInductive == BringUpSpec => []BringUpIInv
<1>1. BringUpInit => BringUpIInv
  BY ProfileInitially, AddressInitially DEF BringUpInit, BringUpIInv
<1>. QED BY <1>1, BringUpKeeps, PTL DEF BringUpSpec

LEMMA BringUpKept == ASSUME BringUpIInv PROVE BringUpInv
<1>1. TypeOK
  BY DEF BringUpIInv, ProfileIInv, HookTypes, VerdictTypes, CounterTypes, DeviceTypes, TypeOK
<1>2. TimeoutsRestored
  BY DEF BringUpIInv, ProfileIInv, Staged, VerdictTypes, TimeoutsRestored
<1>. QED BY <1>1, <1>2, AddressServes DEF BringUpIInv, BringUpInv, ProfileInv

(* What the invariant says of the counter at the end of a sample. *)
LEMMA CountKept == ASSUME ProfileIInv PROVE TriggerCountExact
BY DEF ProfileIInv, Counting, GoxCounted, Fx10Counted, TriggerCountExact

(* Only StartCapture begins a capture. *)
LEMMA OnlyStart ==
    ASSUME HookStep, phase # "capture", phase' = "capture"
    PROVE  StartCapture
<1>1. ~FactoryBegin
  BY Zenon DEF FactoryBegin
<1>2. ~RaiseTimeouts
  BY Zenon DEF RaiseTimeouts
<1>3. ~FactoryCommand
  BY Zenon DEF FactoryCommand
<1>4. ~WaitCommandDone
  BY Zenon DEF WaitCommandDone
<1>5. ~AwaitControlReady
  BY Zenon DEF AwaitControlReady
<1>6. ~ConfirmLoad
  BY Zenon DEF ConfirmLoad
<1>7. ~PtpDisable
  BY Zenon DEF PtpDisable, PtpWrite
<1>8. ~PtpEnable
  BY Zenon DEF PtpEnable, PtpWrite
<1>9. ~WaitForSync
  BY Zenon DEF WaitForSync
<1>10. ~ConfigureStream
  BY Zenon DEF ConfigureStream
<1>11. ~BeginConfigure
  BY Zenon DEF BeginConfigure
<1>12. ~ApplyFeature
  BY Zenon DEF ApplyFeature
<1>13. ~ApplyDone
  BY Zenon DEF ApplyDone
<1>14. ~VerifyContract
  BY Zenon DEF VerifyContract
<1>15. ~RawAudit
  BY Zenon DEF RawAudit
<1>16. ~SelectorsHome
  BY Zenon DEF SelectorsHome
<1>17. ~EngineReady
  BY Zenon DEF EngineReady
<1>18. ~ResetTriggerCounter
  BY Zenon DEF ResetTriggerCounter
<1>19. ~ShutterPulse
  BY Zenon DEF ShutterPulse
<1>20. ~MissedBaseline
  BY Zenon DEF MissedBaseline
<1>21. ~CheckHealth
  BY Zenon DEF CheckHealth
<1>22. ~ReadTemperatures
  BY Zenon DEF ReadTemperatures
<1>23. ~ReadBinding
  BY Zenon DEF ReadBinding
<1>24. ~ReadValue
  BY Zenon DEF ReadValue
<1>25. ~ReadStatus
  BY Zenon DEF ReadStatus
<1>26. ~Conclude
  BY Zenon DEF Conclude
<1>27. ~NextSample
  BY Zenon DEF NextSample
<1>28. ~StopSource
  BY Zenon DEF StopSource
<1>. QED BY <1>1, <1>2, <1>3, <1>4, <1>5, <1>6, <1>7, <1>8, <1>9, <1>10, <1>11, <1>12, <1>13,
     <1>14, <1>15, <1>16, <1>17, <1>18, <1>19, <1>20, <1>21, <1>22, <1>23, <1>24, <1>25, <1>26,
     <1>27, <1>28, Zenon DEF HookStep

(* Before the capture starts, the last word of the plan is in every register. *)
LEMMA StartsWell == ASSUME ProfileIInv, StartCapture PROVE GoodStart
<1>1. /\ pc = "start" /\ phase = "baseline" /\ Ready
  BY DEF StartCapture, ProfileIInv, Staged, Sampling, Ready, Checked
<1>2. Contract
  BY <1>1 DEF ProfileIInv, StillVerified
<1>3. ASSUME NEW i \in 1 .. Len(Plan(cfg)), Plan(cfg)[i].required, Plan(cfg)[i].strict, Final(i)
      PROVE  reg[Plan(cfg)[i].node] = Plan(cfg)[i].value
  <2>1. InForce(Plan(cfg), Len(Plan(cfg)) + 1) /\ Len(Plan(cfg)) \in Nat
    BY <1>1, PlanOfConfig DEF ProfileIInv, PlanApplied
  <2>2. /\ i \in 1 .. (Len(Plan(cfg)) + 1) - 1 /\ Plan(cfg)[i].node \in Nodes
        /\ LastBefore(Plan(cfg), i, Len(Plan(cfg)) + 1)
    <3>1. (Len(Plan(cfg)) + 1) - 1 = Len(Plan(cfg))
      BY <2>1
    <3>. QED BY <1>3, <3>1 DEF Final, LastBefore
  <2>. QED BY <1>3, <2>1, <2>2 DEF InForce
<1>4. Gox => /\ reg["GainSelector"] = "0"
             /\ reg["Untouched"] = "factory" \/ audit # "match"
  BY <1>1 DEF ProfileIInv, StillVerified
<1>5. ~Gox => shutter = << IF cfg.dark THEN "close" ELSE "open" >>
  BY <1>1 DEF ProfileIInv, StillVerified
<1>. QED BY <1>2, <1>3, <1>4, <1>5 DEF GoodStart

----------------------------------------------------------------------------
(* For every configuration, every network and every bound: the types hold, the
   raised time-outs end with the factory load whichever way it ends, and the exit
   code of ebus_set_ip means what the operator and the driver take it for
   (FactoryDefaults of the cameras, SetDeviceIp, FindCamera). *)
THEOREM BringUpSafe == BringUpSpec => []BringUpInv
BY BringUpInductive, BringUpKept, PTL

(* The number of triggers that the GO-X reports at the end is the number there
   were, or none is reported; an FX10 that missed one by a sample has failed
   (SampleTelemetry of both cameras). *)
THEOREM TriggersCounted == BringUpSpec => []TriggerCountExact
<1>1. BringUpIInv => TriggerCountExact
  BY CountKept DEF BringUpIInv
<1>. QED BY <1>1, BringUpInductive, PTL

(* No reason is given for a failure that is not there: in particular the plans
   order their writes so that the camera has no cause to refuse any but a window
   it cannot hold (BuildApplyPlan, ApplyConfig, VerifyContract). *)
THEOREM FailuresCaused == BringUpSpec => []FailureHasCause
<1>1. BringUpIInv => FailureHasCause
  BY DEF BringUpIInv, ProfileIInv
<1>. QED BY <1>1, BringUpInductive, PTL

(* A capture starts on the contract of the recording and on every write of the
   plan that nothing overrides, with the selectors at home, an honest audit and
   one shutter pulse (StartAcquisition after BeforeStart). *)
THEOREM CapturesStartWell == BringUpSpec => CaptureOnContract
<1>1. BringUpIInv /\ [BringUpNext]_bringUpVars
         => [phase # "capture" /\ phase' = "capture" => GoodStart]_vars
  <2>. SUFFICES ASSUME BringUpIInv, [BringUpNext]_bringUpVars,
                       phase # "capture", phase' = "capture"
                PROVE  GoodStart
    OBVIOUS
  <2>1. phase' # phase
    OBVIOUS
  <2>2. ~SetIp /\ ~Ended /\ ~UNCHANGED bringUpVars
    BY <2>1 DEF SetIp, Ended, bringUpVars, vars, hookVars
  <2>3. ~Locate
    BY <2>1 DEF Locate
  <2>4. ~Around
    BY <2>1 DEF Around, RequestStop, BecomeReady, ClockMoves, Trigger, CameraForgets, hookVars
  <2>5. HookStep
    BY <2>2, <2>3, <2>4 DEF BringUpNext, Hooks
  <2>. QED BY <2>5, OnlyStart, StartsWell DEF BringUpIInv
<1>. QED BY <1>1, BringUpInductive, PTL DEF BringUpSpec, CaptureOnContract
=============================================================================
