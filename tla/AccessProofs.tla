---------------------------- MODULE AccessProofs ----------------------------
(***************************************************************************)
(* Signing in, for any number of requests, names, devices and tokens and   *)
(* any settings: one administrator, tokens that open one thing and live as *)
(* TokenLife says, elevations that were proved, and a throttle that holds  *)
(* however requests overlap.                                               *)
(***************************************************************************)
EXTENDS Access, DataLemmas, SequenceTheorems

-----------------------------------------------------------------------------
(* Lists of times                                                          *)

Ascending(f) == \A i, k \in 1..Len(f) : i <= k => f[i] <= f[k]

\* Times in the order they passed, none in the future.
Timely(f, time) == f \in Seq(Nat) /\ Ascending(f) /\ \A i \in 1..Len(f) : f[i] <= time

LEMMA SinceFacts ==
  ASSUME NEW f \in Seq(Nat), Ascending(f), NEW time \in Int
  PROVE  \E k \in 0..Len(f) :
           /\ \A i \in 1..Len(f) : f[i] < time <=> i <= k
           /\ Since(f, time) \in Seq(Nat) /\ Len(Since(f, time)) = Len(f) - k
           /\ \A i \in 1..(Len(f) - k) : Since(f, time)[i] = f[k + i]
<1> DEFINE Old == {0} \cup {i \in DOMAIN f : f[i] < time}
           k == Max(Old)
<1>1. Len(f) \in Nat /\ DOMAIN f = 1..Len(f) /\ \A i \in 1..Len(f) : f[i] \in Nat
  BY LenProperties
<1>2. Old \subseteq 0..Len(f)
  BY <1>1
<1>3. IsFiniteSet(Old) /\ Old \subseteq Int /\ Old # {}
  <2> HIDE DEF Old
  <2>1. IsFiniteSet(0..Len(f)) /\ 0..Len(f) \subseteq Int
    BY <1>1, FS_Interval
  <2>2. IsFiniteSet(Old) /\ Old \subseteq Int
    BY <1>2, <2>1, FS_Subset
  <2> QED BY <2>2 DEF Old
<1>4. k \in Old /\ \A i \in Old : k >= i
  <2> HIDE DEF Old
  <2> QED BY <1>3, MaxInSet
<1>5. k \in 0..Len(f)
  BY <1>2, <1>4
<1>6. \A i \in 1..Len(f) : f[i] < time <=> i <= k
  <2> SUFFICES ASSUME NEW i \in 1..Len(f) PROVE f[i] < time <=> i <= k
    OBVIOUS
  <2>1. f[i] < time => i <= k
    BY <1>1, <1>4
  <2>2. ASSUME i <= k PROVE f[i] < time
    <3>1. k \in 1..Len(f) /\ f[k] < time
      BY <1>1, <1>4, <1>5, <2>2
    <3>2. f[i] <= f[k]
      BY <2>2, <3>1 DEF Ascending
    <3> HIDE DEF k
    <3> QED BY <1>1, <3>1, <3>2
  <2> QED BY <2>1, <2>2
<1> DEFINE g == Since(f, time)
<1>7. g = SubSeq(f, k + 1, Len(f))
  BY DEF Since
<1> HIDE DEF k, g
<1>8. \A i \in (k + 1)..Len(f) : f[i] \in Nat
  BY <1>1, <1>5
<1>9. /\ g \in Seq(Nat)
      /\ Len(g) = IF k + 1 <= Len(f) THEN Len(f) - (k + 1) + 1 ELSE 0
      /\ \A i \in 1..(Len(f) - (k + 1) + 1) : g[i] = f[(k + 1) + i - 1]
  BY <1>1, <1>5, <1>7, <1>8, SubSeqProperties
<1>10. Len(g) = Len(f) - k
  <2>1. Len(f) \in Nat
    BY <1>1
  <2>2. CASE k + 1 <= Len(f)
    <3>1. Len(g) = Len(f) - (k + 1) + 1
      BY <1>9, <2>2
    <3> QED BY <1>5, <2>1, <3>1
  <2>3. CASE k = Len(f)
    <3>1. ~(k + 1 <= Len(f))
      BY <2>1, <2>3
    <3>2. Len(g) = 0
      BY <1>9, <3>1
    <3> QED BY <2>1, <2>3, <3>2
  <2> QED BY <1>5, <2>1, <2>2, <2>3
<1>11. ASSUME NEW i \in 1..(Len(f) - k) PROVE g[i] = f[k + i]
  <2>1. i \in 1..(Len(f) - (k + 1) + 1) /\ (k + 1) + i - 1 = k + i
    BY <1>1, <1>5
  <2> QED BY <1>9, <2>1
<1> QED BY <1>5, <1>6, <1>9, <1>10, <1>11 DEF g

\* g is f without its first k elements.
EndOf(g, f, k) ==
  /\ g \in Seq(Nat) /\ k \in 0..Len(f) /\ Len(g) = Len(f) - k
  /\ \A i \in 1..Len(g) : g[i] = f[k + i]

LEMMA SinceIsEnd ==
  ASSUME NEW f \in Seq(Nat), Ascending(f), NEW time \in Int
  PROVE  \E k \in 0..Len(f) : /\ EndOf(Since(f, time), f, k)
                              /\ \A i \in 1..Len(f) : f[i] < time <=> i <= k
<1>1. PICK k \in 0..Len(f) :
        /\ \A i \in 1..Len(f) : f[i] < time <=> i <= k
        /\ Since(f, time) \in Seq(Nat) /\ Len(Since(f, time)) = Len(f) - k
        /\ \A i \in 1..(Len(f) - k) : Since(f, time)[i] = f[k + i]
  BY SinceFacts
<1> DEFINE g == Since(f, time)
<1>2. g \in Seq(Nat) /\ Len(g) = Len(f) - k /\ \A i \in 1..(Len(f) - k) : g[i] = f[k + i]
  BY <1>1
<1> HIDE DEF g
<1>3. EndOf(g, f, k)
  BY <1>2 DEF EndOf
<1> QED BY <1>1, <1>3 DEF g

LEMMA EndFacts ==
  ASSUME NEW f \in Seq(Nat), Ascending(f), NEW k, NEW g, EndOf(g, f, k)
  PROVE  /\ Ascending(g) /\ Len(g) <= Len(f)
         /\ \A time : (\A i \in 1..Len(f) : f[i] <= time) => \A i \in 1..Len(g) : g[i] <= time
<1>1. Len(f) \in Nat /\ Len(g) \in Nat /\ k \in Nat /\ Len(g) = Len(f) - k
  BY LenProperties DEF EndOf
<1>2. \A i \in 1..Len(g) : g[i] = f[k + i] /\ k + i \in 1..Len(f)
  BY <1>1 DEF EndOf
<1>3. ASSUME NEW i \in 1..Len(g), NEW j \in 1..Len(g), i <= j PROVE g[i] <= g[j]
  <2>1. k + i <= k + j
    BY <1>1, <1>3
  <2> QED BY <1>2, <2>1 DEF Ascending
<1>4. ASSUME NEW time, \A i \in 1..Len(f) : f[i] <= time, NEW i \in 1..Len(g)
      PROVE  g[i] <= time
  BY <1>2, <1>4
<1>5. Len(g) <= Len(f)
  BY <1>1
<1> QED BY <1>3, <1>4, <1>5 DEF Ascending

LEMMA SinceTimely ==
  ASSUME NEW f, NEW last \in Nat, Timely(f, last), NEW time \in Int
  PROVE  Timely(Since(f, time), last) /\ Len(Since(f, time)) <= Len(f)
<1> DEFINE g == Since(f, time)
<1>1. f \in Seq(Nat) /\ Ascending(f) /\ \A i \in 1..Len(f) : f[i] <= last
  BY DEF Timely
<1>2. PICK k \in 0..Len(f) : EndOf(g, f, k)
  BY <1>1, SinceIsEnd
<1> HIDE DEF g
<1>3. g \in Seq(Nat)
  BY <1>2 DEF EndOf
<1>4. Timely(g, last) /\ Len(g) <= Len(f)
  BY <1>1, <1>2, <1>3, EndFacts DEF Timely
<1> QED BY <1>4 DEF g

\* Of two ends of a list, the shorter is an end of the longer.
LEMMA EndOfEnd ==
  ASSUME NEW f \in Seq(Nat), NEW g, NEW h, NEW k, NEW m,
         EndOf(g, f, k), EndOf(h, f, m), k <= m
  PROVE  EndOf(h, g, m - k) /\ Len(h) <= Len(g)
<1>1. /\ Len(f) \in Nat /\ k \in 0..Len(f) /\ m \in 0..Len(f)
      /\ Len(g) = Len(f) - k /\ Len(h) = Len(f) - m
  BY LenProperties DEF EndOf
<1>2. ASSUME NEW i \in 1..Len(h) PROVE h[i] = g[m - k + i]
  <2>1. h[i] = f[m + i]
    BY <1>2 DEF EndOf
  <2>2. m - k + i \in 1..Len(g)
    BY <1>1, <1>2
  <2>3. g[m - k + i] = f[k + (m - k + i)]
    BY <2>2 DEF EndOf
  <2>4. k + (m - k + i) = m + i
    BY <1>1
  <2> QED BY <2>1, <2>3, <2>4
<1> QED BY <1>1, <1>2 DEF EndOf

LEMMA SameEnd ==
  ASSUME NEW f \in Seq(Nat), NEW g, NEW h, NEW k, EndOf(g, f, k), EndOf(h, f, k)
  PROVE  g = h
<1>1. g \in Seq(Nat) /\ h \in Seq(Nat) /\ Len(g) = Len(h)
  BY DEF EndOf
<1>2. \A i \in 1..Len(g) : g[i] = h[i]
  BY <1>1 DEF EndOf
<1> QED BY <1>1, <1>2, SeqEqual

\* Looking back less far is looking at the end of what was looked at.
LEMMA SinceLater ==
  ASSUME NEW f \in Seq(Nat), Ascending(f), NEW s \in Int, NEW t \in Int, s <= t
  PROVE  /\ Since(Since(f, s), t) = Since(f, t)
         /\ Len(Since(f, t)) <= Len(Since(f, s))
<1> DEFINE g == Since(f, s)
           h == Since(f, t)
           e == Since(g, t)
<1>1. Len(f) \in Nat /\ \A i \in 1..Len(f) : f[i] \in Nat
  BY LenProperties
<1>2. PICK k \in 0..Len(f) : EndOf(g, f, k) /\ \A i \in 1..Len(f) : f[i] < s <=> i <= k
  BY SinceIsEnd
<1>3. PICK m \in 0..Len(f) : EndOf(h, f, m) /\ \A i \in 1..Len(f) : f[i] < t <=> i <= m
  BY SinceIsEnd
<1>4. g \in Seq(Nat) /\ Ascending(g)
  BY <1>2, EndFacts DEF EndOf
<1>5. PICK n \in 0..Len(g) : EndOf(e, g, n) /\ \A i \in 1..Len(g) : g[i] < t <=> i <= n
  BY <1>4, SinceIsEnd
<1> HIDE DEF g, h, e
<1>6. k <= m
  <2> SUFFICES ASSUME m < k PROVE FALSE
    BY <1>1
  <2>1. k \in 1..Len(f)
    BY <1>1
  <2>2. f[k] < s /\ ~(f[k] < t)
    BY <1>2, <1>3, <2>1
  <2> QED BY <1>1, <2>1, <2>2
<1>7. EndOf(h, g, m - k) /\ Len(h) <= Len(g)
  BY <1>2, <1>3, <1>6, EndOfEnd
<1>8. Len(g) = Len(f) - k /\ Len(g) \in Nat
  BY <1>1, <1>2 DEF EndOf
<1>9. ASSUME NEW i \in 1..Len(g) PROVE i <= n <=> i <= m - k
  <2>1. k + i \in 1..Len(f) /\ g[i] = f[k + i]
    BY <1>1, <1>2, <1>8 DEF EndOf
  <2>2. i <= n <=> k + i <= m
    BY <1>3, <1>5, <2>1
  <2> QED BY <1>1, <2>2
<1>10. n = m - k
  <2>1. n \in 0..Len(g) /\ m - k \in 0..Len(g)
    BY <1>1, <1>6, <1>8
  <2>2. CASE n < m - k
    <3>1. m - k \in 1..Len(g)
      BY <1>8, <2>1, <2>2
    <3> QED BY <1>9, <2>1, <2>2, <3>1
  <2>3. CASE n > m - k
    <3>1. n \in 1..Len(g)
      BY <1>8, <2>1, <2>3
    <3> QED BY <1>9, <2>1, <2>3, <3>1
  <2> QED BY <1>8, <2>1, <2>2, <2>3
<1>11. e = h
  BY <1>4, <1>5, <1>7, <1>10, SameEnd
<1> QED BY <1>7, <1>11 DEF e, h, g

LEMMA SinceNone ==
  ASSUME NEW f \in Seq(Nat), Ascending(f), NEW time \in Int, \A i \in 1..Len(f) : f[i] < time
  PROVE  Since(f, time) = <<>>
<1>1. Len(f) \in Nat
  BY LenProperties
<1>2. PICK k \in 0..Len(f) :
        /\ \A i \in 1..Len(f) : f[i] < time <=> i <= k
        /\ Since(f, time) \in Seq(Nat) /\ Len(Since(f, time)) = Len(f) - k
  BY SinceFacts
<1>3. k = Len(f)
  <2>1. CASE Len(f) = 0
    BY <1>1, <2>1
  <2>2. CASE Len(f) > 0
    <3>1. Len(f) \in 1..Len(f)
      BY <1>1, <2>2
    <3>2. Len(f) <= k
      BY <1>2, <3>1
    <3> QED BY <1>1, <3>2
  <2> QED BY <1>1, <2>1, <2>2
<1> QED BY <1>1, <1>2, <1>3, EmptySeq

LEMMA SinceEmpty ==
  ASSUME NEW time \in Int
  PROVE  Since(<<>>, time) = <<>> /\ \A last \in Nat : Timely(<<>>, last)
<1>1. <<>> \in Seq(Nat) /\ Len(<<>>) = 0
  BY EmptySeq
<1>2. Ascending(<<>>) /\ \A last \in Nat : Timely(<<>>, last)
  BY <1>1 DEF Ascending, Timely
<1>3. \A i \in 1..Len(<<>>) : <<>>[i] < time
  BY <1>1
<1> QED BY <1>1, <1>2, <1>3, SinceNone

\* A new time is one of the last.
LEMMA SinceAppend ==
  ASSUME NEW f, NEW x \in Nat, Timely(f, x), NEW time \in Int, time <= x
  PROVE  /\ Timely(Append(f, x), x)
         /\ Since(Append(f, x), time) = Append(Since(f, time), x)
<1> DEFINE e == Append(f, x)
           g == Since(f, time)
           h == Since(e, time)
<1>1. /\ f \in Seq(Nat) /\ Ascending(f) /\ Len(f) \in Nat
      /\ \A i \in 1..Len(f) : f[i] <= x /\ f[i] \in Nat
  BY LenProperties DEF Timely
<1>2. /\ e \in Seq(Nat) /\ Len(e) = Len(f) + 1 /\ e[Len(f) + 1] = x
      /\ \A i \in 1..Len(f) : e[i] = f[i]
  BY <1>1, AppendProperties
<1>3. PICK k \in 0..Len(f) : EndOf(g, f, k) /\ \A i \in 1..Len(f) : f[i] < time <=> i <= k
  BY <1>1, SinceIsEnd
<1> HIDE DEF e, g
<1>4. \A i \in 1..Len(e) : i \in 1..Len(f) \/ i = Len(f) + 1
  BY <1>1, <1>2
<1>5. \A i \in 1..Len(e) : e[i] <= x /\ e[i] \in Nat
  BY <1>1, <1>2, <1>4
<1>6. Ascending(e)
  <2> SUFFICES ASSUME NEW i \in 1..Len(e), NEW j \in 1..Len(e), i <= j PROVE e[i] <= e[j]
    BY DEF Ascending
  <2>1. CASE j = Len(f) + 1
    BY <1>2, <1>5, <2>1
  <2>2. CASE j \in 1..Len(f)
    <3>1. i \in 1..Len(f)
      BY <1>1, <2>2
    <3> QED BY <1>1, <1>2, <2>2, <3>1 DEF Ascending
  <2> QED BY <1>4, <2>1, <2>2
<1>7. PICK m \in 0..Len(e) : EndOf(h, e, m) /\ \A i \in 1..Len(e) : e[i] < time <=> i <= m
  BY <1>2, <1>6, SinceIsEnd
<1> HIDE DEF h
<1>8. m = k
  <2>1. ~(Len(f) + 1 <= m)
    <3>1. Len(f) + 1 \in 1..Len(e)
      BY <1>1, <1>2
    <3> QED BY <1>2, <1>7, <3>1
  <2>2. m \in 0..Len(f)
    BY <1>1, <1>2, <1>7, <2>1
  <2>3. ASSUME NEW i \in 1..Len(f) PROVE i <= k <=> i <= m
    <3>1. i \in 1..Len(e)
      BY <1>1, <1>2
    <3> QED BY <1>2, <1>3, <1>7, <3>1
  <2>4. CASE k < m
    <3>1. m \in 1..Len(f)
      BY <1>1, <2>2, <2>4
    <3> QED BY <2>3, <2>4, <3>1
  <2>5. CASE m < k
    <3>1. k \in 1..Len(f)
      BY <1>1, <2>2, <2>5
    <3> QED BY <2>2, <2>3, <2>5, <3>1
  <2> QED BY <1>1, <2>2, <2>4, <2>5
<1> DEFINE a == Append(g, x)
<1>9. /\ g \in Seq(Nat) /\ Len(g) = Len(f) - k /\ Len(g) \in Nat
      /\ \A i \in 1..Len(g) : g[i] = f[k + i]
  BY <1>1, <1>3 DEF EndOf
<1>10. /\ a \in Seq(Nat) /\ Len(a) = Len(g) + 1 /\ a[Len(g) + 1] = x
       /\ \A i \in 1..Len(g) : a[i] = g[i]
  BY <1>9, AppendProperties
<1> HIDE DEF a
<1>11. EndOf(a, e, k)
  <2>1. Len(a) = Len(e) - k /\ k \in 0..Len(e)
    BY <1>1, <1>2, <1>9, <1>10
  <2>2. ASSUME NEW i \in 1..Len(a) PROVE a[i] = e[k + i]
    <3>1. CASE i \in 1..Len(g)
      <4>1. k + i \in 1..Len(f)
        BY <1>1, <1>9, <3>1
      <4> QED BY <1>2, <1>9, <1>10, <3>1, <4>1
    <3>2. CASE i = Len(g) + 1
      <4>1. k + i = Len(f) + 1
        BY <1>1, <1>9, <3>2
      <4> QED BY <1>2, <1>10, <3>2, <4>1
    <3> QED BY <1>9, <1>10, <3>1, <3>2
  <2> QED BY <1>10, <2>1, <2>2 DEF EndOf
<1>12. h = a
  BY <1>2, <1>7, <1>8, <1>11, SameEnd
<1> QED BY <1>2, <1>5, <1>6, <1>12 DEF Timely, a, h, g, e

-----------------------------------------------------------------------------
(* The throttle.  A request that passed it may still fail: its key is      *)
(* pending.                                                                *)

Tries(request, key) ==
  request # Null /\ request.kind \in {"login", "elevation"} /\ request.key = key
Pending(all, key) == {c \in Client : Tries(all[c], key)}
PendingKeys(all) == {key \in Key : Pending(all, key) # {}}

Failed(key) == Get(failures, key, <<>>)
Tried(key) == Get(tries, key, <<>>)

Logs(table, time) ==
  /\ DOMAIN table \subseteq Key
  /\ table = [key \in DOMAIN table |-> table[key]]
  /\ \A key \in DOMAIN table : Timely(table[key], time)

\* Of the wrong passwords that count, the throttle has forgotten none.
Remembers == \A key \in Key : Counting(Tried(key), now) = Counting(Failed(key), now)

\* Those, and the ones still to come, are bounded.
FailuresToCome ==
  \A key \in Key : Len(Counting(Failed(key), now)) + Cardinality(Pending(requests, key))
                     <= MaxFailures - 1 + Cardinality(Client)

\* Every name beyond the limit of the memory is pending.
MemoryLimited ==
  IsFiniteSet(DOMAIN failures) /\ Cardinality(DOMAIN failures \ PendingKeys(requests)) <= MaxKeys

\* The inductive invariant of the throttle.
ThrottleInv ==
  /\ now \in Nat /\ requests \in [Client -> Request \cup {Null}]
  /\ Logs(failures, now) /\ Logs(tries, now)
  /\ Remembers /\ FailuresToCome /\ MemoryLimited

Span == Min({Window, Lockout})

LEMMA SpanFacts == Span \in Nat /\ Span <= Window /\ Span <= Lockout
<1>1. Span \in {Window, Lockout} /\ \A y \in {Window, Lockout} : Span <= y
  BY AccessAssumption, MinOfNaturals DEF Span
<1> QED BY <1>1, AccessAssumption

LEMMA LogFacts ==
  ASSUME NEW time \in Nat, NEW table, Logs(table, time), NEW key
  PROVE  Timely(Get(table, key, <<>>), time)
BY SinceEmpty DEF Logs, Get

LEMMA CountingLen ==
  ASSUME NEW time \in Nat, NEW f, Timely(f, time)
  PROVE  /\ Counting(f, time) \in Seq(Nat)
         /\ Len(Counting(f, time)) \in Nat /\ Len(Counting(f, time)) <= Len(f)
<1>1. Timely(Counting(f, time), time) /\ Len(Counting(f, time)) <= Len(f)
  BY SinceTimely, SpanFacts DEF Counting, Span
<1> QED BY <1>1, LenProperties DEF Timely

\* What Recent leaves out counts no more.
LEMMA RecentCounts ==
  ASSUME now \in Nat, NEW f, Timely(f, now)
  PROVE  /\ Timely(Recent(f), now) /\ Len(Recent(f)) <= Len(f)
         /\ Counting(Recent(f), now) = Counting(f, now)
<1>1. now - Window \in Int /\ now - Span + 1 \in Int /\ now - Window <= now - Span + 1
  BY SpanFacts, AccessAssumption
<1>2. f \in Seq(Nat) /\ Ascending(f)
  BY DEF Timely
<1>3. Timely(Since(f, now - Window), now) /\ Len(Since(f, now - Window)) <= Len(f)
  BY <1>1, SinceTimely
<1>4. Since(Since(f, now - Window), now - Span + 1) = Since(f, now - Span + 1)
  BY <1>1, <1>2, SinceLater
<1> QED BY <1>3, <1>4 DEF Recent, Counting, Span

\* One more wrong password counts as one more, in both logs.
LEMMA AppendCounts ==
  ASSUME now \in Nat, NEW f, Timely(f, now), NEW g, Timely(g, now),
         Counting(f, now) = Counting(g, now)
  PROVE  /\ Timely(Append(f, now), now) /\ Timely(Append(g, now), now)
         /\ Counting(Append(f, now), now) = Counting(Append(g, now), now)
         /\ Len(Counting(Append(f, now), now)) <= Len(Counting(f, now)) + 1
<1> DEFINE t == now - Span + 1
           ff == Append(f, now)
           gg == Append(g, now)
<1>1. t \in Int /\ (t <= now <=> Span # 0)
  BY SpanFacts
<1>2. Timely(ff, now) /\ Timely(gg, now)
  <2>1. now \in Int /\ now <= now
    OBVIOUS
  <2> QED BY <2>1, SinceAppend
<1>3. Since(f, t) = Since(g, t)
  BY DEF Counting, Span
<1>4. Since(f, t) \in Seq(Nat) /\ Len(Since(f, t)) \in Nat
  BY CountingLen DEF Counting, Span
<1>5. CASE Span # 0
  <2>1. Since(ff, t) = Append(Since(f, t), now) /\ Since(gg, t) = Append(Since(g, t), now)
    BY <1>1, <1>5, SinceAppend
  <2>2. Len(Append(Since(f, t), now)) = Len(Since(f, t)) + 1
    BY <1>4, AppendProperties
  <2> HIDE DEF ff, gg, t
  <2>3. Since(ff, t) = Since(gg, t) /\ Len(Since(ff, t)) <= Len(Since(f, t)) + 1
    BY <1>3, <1>4, <2>1, <2>2
  <2> QED BY <1>2, <2>3 DEF Counting, Span, ff, gg, t
<1>6. CASE Span = 0
  <2> HIDE DEF ff, gg
  <2>1. ASSUME NEW h, Timely(h, now) PROVE Since(h, t) = <<>>
    <3>1. \A i \in 1..Len(h) : h[i] < t
      <4>1. \A i \in 1..Len(h) : h[i] \in Nat /\ h[i] <= now
        BY <2>1, ElementOfSeq DEF Timely
      <4> QED BY <1>6, <4>1
    <3> QED BY <1>1, <2>1, <3>1, SinceNone DEF Timely
  <2>2. Since(ff, t) = <<>> /\ Since(gg, t) = <<>> /\ Len(<<>>) = 0
    BY <1>2, <2>1, EmptySeq
  <2> HIDE DEF t
  <2>3. Since(ff, t) = Since(gg, t) /\ Len(Since(ff, t)) <= Len(Since(f, t)) + 1
    BY <1>4, <2>2
  <2> QED BY <1>2, <2>3 DEF Counting, Span, ff, gg, t
<1> QED BY <1>5, <1>6

\* A list that is forgotten after the lockout counts no more.
LEMMA KeptCounts ==
  ASSUME now \in Nat, NEW f, Timely(f, now)
  PROVE  /\ Timely(Kept(f), now) /\ Counting(Kept(f), now) = Counting(f, now)
         /\ ~Refused(f) => Len(Kept(f)) <= MaxFailures - 1
<1>1. f \in Seq(Nat) /\ Len(f) \in Nat /\ Ascending(f) /\ \A i \in 1..Len(f) : f[i] \in Nat
  BY LenProperties DEF Timely
<1>2. CASE Refused(f) \/ Len(f) < MaxFailures
  <2>1. Kept(f) = f
    BY <1>2 DEF Kept
  <2>2. ~Refused(f) => Len(f) <= MaxFailures - 1
    BY <1>1, <1>2, AccessAssumption
  <2> QED BY <2>1, <2>2
<1>3. CASE ~(Refused(f) \/ Len(f) < MaxFailures)
  <2> DEFINE t == now - Span + 1
  <2>1. Kept(f) = <<>> /\ Len(<<>>) = 0
    BY <1>3, EmptySeq DEF Kept
  <2>2. Len(f) \in 1..Len(f) /\ f[Len(f)] + Lockout <= now
    BY <1>1, <1>3, AccessAssumption DEF Refused, Last
  <2>3. ASSUME NEW i \in 1..Len(f) PROVE f[i] < t
    <3>1. f[i] <= f[Len(f)]
      BY <1>1, <2>2 DEF Ascending
    <3> QED BY <1>1, <2>2, <3>1, SpanFacts, AccessAssumption
  <2>4. t \in Int
    BY SpanFacts
  <2>5. Since(f, t) = <<>> /\ Since(<<>>, t) = <<>> /\ Timely(<<>>, now)
    BY <1>1, <2>3, <2>4, SinceNone, SinceEmpty
  <2> QED BY <2>1, <2>5, AccessAssumption DEF Counting, Span
<1> QED BY <1>2, <1>3

LEMMA CountingIs ==
  ASSUME NEW f, NEW time
  PROVE  Counting(f, time) = Since(f, time - Span + 1)
BY DEF Counting, Span

\* Time passes.
LEMMA CountingTwice ==
  ASSUME NEW time \in Nat, NEW next \in Nat, next = time + 1, NEW f, Timely(f, time)
  PROVE  Counting(Counting(f, time), next) = Counting(f, next)
<1> DEFINE t == time - Span + 1
           u == next - Span + 1
<1>1. t \in Int /\ u \in Int /\ t <= u
  BY SpanFacts
<1>2. f \in Seq(Nat) /\ Ascending(f)
  BY DEF Timely
<1>3. Counting(f, time) = Since(f, t) /\ \A g : Counting(g, next) = Since(g, u)
  BY CountingIs
<1> HIDE DEF t, u
<1>4. Since(Since(f, t), u) = Since(f, u)
  BY <1>1, <1>2, SinceLater
<1> QED BY <1>3, <1>4

LEMMA LaterCounts ==
  ASSUME NEW time \in Nat, NEW next \in Nat, next = time + 1, NEW f, Timely(f, time)
  PROVE  /\ Timely(f, next) /\ Timely(Counting(f, next), next)
         /\ Counting(Counting(f, next), next) = Counting(f, next)
         /\ Len(Counting(f, next)) <= Len(Counting(f, time))
<1> DEFINE t == time - Span + 1
           u == next - Span + 1
<1>1. t \in Int /\ u \in Int /\ t <= u /\ u <= u
  BY SpanFacts
<1>2. f \in Seq(Nat) /\ Ascending(f) /\ \A i \in 1..Len(f) : f[i] \in Nat /\ f[i] <= time
  BY ElementOfSeq DEF Timely
<1>3. Timely(f, next)
  BY <1>2 DEF Timely
<1>4. /\ Counting(f, time) = Since(f, t)
      /\ \A g : Counting(g, next) = Since(g, u)
  BY CountingIs
<1> HIDE DEF t, u
<1>5. Timely(Since(f, u), next)
  BY <1>1, <1>3, SinceTimely
<1>6. /\ Len(Since(f, u)) <= Len(Since(f, t)) /\ Since(Since(f, u), u) = Since(f, u)
  BY <1>1, <1>2, SinceLater
<1> QED BY <1>3, <1>4, <1>5, <1>6

(* Tables.                                                                 *)

LEMMA PutFacts ==
  ASSUME NEW table, NEW k, NEW x
  PROVE  /\ DOMAIN Put(table, k, x) = DOMAIN table \cup {k}
         /\ Put(table, k, x)[k] = x
         /\ \A j \in DOMAIN table : j # k => Put(table, k, x)[j] = table[j]
BY DEF Put

LEMMA GetPut ==
  ASSUME NEW table, NEW k, NEW x, NEW j, NEW d
  PROVE  Get(Put(table, k, x), j, d) = IF j = k THEN x ELSE Get(table, j, d)
BY DEF Put, Get

LEMMA WithoutFacts ==
  ASSUME NEW table, NEW S
  PROVE  /\ DOMAIN Without(table, S) = DOMAIN table \ S
         /\ \A j \in DOMAIN table \ S : Without(table, S)[j] = table[j]
BY DEF Without, Restrict

LEMMA GetWithout ==
  ASSUME NEW table, NEW S, NEW j, NEW d
  PROVE  Get(Without(table, S), j, d) = IF j \in S THEN d ELSE Get(table, j, d)
BY DEF Without, Get, Restrict

LEMMA LogsPut ==
  ASSUME NEW time, NEW table, Logs(table, time), NEW k \in Key, NEW x, Timely(x, time)
  PROVE  Logs(Put(table, k, x), time)
<1> DEFINE e == Put(table, k, x)
<1>1. e = [j \in DOMAIN e |-> e[j]]
  BY DEF Put
<1>2. /\ DOMAIN e = DOMAIN table \cup {k} /\ e[k] = x
      /\ \A j \in DOMAIN table : j # k => e[j] = table[j]
  BY DEF Put
<1> HIDE DEF e
<1>3. DOMAIN table \subseteq Key /\ \A j \in DOMAIN table : Timely(table[j], time)
  BY DEF Logs
<1>4. ASSUME NEW j \in DOMAIN e PROVE Timely(e[j], time)
  BY <1>2, <1>3
<1>5. DOMAIN e \subseteq Key
  BY <1>2, <1>3
<1> QED BY <1>1, <1>4, <1>5 DEF Logs, e

LEMMA LogsWithout ==
  ASSUME NEW time, NEW table, Logs(table, time), NEW S
  PROVE  Logs(Without(table, S), time)
<1> DEFINE e == Without(table, S)
<1>1. e = [j \in DOMAIN e |-> e[j]]
  BY DEF Without, Restrict
<1>2. DOMAIN e = (DOMAIN table) \ S /\ \A j \in (DOMAIN table) \ S : e[j] = table[j]
  BY WithoutFacts
<1> HIDE DEF e
<1>3. DOMAIN e \subseteq Key /\ \A j \in DOMAIN e : Timely(e[j], time)
  BY <1>2 DEF Logs
<1> QED BY <1>1, <1>3 DEF Logs, e

LEMMA EvictedFacts ==
  ASSUME NEW F, IsFiniteSet(DOMAIN F), NEW gone \in Evicted(F)
  PROVE  Cardinality((DOMAIN F) \ gone) <= MaxKeys
<1> DEFINE rest == (DOMAIN F) \ Stale(F)
           excess == Cardinality(rest) - MaxKeys
<1>1. MaxKeys \in Nat
  BY AccessAssumption
<1>2. IsFiniteSet(rest) /\ Cardinality(rest) \in Nat
  BY FS_Subset, FS_CardinalityType
<1>3. CASE Cardinality(DOMAIN F) <= MaxKeys
  <2>1. gone = {}
    BY <1>3 DEF Evicted
  <2>2. (DOMAIN F) \ gone = DOMAIN F
    BY <2>1
  <2> QED BY <1>3, <2>2
<1>4. CASE ~(Cardinality(DOMAIN F) <= MaxKeys) /\ excess <= 0
  <2>1. gone = Stale(F)
    BY <1>4 DEF Evicted
  <2> QED BY <1>1, <1>2, <1>4, <2>1
<1>5. CASE ~(Cardinality(DOMAIN F) <= MaxKeys) /\ ~(excess <= 0)
  <2>1. PICK S \in kSubset(excess, rest) : gone = Stale(F) \cup S
    BY <1>5 DEF Evicted
  <2>2. S \subseteq rest /\ Cardinality(S) = excess
    BY <2>1 DEF kSubset
  <2>3. (DOMAIN F) \ gone = rest \ S
    BY <2>1, <2>2
  <2> DEFINE n == Cardinality(rest)
  <2> HIDE DEF rest
  <2>4. IsFiniteSet(S) /\ rest \cap S = S
    BY <1>2, <2>2, FS_Subset
  <2>5. Cardinality(rest \ S) = Cardinality(rest) - Cardinality(rest \cap S)
    BY <1>2, FS_Difference
  <2>6. Cardinality((DOMAIN F) \ gone) = n - Cardinality(S) /\ Cardinality(S) = n - MaxKeys
    BY <2>2, <2>3, <2>4, <2>5
  <2>7. n \in Nat
    BY <1>2
  <2> HIDE DEF n
  <2>8. n - (n - MaxKeys) = MaxKeys
    BY <1>1, <2>7
  <2>9. Cardinality((DOMAIN F) \ gone) = MaxKeys
    BY <2>6, <2>8
  <2> QED BY <1>1, <2>9
<1> QED BY <1>3, <1>4, <1>5

LEMMA PendingFacts ==
  ASSUME NEW all, NEW key
  PROVE  /\ Pending(all, key) \subseteq Client /\ IsFiniteSet(Pending(all, key))
         /\ Cardinality(Pending(all, key)) \in 0..Cardinality(Client)
<1>1. Pending(all, key) \subseteq Client
  BY DEF Pending
<1> QED BY <1>1, AccessAssumption, FS_Subset, FS_CardinalityType

\* What became of one request; no other has changed.
Moves(all, next, c, request) ==
  next[c] = request /\ \A d \in Client \ {c} : next[d] = all[d]

LEMMA PendingLess ==
  ASSUME NEW all, NEW next, NEW c \in Client, NEW request, Moves(all, next, c, request),
         NEW key, ~Tries(request, key)
  PROVE  Pending(next, key) = Pending(all, key) \ {c}
BY DEF Pending, Moves

LEMMA PendingMore ==
  ASSUME NEW all, NEW next, NEW c \in Client, NEW request, Moves(all, next, c, request),
         NEW key, Tries(request, key)
  PROVE  Pending(next, key) = Pending(all, key) \cup {c}
BY DEF Pending, Moves

\* A step that looks at one key, and may drop others from both logs.
LEMMA ThrottleStep ==
  ASSUME ThrottleInv, now' = now, requests' \in [Client -> Request \cup {Null}],
         Logs(failures', now), Logs(tries', now),
         NEW k \in Key,
         \A key \in Key : key # k =>
           /\ Pending(requests', key) \subseteq Pending(requests, key)
           /\ \/ Get(failures', key, <<>>) = Failed(key) /\ Get(tries', key, <<>>) = Tried(key)
              \/ Get(failures', key, <<>>) = <<>> /\ Get(tries', key, <<>>) = <<>>,
         Counting(Get(tries', k, <<>>), now) = Counting(Get(failures', k, <<>>), now),
         Len(Counting(Get(failures', k, <<>>), now)) + Cardinality(Pending(requests', k))
           <= MaxFailures - 1 + Cardinality(Client),
         MemoryLimited'
  PROVE  ThrottleInv'
<1>1. MaxFailures \in Nat \ {0} /\ Cardinality(Client) \in Nat
  BY AccessAssumption, FS_CardinalityType
<1>2. \A key \in Key : Counting(Get(tries', key, <<>>), now)
                         = Counting(Get(failures', key, <<>>), now)
  BY DEF ThrottleInv, Remembers
<1>3. ASSUME NEW key \in Key
      PROVE  Len(Counting(Get(failures', key, <<>>), now)) + Cardinality(Pending(requests', key))
               <= MaxFailures - 1 + Cardinality(Client)
  <2>1. CASE key = k
    BY <2>1
  <2> DEFINE p == Cardinality(Pending(requests, key))
             q == Cardinality(Pending(requests', key))
  <2>2. p \in 0..Cardinality(Client)
    BY PendingFacts
  <2>3. key # k => q \in Nat /\ q <= p
    BY PendingFacts, FS_Subset, FS_CardinalityType
  <2>4. now \in Nat /\ Timely(Failed(key), now)
    BY LogFacts DEF ThrottleInv, Failed
  <2>5. Len(Counting(Failed(key), now)) \in Nat
    BY <2>4, CountingLen
  <2>6. CASE key # k /\ Get(failures', key, <<>>) = Failed(key)
    <3> HIDE DEF p, q
    <3>1. Len(Counting(Failed(key), now)) + p <= MaxFailures - 1 + Cardinality(Client)
      BY DEF ThrottleInv, FailuresToCome, p
    <3>2. Len(Counting(Failed(key), now)) + q <= MaxFailures - 1 + Cardinality(Client)
      BY <1>1, <2>2, <2>3, <2>5, <2>6, <3>1
    <3> QED BY <2>6, <3>2 DEF q
  <2>7. CASE key # k /\ Get(failures', key, <<>>) = <<>>
    <3>1. Len(Counting(<<>>, now)) = 0
      <4>1. now - Span + 1 \in Int
        BY <2>4, SpanFacts
      <4> QED BY <4>1, SinceEmpty, EmptySeq, CountingIs
    <3> HIDE DEF p, q
    <3>2. 0 + q <= MaxFailures - 1 + Cardinality(Client)
      BY <1>1, <2>2, <2>3, <2>7
    <3> QED BY <2>7, <3>1, <3>2 DEF q
  <2> QED BY <2>1, <2>6, <2>7
<1>4. Remembers' /\ FailuresToCome'
  BY <1>2, <1>3 DEF Remembers, FailuresToCome, Failed, Tried
<1> QED BY <1>4 DEF ThrottleInv

LEMMA FewerKeys ==
  ASSUME NEW S, IsFiniteSet(S), Cardinality(S) <= MaxKeys, NEW T \in SUBSET S
  PROVE  IsFiniteSet(T) /\ Cardinality(T) <= MaxKeys
<1>1. Cardinality(T) <= Cardinality(S) /\ IsFiniteSet(T)
  BY FS_Subset
<1>2. Cardinality(S) \in Nat /\ Cardinality(T) \in Nat /\ MaxKeys \in Nat
  BY <1>1, FS_CardinalityType, AccessAssumption
<1> QED BY <1>1, <1>2

\* A request that may fail has a key.
LEMMA KeyOfRequest ==
  ASSUME NEW request \in Request, request.kind \in {"login", "elevation"}
  PROVE  request.key \in Key
BY DEF Request, Key, Purpose

\* Steps that have nothing to do with the throttle.
LEMMA QuietKeeps ==
  ASSUME ThrottleInv, now' = now, UNCHANGED throttle,
         NEW c \in Client, \A key : ~Tries(requests[c], key),
         NEW request \in Request \cup {Null}, \A key : ~Tries(request, key),
         requests' = [requests EXCEPT ![c] = request]
  PROVE  ThrottleInv'
<1>1. requests \in [Client -> Request \cup {Null}]
  BY DEF ThrottleInv
<1>2. ASSUME NEW key PROVE Pending(requests', key) = Pending(requests, key)
  <2>1. c \notin Pending(requests, key)
    BY DEF Pending
  <2>2. Moves(requests, requests', c, request)
    BY <1>1 DEF Moves
  <2>3. Pending(requests', key) = Pending(requests, key) \ {c}
    BY <2>2, PendingLess
  <2> QED BY <2>1, <2>3
<1>3. requests' \in [Client -> Request \cup {Null}]
  BY <1>1
<1>4. Remembers' /\ FailuresToCome'
  BY <1>2 DEF ThrottleInv, Remembers, FailuresToCome, Failed, Tried, throttle
<1>5. MemoryLimited'
  BY <1>2 DEF ThrottleInv, MemoryLimited, PendingKeys, throttle
<1> QED BY <1>3, <1>4, <1>5 DEF ThrottleInv, throttle

LEMMA RestKeeps ==
  ASSUME ThrottleInv, UNCHANGED <<now, throttle, requests>>
  PROVE  ThrottleInv'
BY DEF ThrottleInv, throttle, Remembers, FailuresToCome, MemoryLimited, PendingKeys, Pending,
       Failed, Tried

\* The right password.
LEMMA ClearKeeps ==
  ASSUME ThrottleInv, now' = now, NEW c \in Client, ~Idle(c),
         requests[c].kind \in {"login", "elevation"}, Clear(requests[c].key),
         NEW request \in Request \cup {Null}, \A key : ~Tries(request, key),
         requests' = [requests EXCEPT ![c] = request]
  PROVE  ThrottleInv'
<1> DEFINE k == requests[c].key
<1>1. requests \in [Client -> Request \cup {Null}]
  BY DEF ThrottleInv
<1>2. requests[c] \in Request /\ k \in Key
  BY <1>1, KeyOfRequest DEF Idle
<1>3. failures' = Without(failures, {k}) /\ tries' = Without(tries, {k})
  BY DEF Clear
<1> HIDE DEF k
<1>4. \A key : Pending(requests', key) = Pending(requests, key) \ {c}
  <2>1. Moves(requests, requests', c, request)
    BY <1>1 DEF Moves
  <2> QED BY <2>1, PendingLess
<1>5. requests' \in [Client -> Request \cup {Null}]
  BY <1>1
<1>6. Logs(failures', now) /\ Logs(tries', now)
  BY <1>3, LogsWithout DEF ThrottleInv
<1>7. \A key : /\ Get(failures', key, <<>>) = IF key = k THEN <<>> ELSE Failed(key)
               /\ Get(tries', key, <<>>) = IF key = k THEN <<>> ELSE Tried(key)
  BY <1>3, GetWithout DEF Failed, Tried
<1>8. Len(Counting(<<>>, now)) + Cardinality(Pending(requests', k))
        <= MaxFailures - 1 + Cardinality(Client)
  <2>1. now \in Nat /\ now - Span + 1 \in Int
    BY SpanFacts DEF ThrottleInv
  <2>2. Counting(<<>>, now) = <<>>
    BY <2>1, SinceEmpty, CountingIs
  <2>3. Len(Counting(<<>>, now)) = 0
    BY <2>2, EmptySeq
  <2> DEFINE p == Cardinality(Pending(requests, k))
             q == Cardinality(Pending(requests', k))
  <2>4. p \in 0..Cardinality(Client) /\ Cardinality(Client) \in Nat
    BY PendingFacts, AccessAssumption, FS_CardinalityType
  <2>5. q \in Nat /\ q <= p
    BY <1>4, PendingFacts, FS_Subset, FS_CardinalityType
  <2> HIDE DEF p, q
  <2>6. 0 + q <= MaxFailures - 1 + Cardinality(Client)
    BY <2>4, <2>5, AccessAssumption
  <2> QED BY <2>3, <2>6 DEF q
<1>9. MemoryLimited'
  <2>1. DOMAIN failures' = (DOMAIN failures) \ {k}
    BY <1>3, WithoutFacts
  <2>2. (DOMAIN failures') \ PendingKeys(requests') \subseteq (DOMAIN failures) \ PendingKeys(requests)
    <3> SUFFICES ASSUME NEW key \in (DOMAIN failures) \ {k}, key \in PendingKeys(requests)
                 PROVE  key \in PendingKeys(requests')
      BY <2>1
    <3>1. key \in Key /\ \E d \in Client : d \in Pending(requests, key)
      BY DEF PendingKeys, Pending
    <3>2. c \notin Pending(requests, key)
      BY DEF Pending, Tries, k
    <3>3. Pending(requests', key) # {}
      BY <1>4, <3>1, <3>2
    <3> QED BY <3>1, <3>3 DEF PendingKeys
  <2>3. IsFiniteSet(DOMAIN failures) /\ IsFiniteSet((DOMAIN failures) \ PendingKeys(requests))
        /\ Cardinality((DOMAIN failures) \ PendingKeys(requests)) <= MaxKeys
    BY FS_Subset DEF ThrottleInv, MemoryLimited
  <2>4. Cardinality((DOMAIN failures') \ PendingKeys(requests')) <= MaxKeys
    BY <2>2, <2>3, FewerKeys
  <2>5. IsFiniteSet(DOMAIN failures')
    BY <2>1, <2>3, FS_Subset
  <2> QED BY <2>4, <2>5 DEF MemoryLimited
<1> QED BY <1>2, <1>4, <1>5, <1>6, <1>7, <1>8, <1>9, ThrottleStep

\* The wrong one.
LEMMA FailKeeps ==
  ASSUME ThrottleInv, NEW c \in Client, Fail(c)
  PROVE  ThrottleInv'
<1> DEFINE k == requests[c].key
<1>1. requests \in [Client -> Request \cup {Null}] /\ now \in Nat /\ now' = now
  BY DEF ThrottleInv, Fail
<1>2. requests[c] \in Request /\ k \in Key /\ Tries(requests[c], k)
  BY <1>1, KeyOfRequest DEF Fail, Idle, Tries
<1>3. requests' = [requests EXCEPT ![c] = Null] /\ Record(k)
  BY DEF Fail, Ends
<1> DEFINE F == Counted(failures, k)
           f == Append(Recent(Failed(k)), now)
           g == Append(Tried(k), now)
           T == Put(tries, k, g)
<1>4. PICK gone \in Evicted(F) : failures' = Without(F, gone) /\ tries' = Without(T, gone)
  BY <1>3 DEF Record, Tried
<1>5. F = Put(failures, k, f)
  BY DEF Counted, Failed
<1>6. /\ Timely(f, now) /\ Timely(g, now) /\ Counting(f, now) = Counting(g, now)
      /\ Len(Counting(f, now)) <= Len(Counting(Failed(k), now)) + 1
  <2>1. Timely(Failed(k), now) /\ Timely(Tried(k), now)
    BY <1>1, LogFacts DEF ThrottleInv, Failed, Tried
  <2>2. /\ Timely(Recent(Failed(k)), now)
        /\ Counting(Recent(Failed(k)), now) = Counting(Failed(k), now)
    BY <1>1, <2>1, RecentCounts
  <2>3. Counting(Recent(Failed(k)), now) = Counting(Tried(k), now)
    BY <1>2, <2>2 DEF ThrottleInv, Remembers
  <2>4. /\ Timely(f, now) /\ Timely(g, now) /\ Counting(f, now) = Counting(g, now)
        /\ Len(Counting(f, now)) <= Len(Counting(Recent(Failed(k)), now)) + 1
    BY <1>1, <2>1, <2>2, <2>3, AppendCounts
  <2> QED BY <2>2, <2>4
<1> HIDE DEF k, F, T, f, g
<1>7. Logs(F, now) /\ Logs(T, now)
  BY <1>2, <1>5, <1>6, LogsPut DEF ThrottleInv, T
<1>8. Logs(failures', now) /\ Logs(tries', now)
  BY <1>4, <1>7, LogsWithout
<1>9. requests' \in [Client -> Request \cup {Null}]
  BY <1>1, <1>3
<1>10. \A key : Pending(requests', key) = Pending(requests, key) \ {c}
  <2>1. \A key : ~Tries(Null, key)
    BY DEF Tries
  <2>2. Moves(requests, requests', c, Null)
    BY <1>1, <1>3 DEF Moves
  <2> QED BY <2>1, <2>2, PendingLess
<1>11. \A key : /\ Get(F, key, <<>>) = IF key = k THEN f ELSE Failed(key)
                /\ Get(T, key, <<>>) = IF key = k THEN g ELSE Tried(key)
  BY <1>5, GetPut DEF T, Failed, Tried
<1>12. \A key : /\ Get(failures', key, <<>>) = IF key \in gone THEN <<>> ELSE Get(F, key, <<>>)
                /\ Get(tries', key, <<>>) = IF key \in gone THEN <<>> ELSE Get(T, key, <<>>)
  BY <1>4, GetWithout
<1>13. Counting(Get(tries', k, <<>>), now) = Counting(Get(failures', k, <<>>), now)
  BY <1>6, <1>11, <1>12
<1>14. Len(Counting(Get(failures', k, <<>>), now)) + Cardinality(Pending(requests', k))
         <= MaxFailures - 1 + Cardinality(Client)
  <2> DEFINE p == Cardinality(Pending(requests, k))
             q == Cardinality(Pending(requests', k))
             old == Len(Counting(Failed(k), now))
             new == Len(Counting(Get(failures', k, <<>>), now))
  <2>1. p \in 0..Cardinality(Client) /\ Cardinality(Client) \in Nat
    BY PendingFacts, AccessAssumption, FS_CardinalityType
  <2>2. q = p - 1
    <3>1. c \in Pending(requests, k)
      BY <1>2 DEF Pending, k
    <3> QED BY <1>10, <3>1, PendingFacts, FS_RemoveElement
  <2>3. old + p <= MaxFailures - 1 + Cardinality(Client) /\ old \in Nat
    <3>1. Timely(Failed(k), now)
      BY <1>1, LogFacts DEF ThrottleInv, Failed
    <3> QED BY <1>1, <1>2, <3>1, CountingLen DEF ThrottleInv, FailuresToCome
  <2>4. new \in Nat /\ new <= old + 1
    <3>1. CASE k \in gone
      <4>1. now - Span + 1 \in Int
        BY <1>1, SpanFacts
      <4>2. Counting(<<>>, now) = <<>>
        BY <4>1, SinceEmpty, CountingIs
      <4>3. new = 0
        BY <1>12, <3>1, <4>2, EmptySeq
      <4> HIDE DEF new, old
      <4> QED BY <2>3, <4>3
    <3>2. CASE k \notin gone
      <4>1. new = Len(Counting(f, now))
        BY <1>11, <1>12, <3>2
      <4> QED BY <1>1, <1>6, <4>1, CountingLen
    <3> QED BY <3>1, <3>2
  <2> HIDE DEF p, q, old, new
  <2>5. new + q <= MaxFailures - 1 + Cardinality(Client)
    BY <2>1, <2>2, <2>3, <2>4, AccessAssumption
  <2> QED BY <2>5 DEF new, q
<1>15. MemoryLimited'
  <2>1. IsFiniteSet(DOMAIN F)
    <3>1. DOMAIN F = DOMAIN failures \cup {k}
      BY <1>5, PutFacts
    <3>2. IsFiniteSet(DOMAIN failures)
      BY DEF ThrottleInv, MemoryLimited
    <3> QED BY <3>1, <3>2, FS_AddElement
  <2>2. DOMAIN failures' = (DOMAIN F) \ gone
    BY <1>4, WithoutFacts
  <2>3. IsFiniteSet(DOMAIN failures') /\ Cardinality(DOMAIN failures') <= MaxKeys
    BY <1>4, <2>1, <2>2, FS_Subset, EvictedFacts
  <2>4. Cardinality((DOMAIN failures') \ PendingKeys(requests')) <= MaxKeys
    BY <2>3, FewerKeys
  <2> QED BY <2>3, <2>4 DEF MemoryLimited
<1>16. \A key \in Key : key # k =>
         /\ Pending(requests', key) \subseteq Pending(requests, key)
         /\ \/ Get(failures', key, <<>>) = Failed(key) /\ Get(tries', key, <<>>) = Tried(key)
            \/ Get(failures', key, <<>>) = <<>> /\ Get(tries', key, <<>>) = <<>>
  BY <1>10, <1>11, <1>12
<1> QED BY <1>1, <1>2, <1>8, <1>9, <1>13, <1>14, <1>15, <1>16, ThrottleStep

\* The check before a password is verified.
LEMMA ThrottledKeeps ==
  ASSUME ThrottleInv, NEW c \in Client, NEW k \in Key, NEW request \in Request,
         Tries(request, k), Throttled(c, k, request)
  PROVE  ThrottleInv'
<1> DEFINE f == Recent(Failed(k))
           next == IF Refused(f) THEN Null ELSE request
<1>1. requests \in [Client -> Request \cup {Null}] /\ now \in Nat /\ now' = now
  BY DEF ThrottleInv, Throttled
<1>2. /\ requests[c] = Null /\ failures' = Put(failures, k, Kept(f)) /\ tries' = tries
      /\ requests' = [requests EXCEPT ![c] = next]
  BY DEF Throttled, Idle, Failed
<1>3. /\ Timely(f, now) /\ Timely(Kept(f), now)
      /\ Counting(Kept(f), now) = Counting(Failed(k), now)
      /\ ~Refused(f) => Len(Kept(f)) <= MaxFailures - 1
  <2>1. Timely(Failed(k), now)
    BY <1>1, LogFacts DEF ThrottleInv, Failed
  <2>2. Timely(f, now) /\ Counting(f, now) = Counting(Failed(k), now)
    BY <1>1, <2>1, RecentCounts
  <2> HIDE DEF f
  <2> QED BY <1>1, <2>2, KeptCounts
<1>4. Refused(f) => k \in DOMAIN failures
  <2> SUFFICES ASSUME k \notin DOMAIN failures PROVE ~Refused(f)
    OBVIOUS
  <2>1. Failed(k) = <<>>
    BY DEF Failed, Get
  <2>2. now - Window \in Int
    BY <1>1, AccessAssumption
  <2>3. f = <<>>
    BY <2>1, <2>2, SinceEmpty DEF Recent
  <2>4. Len(f) = 0
    BY <2>3, EmptySeq
  <2> QED BY <2>4, AccessAssumption DEF Refused
<1> HIDE DEF f
<1>5. Moves(requests, requests', c, next) /\ requests' \in [Client -> Request \cup {Null}]
  BY <1>1, <1>2 DEF Moves
<1> HIDE DEF next
<1>6. Logs(failures', now) /\ Logs(tries', now)
  BY <1>2, <1>3, LogsPut DEF ThrottleInv
<1>7. ASSUME NEW key \in Key, key # k
      PROVE  /\ Pending(requests', key) \subseteq Pending(requests, key)
             /\ Get(failures', key, <<>>) = Failed(key) /\ Get(tries', key, <<>>) = Tried(key)
  <2>1. ~Tries(next, key)
    BY <1>7 DEF next, Tries
  <2>2. Pending(requests', key) = Pending(requests, key) \ {c}
    BY <1>5, <2>1, PendingLess
  <2>3. Get(failures', key, <<>>) = Failed(key)
    BY <1>2, <1>7, GetPut DEF Failed
  <2>4. Get(tries', key, <<>>) = Tried(key)
    BY <1>2 DEF Tried
  <2> QED BY <2>2, <2>3, <2>4
<1>8. Get(failures', k, <<>>) = Kept(f) /\ Get(tries', k, <<>>) = Tried(k)
  BY <1>2, GetPut DEF Tried
<1>9. Counting(Tried(k), now) = Counting(Kept(f), now)
  BY <1>3 DEF ThrottleInv, Remembers
<1>10. c \notin Pending(requests, k)
  BY <1>2 DEF Pending, Tries
<1>11. CASE Refused(f)
  <2>1. Pending(requests', k) = Pending(requests, k)
    <3>1. ~Tries(next, k)
      BY <1>11 DEF next, Tries
    <3>2. Pending(requests', k) = Pending(requests, k) \ {c}
      BY <1>5, <3>1, PendingLess
    <3> QED BY <1>10, <3>2
  <2>2. \A key : Pending(requests', key) = Pending(requests, key)
    <3>1. requests' = requests
      BY <1>1, <1>2, <1>11 DEF next
    <3> QED BY <3>1
  <2>3. Len(Counting(Get(failures', k, <<>>), now)) + Cardinality(Pending(requests', k))
          <= MaxFailures - 1 + Cardinality(Client)
    BY <1>3, <1>8, <2>1 DEF ThrottleInv, FailuresToCome
  <2>4. MemoryLimited'
    <3>1. DOMAIN failures' = DOMAIN failures \cup {k}
      BY <1>2, PutFacts
    <3>2. DOMAIN failures' = DOMAIN failures
      BY <1>4, <1>11, <3>1
    <3> QED BY <2>2, <3>2 DEF ThrottleInv, MemoryLimited, PendingKeys
  <2> QED BY <1>1, <1>5, <1>6, <1>7, <1>8, <1>9, <2>3, <2>4, ThrottleStep
<1>12. CASE ~Refused(f)
  <2>1. next = request
    BY <1>12 DEF next
  <2>2. Pending(requests', k) = Pending(requests, k) \cup {c}
    BY <1>5, <2>1, PendingMore
  <2>3. Len(Counting(Get(failures', k, <<>>), now)) + Cardinality(Pending(requests', k))
          <= MaxFailures - 1 + Cardinality(Client)
    <3>1. /\ Len(Counting(Kept(f), now)) \in Nat /\ Len(Kept(f)) \in Nat
          /\ Len(Counting(Kept(f), now)) <= Len(Kept(f))
      BY <1>1, <1>3, CountingLen, LenProperties DEF Timely
    <3>2. /\ Cardinality(Pending(requests', k)) \in 0..Cardinality(Client)
          /\ Cardinality(Client) \in Nat
      BY PendingFacts, AccessAssumption, FS_CardinalityType
    <3> DEFINE p == Cardinality(Pending(requests', k))
               n == Len(Counting(Kept(f), now))
               m == Len(Kept(f))
    <3>3. n \in Nat /\ m \in Nat /\ n <= m /\ p \in 0..Cardinality(Client)
          /\ m <= MaxFailures - 1
      BY <1>3, <1>12, <3>1, <3>2
    <3> HIDE DEF n, m, p
    <3>4. n + p <= MaxFailures - 1 + Cardinality(Client)
      BY <3>2, <3>3, AccessAssumption
    <3> QED BY <1>8, <3>4 DEF n, p
  <2>4. MemoryLimited'
    <3>1. DOMAIN failures' = DOMAIN failures \cup {k}
      BY <1>2, PutFacts
    <3>2. IsFiniteSet(DOMAIN failures')
      <4>1. IsFiniteSet(DOMAIN failures)
        BY DEF ThrottleInv, MemoryLimited
      <4> QED BY <3>1, <4>1, FS_AddElement
    <3>3. ASSUME NEW key \in PendingKeys(requests) PROVE key \in PendingKeys(requests')
      <4>1. CASE key = k
        <5>1. c \in Pending(requests', k)
          BY <2>2
        <5> QED BY <4>1, <5>1 DEF PendingKeys
      <4>2. CASE key # k
        <5>1. key \in Key /\ ~Tries(next, key)
          BY <2>1, <4>2 DEF PendingKeys, Tries
        <5>2. Pending(requests', key) = Pending(requests, key) \ {c}
          BY <1>5, <5>1, PendingLess
        <5>3. c \notin Pending(requests, key)
          BY <1>2 DEF Pending, Tries
        <5> QED BY <5>2, <5>3 DEF PendingKeys
      <4> QED BY <4>1, <4>2
    <3>4. k \in PendingKeys(requests')
      BY <2>2 DEF PendingKeys
    <3>5. (DOMAIN failures') \ PendingKeys(requests')
            \subseteq (DOMAIN failures) \ PendingKeys(requests)
      BY <3>1, <3>3, <3>4
    <3>6. /\ IsFiniteSet((DOMAIN failures) \ PendingKeys(requests))
          /\ Cardinality((DOMAIN failures) \ PendingKeys(requests)) <= MaxKeys
      BY FS_Subset DEF ThrottleInv, MemoryLimited
    <3>7. Cardinality((DOMAIN failures') \ PendingKeys(requests')) <= MaxKeys
      BY <3>5, <3>6, FewerKeys
    <3> QED BY <3>2, <3>7 DEF MemoryLimited
  <2> QED BY <1>1, <1>5, <1>6, <1>7, <1>8, <1>9, <2>3, <2>4, ThrottleStep
<1> QED BY <1>11, <1>12

LEMMA ThrottleTick ==
  ASSUME ThrottleInv, Tick
  PROVE  ThrottleInv'
<1> DEFINE next == now + 1
           rest == {k \in DOMAIN tries : Counting(tries[k], next) # <<>>}
<1>1. now \in Nat /\ next \in Nat /\ next = now + 1
  BY DEF ThrottleInv
<1>2. /\ now' = next /\ failures' = failures /\ requests' = requests
      /\ tries' = [k \in rest |-> Counting(tries[k], next)]
  BY DEF Tick
<1> HIDE DEF next
<1>3. ASSUME NEW f, Timely(f, now)
      PROVE  /\ Timely(f, next) /\ Timely(Counting(f, next), next)
             /\ Counting(Counting(f, next), next) = Counting(f, next)
             /\ Len(Counting(f, next)) <= Len(Counting(f, now))
  BY <1>1, <1>3, LaterCounts
<1>4. Logs(failures', next)
  BY <1>2, <1>3 DEF ThrottleInv, Logs
<1>5. Logs(tries', next)
  BY <1>2, <1>3 DEF ThrottleInv, Logs
<1>6. ASSUME NEW key
      PROVE  Get(tries', key, <<>>) = Counting(Tried(key), next)
  <2>1. next - Span + 1 \in Int
    BY <1>1, SpanFacts
  <2>2. Counting(<<>>, next) = <<>>
    BY <2>1, SinceEmpty, CountingIs
  <2> QED BY <1>2, <2>2 DEF Get, Tried
<1>7. ASSUME NEW key \in Key
      PROVE  Counting(Get(tries', key, <<>>), next) = Counting(Failed(key), next)
  <2>1. Timely(Failed(key), now) /\ Timely(Tried(key), now)
    BY <1>1, LogFacts DEF ThrottleInv, Failed, Tried
  <2>2. Counting(Tried(key), now) = Counting(Failed(key), now)
    BY DEF ThrottleInv, Remembers
  <2>3. /\ Counting(Counting(Tried(key), now), next) = Counting(Tried(key), next)
        /\ Counting(Counting(Failed(key), now), next) = Counting(Failed(key), next)
    BY <1>1, <2>1, CountingTwice
  <2>4. Counting(Counting(Tried(key), next), next) = Counting(Tried(key), next)
    BY <1>3, <2>1
  <2> QED BY <1>6, <2>2, <2>3, <2>4
<1>8. ASSUME NEW key \in Key
      PROVE  Len(Counting(Failed(key), next)) + Cardinality(Pending(requests, key))
               <= MaxFailures - 1 + Cardinality(Client)
  <2>1. Timely(Failed(key), now)
    BY <1>1, LogFacts DEF ThrottleInv, Failed
  <2> DEFINE n == Len(Counting(Failed(key), next))
             m == Len(Counting(Failed(key), now))
             p == Cardinality(Pending(requests, key))
  <2>2. n \in Nat /\ m \in Nat /\ n <= m
    BY <1>1, <1>3, <2>1, CountingLen
  <2>3. m + p <= MaxFailures - 1 + Cardinality(Client)
    BY DEF ThrottleInv, FailuresToCome
  <2>4. p \in Nat /\ Cardinality(Client) \in Nat
    BY PendingFacts, AccessAssumption, FS_CardinalityType
  <2> HIDE DEF n, m, p
  <2>5. n + p <= MaxFailures - 1 + Cardinality(Client)
    BY <2>2, <2>3, <2>4, AccessAssumption
  <2> QED BY <2>5 DEF n, p
<1>9. Remembers' /\ FailuresToCome'
  BY <1>2, <1>7, <1>8 DEF Remembers, FailuresToCome, Failed, Tried
<1>10. MemoryLimited'
  BY <1>2 DEF ThrottleInv, MemoryLimited, PendingKeys
<1>11. requests' \in [Client -> Request \cup {Null}]
  BY <1>2 DEF ThrottleInv
<1> QED BY <1>1, <1>2, <1>4, <1>5, <1>9, <1>10, <1>11 DEF ThrottleInv

-----------------------------------------------------------------------------
(* Accounts, sessions and tokens.                                          *)

\* Nobody is forgotten, or becomes somebody else.
Extends(table, next) ==
  DOMAIN table \subseteq DOMAIN next /\ \A u \in DOMAIN table : next[u] = table[u]

\* Sessions stay, and stay with their user.
SameOwners(table, next) ==
  DOMAIN table \subseteq DOMAIN next /\ \A k \in DOMAIN table : next[k].user = table[k].user

\* A password is right at a later time, if at another.
ProvedLater(pr, next) == \A u \in DOMAIN pr : u \in DOMAIN next /\ pr[u] <= next[u]

\* The administrator is the first account.
UsersOK ==
  /\ DOMAIN users \subseteq UserId /\ IsFiniteSet(DOMAIN users)
  /\ users = [u \in DOMAIN users |-> users[u]]
  /\ \A u \in DOMAIN users : /\ users[u] \in [name : Name, admin : BOOLEAN]
                             /\ users[u].admin => u = FirstId

ProvedOK == \A u \in DOMAIN proved : proved[u] \in Int /\ proved[u] <= now

\* An elevation, running or over, came from a right password of an administrator.
RowOK(row, us, pr) ==
  /\ row \in Row /\ row.user \in DOMAIN us
  /\ row.elevated # Null =>
       /\ us[row.user].admin
       /\ row.user \in DOMAIN pr /\ pr[row.user] \in Int
       /\ row.elevated <= pr[row.user] + ElevationTTL

RowsOK ==
  /\ web = [t \in DOMAIN web |-> web[t]] /\ mobile = [d \in DOMAIN mobile |-> mobile[d]]
  /\ \A t \in DOMAIN web : RowOK(web[t], users, proved)
  /\ \A d \in DOMAIN mobile : /\ RowOK(mobile[d], users, proved)
                              /\ d \in (DOMAIN users) \X Device /\ mobile[d].user = d[1]
  /\ DOMAIN ingest \subseteq DOMAIN users

\* Every token was handed out, and kept in one place.
TokensOK ==
  /\ issued \in 0..MaxToken /\ DOMAIN web \subseteq 1..issued
  /\ IsFiniteSet(DOMAIN mobile)
  /\ \A d \in DOMAIN mobile : mobile[d].token \in (1..issued) \ DOMAIN web
  /\ \A u \in DOMAIN ingest : ingest[u] \in (1..issued) \ DOMAIN web
  /\ \A d, e \in DOMAIN mobile : mobile[d].token = mobile[e].token => d = e
  /\ \A u, v \in DOMAIN ingest : ingest[u] = ingest[v] => u = v
  /\ \A d \in DOMAIN mobile, u \in DOMAIN ingest : mobile[d].token # ingest[u]

\* What a request under way has read is still there.
ReadSession(request, table, us) ==
  request.session \in DOMAIN table /\ us[table[request.session].user].admin
RequestOK(request, us, w, m, time) ==
  /\ request.kind = "elevation" =>
       /\ request.at <= time
       /\ request.key[1] = "web-admin-elevation" => ReadSession(request, w, us)
       /\ request.key[1] = "mobile-admin-elevation" => ReadSession(request, m, us)
  /\ request.kind = "device" =>
       /\ request.session \in (DOMAIN us) \X Device
       /\ request.read # Null => request.session \in DOMAIN m

RequestsOK ==
  \A c \in Client : ~Idle(c) => RequestOK(requests[c], users, web, mobile, now)

TablesOK == UsersOK /\ ProvedOK /\ RowsOK /\ TokensOK

\* The inductive invariant.
AccessInv == ThrottleInv /\ TablesOK /\ RequestsOK

\* What every step does with them: it may hand out the next token, and opens no other.
Grows ==
  /\ now' \in Nat /\ now <= now'
  /\ Extends(users, users') /\ SameOwners(web, web') /\ SameOwners(mobile, mobile')
Carries ==
  /\ issued' \in {issued, issued + 1}
  /\ \A t \in DOMAIN web' :
       ~web'[t].revoked /\ web'[t].expires > now' => t = issued + 1 \/ t \in LiveBrowsers
  /\ \A d \in DOMAIN mobile' :
       ~mobile'[d].revoked /\ mobile'[d].expires > now' =>
         \/ mobile'[d].token = issued + 1
         \/ d \in LiveDevices /\ mobile'[d].token = mobile[d].token
  /\ \A u \in DOMAIN ingest' :
       ingest'[u] = issued + 1 \/ (u \in DOMAIN ingest /\ ingest'[u] = ingest[u])

TablesStep == TablesOK' /\ Grows /\ Carries

\* What becomes of the accounts.
AccountsStep ==
  /\ now' \in Nat /\ now <= now'
  /\ UsersOK' /\ Extends(users, users')
  /\ ProvedOK' /\ ProvedLater(proved, proved')

LEMMA RowStays ==
  ASSUME NEW us, NEW nextUs, Extends(us, nextUs), NEW pr, NEW nextPr, ProvedLater(pr, nextPr),
         \A u \in DOMAIN nextPr : nextPr[u] \in Int, NEW row, RowOK(row, us, pr)
  PROVE  RowOK(row, nextUs, nextPr)
<1>1. row \in Row /\ row.user \in DOMAIN us /\ ElevationTTL \in Nat
  BY AccessAssumption DEF RowOK
<1>2. row.user \in DOMAIN nextUs /\ nextUs[row.user] = us[row.user]
  BY <1>1 DEF Extends
<1>3. ASSUME row.elevated # Null
      PROVE  /\ nextUs[row.user].admin
             /\ row.user \in DOMAIN nextPr /\ nextPr[row.user] \in Int
             /\ row.elevated <= nextPr[row.user] + ElevationTTL
  <2>1. /\ us[row.user].admin /\ row.user \in DOMAIN pr /\ pr[row.user] \in Int
        /\ row.elevated <= pr[row.user] + ElevationTTL
    BY <1>3 DEF RowOK
  <2>2. /\ row.user \in DOMAIN nextPr /\ nextPr[row.user] \in Int
        /\ pr[row.user] <= nextPr[row.user]
    BY <2>1 DEF ProvedLater
  <2>3. row.elevated \in Nat
    BY <1>1, <1>3 DEF Row, Time
  <2>4. row.elevated <= nextPr[row.user] + ElevationTTL
    BY <1>1, <2>1, <2>2, <2>3
  <2> QED BY <1>2, <2>1, <2>2, <2>4
<1> QED BY <1>1, <1>2, <1>3 DEF RowOK

LEMMA RowsStay ==
  ASSUME TablesOK, AccountsStep
  PROVE  /\ \A t \in DOMAIN web : RowOK(web[t], users', proved')
         /\ \A d \in DOMAIN mobile : /\ RowOK(mobile[d], users', proved')
                                     /\ d \in (DOMAIN users') \X Device /\ mobile[d].user = d[1]
<1>1. /\ Extends(users, users') /\ ProvedLater(proved, proved')
      /\ \A u \in DOMAIN proved' : proved'[u] \in Int
  BY DEF AccountsStep, ProvedOK
<1>2. ASSUME NEW t \in DOMAIN web PROVE RowOK(web[t], users', proved')
  <2>1. RowOK(web[t], users, proved)
    BY DEF TablesOK, RowsOK
  <2> QED BY <1>1, <2>1, RowStays
<1>3. ASSUME NEW d \in DOMAIN mobile
      PROVE  /\ RowOK(mobile[d], users', proved')
             /\ d \in (DOMAIN users') \X Device /\ mobile[d].user = d[1]
  <2>1. /\ RowOK(mobile[d], users, proved)
        /\ d \in (DOMAIN users) \X Device /\ mobile[d].user = d[1]
    BY DEF TablesOK, RowsOK
  <2>2. RowOK(mobile[d], users', proved')
    BY <1>1, <2>1, RowStays
  <2>3. d \in (DOMAIN users') \X Device
    BY <1>1, <2>1 DEF Extends
  <2> QED BY <2>1, <2>2, <2>3
<1> QED BY <1>2, <1>3

\* A row runs out as time passes, and nothing makes it run again.
LEMMA TimeCloses ==
  ASSUME now \in Nat, now' \in Nat, now <= now', NEW row \in Row
  PROVE  ~row.revoked /\ row.expires > now' => ~row.revoked /\ row.expires > now
<1>1. row.expires \in Nat
  BY DEF Row, Time
<1> QED BY <1>1

LEMMA LiveFacts ==
  /\ \A t \in DOMAIN web : ~web[t].revoked /\ web[t].expires > now <=> t \in LiveBrowsers
  /\ \A d \in DOMAIN mobile : ~mobile[d].revoked /\ mobile[d].expires > now
                                <=> d \in LiveDevices
BY DEF LiveBrowsers, LiveDevices, Live

\* No session is touched.
LEMMA SessionsStay ==
  ASSUME ThrottleInv, TablesOK, AccountsStep, UNCHANGED sessions
  PROVE  TablesStep
<1>1. web' = web /\ mobile' = mobile /\ ingest' = ingest /\ issued' = issued /\ now \in Nat
  BY DEF sessions, ThrottleInv
<1>2. RowsOK'
  <2>1. DOMAIN ingest' \subseteq DOMAIN users'
    BY <1>1 DEF TablesOK, RowsOK, AccountsStep, Extends
  <2> QED BY <1>1, <2>1, RowsStay DEF TablesOK, RowsOK
<1>3. TokensOK'
  BY <1>1 DEF TablesOK, TokensOK
<1>4. Grows
  BY <1>1 DEF AccountsStep, Grows, SameOwners
<1>5. Carries
  <2>1. /\ \A t \in DOMAIN web : web[t] \in Row
        /\ \A d \in DOMAIN mobile : mobile[d] \in Row
    BY DEF TablesOK, RowsOK, RowOK
  <2>2. now' \in Nat /\ now <= now'
    BY DEF AccountsStep
  <2>3. ASSUME NEW t \in DOMAIN web, ~web[t].revoked, web[t].expires > now'
        PROVE  t \in LiveBrowsers
    BY <1>1, <2>1, <2>2, <2>3, TimeCloses, LiveFacts
  <2>4. ASSUME NEW d \in DOMAIN mobile, ~mobile[d].revoked, mobile[d].expires > now'
        PROVE  d \in LiveDevices
    BY <1>1, <2>1, <2>2, <2>4, TimeCloses, LiveFacts
  <2> QED BY <1>1, <2>3, <2>4 DEF Carries
<1> QED BY <1>2, <1>3, <1>4, <1>5 DEF TablesStep, TablesOK, AccountsStep

LEMMA NextToken ==
  ASSUME NEW n \in 0..MaxToken, NEW m,
         m = n \/ (m = n + 1 /\ n < MaxToken)
  PROVE  /\ m \in 0..MaxToken /\ m \in Nat /\ n <= m
         /\ 1..n \subseteq 1..m /\ n + 1 \notin 1..n /\ (m = n + 1 => n + 1 \in 1..m)
<1>1. MaxToken \in Nat
  BY AccessAssumption
<1> QED BY <1>1

\* One browser session is opened, or changed.
LEMMA WebPut ==
  ASSUME ThrottleInv, TablesOK, AccountsStep, now' = now, UNCHANGED <<mobile, ingest>>,
         NEW t, NEW row, web' = Put(web, t, row), RowOK(row, users', proved'),
         \/ t = issued + 1 /\ issued' = issued + 1 /\ issued < MaxToken
         \/ /\ t \in DOMAIN web /\ issued' = issued /\ row.user = web[t].user
            /\ row.expires = web[t].expires /\ row.revoked \in {web[t].revoked, TRUE}
  PROVE  TablesStep
<1>1. mobile' = mobile /\ ingest' = ingest /\ now \in Nat /\ issued \in 0..MaxToken
      /\ MaxToken \in Nat /\ DOMAIN web \subseteq 1..issued
  BY AccessAssumption DEF ThrottleInv, TablesOK, TokensOK
<1>2. /\ DOMAIN web' = DOMAIN web \cup {t} /\ web'[t] = row
      /\ \A k \in DOMAIN web : k # t => web'[k] = web[k]
      /\ web' = [k \in DOMAIN web' |-> web'[k]]
  BY DEF Put
<1>3. RowsOK'
  <2>1. ASSUME NEW k \in DOMAIN web' PROVE RowOK(web'[k], users', proved')
    <3>1. CASE k = t
      BY <1>2, <3>1
    <3>2. CASE k # t
      BY <1>2, <3>2, RowsStay
    <3> QED BY <3>1, <3>2
  <2>2. DOMAIN ingest' \subseteq DOMAIN users'
    BY <1>1 DEF TablesOK, RowsOK, AccountsStep, Extends
  <2> QED BY <1>1, <1>2, <2>1, <2>2, RowsStay DEF TablesOK, RowsOK
<1>4. TokensOK'
  <2>1. /\ issued' \in 0..MaxToken /\ 1..issued \subseteq 1..issued' /\ issued + 1 \notin 1..issued
        /\ issued' = issued + 1 => issued + 1 \in 1..issued'
    <3>1. issued' = issued \/ (issued' = issued + 1 /\ issued < MaxToken)
      OBVIOUS
    <3> QED BY <1>1, <3>1, NextToken
  <2>2. ASSUME NEW x \in (1..issued) \ DOMAIN web PROVE x \in (1..issued') \ DOMAIN web'
    <3>1. x # t
      BY <2>1
    <3> QED BY <1>2, <2>1, <3>1
  <2>3. DOMAIN web' \subseteq 1..issued'
    <3>1. t \in 1..issued'
      BY <1>1, <2>1
    <3> QED BY <1>1, <1>2, <2>1, <3>1
  <2> QED BY <1>1, <2>1, <2>2, <2>3 DEF TablesOK, TokensOK
<1>5. Grows
  <2>1. SameOwners(web, web')
    <3>1. t \in DOMAIN web => row.user = web[t].user
      <4>1. issued + 1 \notin DOMAIN web
        BY <1>1
      <4> QED BY <4>1
    <3> QED BY <1>2, <3>1 DEF SameOwners
  <2> QED BY <1>1, <2>1 DEF AccountsStep, Grows, SameOwners
<1>6. Carries
  <2>1. ASSUME NEW k \in DOMAIN web', ~web'[k].revoked, web'[k].expires > now'
        PROVE  k = issued + 1 \/ k \in LiveBrowsers
    <3>1. CASE k = t
      <4>1. CASE t \in DOMAIN web
        <5>2. t # issued + 1
          BY <1>1, <4>1
        <5>1. ~web[t].revoked /\ web[t].expires > now
          BY <1>1, <1>2, <2>1, <3>1, <4>1, <5>2
        <5> QED BY <3>1, <4>1, <5>1, LiveFacts
      <4> QED BY <3>1, <4>1
    <3>2. CASE k # t
      BY <1>2, <2>1, <3>2, LiveFacts
    <3> QED BY <3>1, <3>2
  <2>2. ASSUME NEW d \in DOMAIN mobile, ~mobile[d].revoked, mobile[d].expires > now'
        PROVE  d \in LiveDevices
    BY <2>2, LiveFacts
  <2> QED BY <1>1, <2>1, <2>2 DEF Carries
<1> QED BY <1>3, <1>4, <1>5, <1>6 DEF TablesStep, TablesOK, AccountsStep

\* One device session is opened, or changed.
LEMMA DevicePut ==
  ASSUME ThrottleInv, TablesOK, AccountsStep, now' = now, UNCHANGED <<web, ingest>>,
         NEW id, NEW row, mobile' = Put(mobile, id, row), RowOK(row, users', proved'),
         id \in (DOMAIN users') \X Device, row.user = id[1],
         \/ row.token = issued + 1 /\ issued' = issued + 1 /\ issued < MaxToken
         \/ /\ id \in DOMAIN mobile /\ issued' = issued /\ row.token = mobile[id].token
            /\ row.expires = mobile[id].expires /\ row.revoked \in {mobile[id].revoked, TRUE}
  PROVE  TablesStep
<1>1. web' = web /\ ingest' = ingest /\ now \in Nat /\ issued \in 0..MaxToken
      /\ MaxToken \in Nat /\ DOMAIN web \subseteq 1..issued
  BY AccessAssumption DEF ThrottleInv, TablesOK, TokensOK
<1>2. /\ DOMAIN mobile' = DOMAIN mobile \cup {id} /\ mobile'[id] = row
      /\ \A d \in DOMAIN mobile : d # id => mobile'[d] = mobile[d]
      /\ mobile' = [d \in DOMAIN mobile' |-> mobile'[d]]
  BY DEF Put
<1>3. RowsOK'
  <2>1. ASSUME NEW d \in DOMAIN mobile'
        PROVE  /\ RowOK(mobile'[d], users', proved')
               /\ d \in (DOMAIN users') \X Device /\ mobile'[d].user = d[1]
    <3>1. CASE d = id
      BY <1>2, <3>1
    <3>2. CASE d # id
      BY <1>2, <3>2, RowsStay
    <3> QED BY <3>1, <3>2
  <2>2. DOMAIN ingest' \subseteq DOMAIN users'
    BY <1>1 DEF TablesOK, RowsOK, AccountsStep, Extends
  <2> QED BY <1>1, <1>2, <2>1, <2>2, RowsStay DEF TablesOK, RowsOK
<1>4. TokensOK'
  <2>1. /\ issued' \in 0..MaxToken /\ 1..issued \subseteq 1..issued' /\ issued + 1 \notin 1..issued
        /\ issued' = issued + 1 => issued + 1 \in 1..issued'
    <3>1. issued' = issued \/ (issued' = issued + 1 /\ issued < MaxToken)
      OBVIOUS
    <3> QED BY <1>1, <3>1, NextToken
  <2>2. ASSUME NEW x \in (1..issued) \ DOMAIN web PROVE x \in (1..issued') \ DOMAIN web'
    BY <1>1, <2>1
  <2>3. ASSUME NEW d \in DOMAIN mobile, d # id
        PROVE  mobile'[d].token \in (1..issued) \ DOMAIN web
    <3>1. mobile'[d] = mobile[d]
      BY <1>2, <2>3
    <3>2. mobile[d].token \in (1..issued) \ DOMAIN web
      BY DEF TablesOK, TokensOK
    <3> QED BY <3>1, <3>2
  <2>4. CASE row.token = issued + 1 /\ issued' = issued + 1
    <3>1. row.token \in (1..issued') \ DOMAIN web /\ row.token \notin 1..issued
      BY <1>1, <2>1, <2>4
    <3>2. \A d \in DOMAIN mobile' : mobile'[d].token \in (1..issued') \ DOMAIN web'
      BY <1>1, <1>2, <2>2, <2>3, <3>1
    <3>3. \A d, e \in DOMAIN mobile' : mobile'[d].token = mobile'[e].token => d = e
      BY <1>2, <2>3, <3>1 DEF TablesOK, TokensOK
    <3>4. \A d \in DOMAIN mobile', u \in DOMAIN ingest : mobile'[d].token # ingest[u]
      BY <1>2, <2>3, <3>1 DEF TablesOK, TokensOK
    <3>5. IsFiniteSet(DOMAIN mobile')
      <4>1. IsFiniteSet(DOMAIN mobile)
        BY DEF TablesOK, TokensOK
      <4> QED BY <1>2, <4>1, FS_AddElement
    <3> QED BY <1>1, <2>1, <2>2, <3>2, <3>3, <3>4, <3>5 DEF TablesOK, TokensOK
  <2>5. CASE id \in DOMAIN mobile /\ issued' = issued /\ row.token = mobile[id].token
    <3>1. DOMAIN mobile' = DOMAIN mobile /\ \A d \in DOMAIN mobile : mobile'[d].token = mobile[d].token
      BY <1>2, <2>5
    <3> QED BY <1>1, <2>5, <3>1 DEF TablesOK, TokensOK
  <2> QED BY <2>4, <2>5
<1>5. Grows
  <2>1. SameOwners(mobile, mobile')
    <3>1. id \in DOMAIN mobile => row.user = mobile[id].user
      BY DEF TablesOK, RowsOK
    <3> QED BY <1>2, <3>1 DEF SameOwners
  <2> QED BY <1>1, <2>1 DEF AccountsStep, Grows, SameOwners
<1>6. Carries
  <2>1. ASSUME NEW d \in DOMAIN mobile', ~mobile'[d].revoked, mobile'[d].expires > now'
        PROVE  \/ mobile'[d].token = issued + 1
               \/ d \in LiveDevices /\ mobile'[d].token = mobile[d].token
    <3>1. CASE d = id /\ row.token = issued + 1
      BY <1>2, <3>1
    <3>2. CASE d = id /\ row.token # issued + 1
      <4>1. ~mobile[id].revoked /\ mobile[id].expires > now /\ id \in DOMAIN mobile
            /\ row.token = mobile[id].token
        BY <1>1, <1>2, <2>1, <3>2
      <4> QED BY <1>2, <3>2, <4>1, LiveFacts
    <3>3. CASE d # id
      BY <1>2, <2>1, <3>3, LiveFacts
    <3> QED BY <3>1, <3>2, <3>3
  <2>2. ASSUME NEW t \in DOMAIN web, ~web[t].revoked, web[t].expires > now'
        PROVE  t \in LiveBrowsers
    BY <2>2, LiveFacts
  <2> QED BY <1>1, <2>1, <2>2 DEF Carries
<1> QED BY <1>3, <1>4, <1>5, <1>6 DEF TablesStep, TablesOK, AccountsStep

\* The ingest tokens change.
LEMMA IngestStep ==
  ASSUME ThrottleInv, TablesOK, UNCHANGED <<now, users, web, mobile, proved>>,
         issued' \in {issued, issued + 1}, issued' \in 0..MaxToken,
         DOMAIN ingest' \subseteq DOMAIN users,
         \A u \in DOMAIN ingest' :
           \/ u \in DOMAIN ingest /\ ingest'[u] = ingest[u]
           \/ issued' = issued + 1 /\ ingest'[u] = issued + 1,
         \A u, v \in DOMAIN ingest' : ingest'[u] = issued + 1 /\ ingest'[v] = issued + 1 => u = v
  PROVE  TablesStep
<1>1. web' = web /\ mobile' = mobile /\ now' = now /\ now \in Nat /\ issued \in 0..MaxToken
      /\ MaxToken \in Nat /\ DOMAIN web \subseteq 1..issued /\ users' = users /\ proved' = proved
  BY AccessAssumption DEF ThrottleInv, TablesOK, TokensOK
<1>2. UsersOK' /\ ProvedOK' /\ RowsOK'
  BY <1>1 DEF TablesOK, UsersOK, ProvedOK, RowsOK
<1>3. TokensOK'
  <2>1. issued <= issued' /\ issued' \in Nat
    BY <1>1
  <2>2. ASSUME NEW x \in (1..issued) \ DOMAIN web PROVE x \in (1..issued') \ DOMAIN web
    BY <1>1, <2>1
  <2>3. issued' = issued + 1 => issued + 1 \in (1..issued') \ DOMAIN web
    BY <1>1
  <2>4. issued + 1 \notin 1..issued
    BY <1>1
  <2>5. /\ \A d \in DOMAIN mobile : mobile[d].token \in (1..issued) \ DOMAIN web
        /\ \A u \in DOMAIN ingest : ingest[u] \in (1..issued) \ DOMAIN web
        /\ \A d, e \in DOMAIN mobile : mobile[d].token = mobile[e].token => d = e
        /\ \A u, v \in DOMAIN ingest : ingest[u] = ingest[v] => u = v
        /\ \A d \in DOMAIN mobile, u \in DOMAIN ingest : mobile[d].token # ingest[u]
        /\ IsFiniteSet(DOMAIN mobile)
    BY DEF TablesOK, TokensOK
  <2>6. \A u \in DOMAIN ingest' : ingest'[u] \in (1..issued') \ DOMAIN web
    BY <2>2, <2>3, <2>5
  <2>7. \A u, v \in DOMAIN ingest' : ingest'[u] = ingest'[v] => u = v
    BY <2>4, <2>5
  <2>8. \A d \in DOMAIN mobile, u \in DOMAIN ingest' : mobile[d].token # ingest'[u]
    BY <2>4, <2>5
  <2>9. DOMAIN web \subseteq 1..issued'
    BY <1>1, <2>1
  <2> QED BY <1>1, <2>2, <2>5, <2>6, <2>7, <2>8, <2>9 DEF TokensOK
<1>4. Grows
  BY <1>1 DEF Grows, SameOwners, Extends
<1>5. Carries
  <2>1. ASSUME NEW t \in DOMAIN web', ~web'[t].revoked, web'[t].expires > now'
        PROVE  t \in LiveBrowsers
    BY <1>1, <2>1, LiveFacts
  <2>2. ASSUME NEW d \in DOMAIN mobile', ~mobile'[d].revoked, mobile'[d].expires > now'
        PROVE  d \in LiveDevices /\ mobile'[d].token = mobile[d].token
    BY <1>1, <2>2, LiveFacts
  <2>3. \A u \in DOMAIN ingest' :
          ingest'[u] = issued + 1 \/ (u \in DOMAIN ingest /\ ingest'[u] = ingest[u])
    <3> SUFFICES ASSUME NEW u \in DOMAIN ingest'
                 PROVE  ingest'[u] = issued + 1 \/ (u \in DOMAIN ingest /\ ingest'[u] = ingest[u])
      OBVIOUS
    <3>1. \/ u \in DOMAIN ingest /\ ingest'[u] = ingest[u]
          \/ issued' = issued + 1 /\ ingest'[u] = issued + 1
      OBVIOUS
    <3> QED BY <3>1
  <2> QED BY <2>1, <2>2, <2>3 DEF Carries
<1> QED BY <1>2, <1>3, <1>4, <1>5 DEF TablesStep, TablesOK

(* What a step does with the accounts.                                     *)

LEMMA AccountsStay ==
  ASSUME ThrottleInv, TablesOK, UNCHANGED <<now, users, proved>>
  PROVE  AccountsStep
<1>1. now' = now /\ users' = users /\ proved' = proved /\ now \in Nat
  BY DEF ThrottleInv
<1>2. UsersOK' /\ Extends(users, users')
  BY <1>1 DEF TablesOK, UsersOK, Extends
<1>3. ProvedOK' /\ ProvedLater(proved, proved')
  BY <1>1 DEF TablesOK, ProvedOK, ProvedLater
<1> QED BY <1>1, <1>2, <1>3 DEF AccountsStep

LEMMA ProvedPut ==
  ASSUME now \in Nat, ProvedOK, NEW user, NEW next, next = Put(proved, user, now)
  PROVE  ProvedLater(proved, next) /\ \A u \in DOMAIN next : next[u] \in Int /\ next[u] <= now
<1>1. /\ DOMAIN next = DOMAIN proved \cup {user} /\ next[user] = now
      /\ \A u \in DOMAIN proved : u # user => next[u] = proved[u]
  BY DEF Put
<1>2. \A u \in DOMAIN proved : proved[u] \in Int /\ proved[u] <= now
  BY DEF ProvedOK
<1>3. ASSUME NEW u \in DOMAIN next PROVE next[u] \in Int /\ next[u] <= now
  <2>1. CASE u = user
    BY <1>1, <2>1
  <2>2. CASE u # user
    BY <1>1, <1>2, <2>2
  <2> QED BY <2>1, <2>2
<1>4. ASSUME NEW u \in DOMAIN proved PROVE u \in DOMAIN next /\ proved[u] <= next[u]
  <2>1. CASE u = user
    BY <1>1, <1>2, <2>1
  <2>2. CASE u # user
    BY <1>1, <1>2, <2>2
  <2> QED BY <2>1, <2>2
<1> QED BY <1>3, <1>4 DEF ProvedLater

LEMMA AccountsProve ==
  ASSUME ThrottleInv, TablesOK, now' = now, users' = users,
         NEW user, proved' = Put(proved, user, now)
  PROVE  AccountsStep
<1>1. now \in Nat
  BY DEF ThrottleInv
<1>2. UsersOK' /\ Extends(users, users')
  BY DEF TablesOK, UsersOK, Extends
<1>3. ProvedLater(proved, proved') /\ \A u \in DOMAIN proved' : proved'[u] \in Int /\ proved'[u] <= now
  BY <1>1, ProvedPut DEF TablesOK
<1> QED BY <1>1, <1>2, <1>3 DEF AccountsStep, ProvedOK

LEMMA AccountsJoin ==
  ASSUME ThrottleInv, TablesOK, now' = now,
         NEW id \in UserId, id \notin DOMAIN users, NEW name \in Name, NEW admin \in BOOLEAN,
         admin => id = FirstId, users' = Put(users, id, [name |-> name, admin |-> admin]),
         proved' \in {proved, Put(proved, id, now)}
  PROVE  AccountsStep
<1>1. now \in Nat
  BY DEF ThrottleInv
<1> DEFINE user == [name |-> name, admin |-> admin]
<1>2. user \in [name : Name, admin : BOOLEAN] /\ (user.admin => id = FirstId)
  OBVIOUS
<1> HIDE DEF user
<1>3. /\ DOMAIN users' = DOMAIN users \cup {id} /\ users'[id] = user
      /\ \A u \in DOMAIN users : users'[u] = users[u]
      /\ users' = [u \in DOMAIN users' |-> users'[u]]
  BY DEF Put, user
<1>4. IsFiniteSet(DOMAIN users')
  <2>1. IsFiniteSet(DOMAIN users)
    BY DEF TablesOK, UsersOK
  <2> QED BY <1>3, <2>1, FS_AddElement
<1>5. UsersOK' /\ Extends(users, users')
  BY <1>2, <1>3, <1>4 DEF TablesOK, UsersOK, Extends
<1>6. ProvedLater(proved, proved') /\ \A u \in DOMAIN proved' : proved'[u] \in Int /\ proved'[u] <= now
  <2>1. CASE proved' = proved
    BY <2>1 DEF TablesOK, ProvedOK, ProvedLater
  <2>2. CASE proved' = Put(proved, id, now)
    BY <1>1, <2>2, ProvedPut DEF TablesOK
  <2> QED BY <2>1, <2>2
<1> QED BY <1>1, <1>5, <1>6 DEF AccountsStep, ProvedOK

LEMMA MaxOfTwo ==
  ASSUME NEW a \in Int, NEW b \in Int
  PROVE  Max({a, b}) \in {a, b} /\ \A y \in {a, b} : Max({a, b}) >= y
<1>1. \E x \in {a, b} : \A y \in {a, b} : x >= y
  <2>1. a >= b \/ b >= a
    OBVIOUS
  <2> QED BY <2>1
<1> QED BY <1>1 DEF Max

LEMMA AccountsTick ==
  ASSUME ThrottleInv, TablesOK, Tick
  PROVE  AccountsStep
<1>1. now \in Nat /\ now' = now + 1 /\ users' = users
  BY DEF ThrottleInv, Tick
<1>2. /\ DOMAIN proved' = DOMAIN proved
      /\ \A u \in DOMAIN proved : proved'[u] = Max({proved[u], now + 1 - ElevationTTL})
  BY DEF Tick
<1>3. ASSUME NEW u \in DOMAIN proved
      PROVE  proved'[u] \in Int /\ proved[u] <= proved'[u] /\ proved'[u] <= now + 1
  <2> DEFINE x == now + 1 - ElevationTTL
             S == {proved[u], x}
  <2>1. proved[u] \in Int /\ proved[u] <= now /\ x \in Int /\ x <= now
    BY <1>1, AccessAssumption DEF TablesOK, ProvedOK
  <2> HIDE DEF x
  <2>3. Max(S) \in S /\ \A y \in S : Max(S) >= y
    BY <2>1, MaxOfTwo
  <2>4. proved'[u] = Max(S)
    BY <1>2 DEF x
  <2> QED BY <1>1, <2>1, <2>3, <2>4
<1>4. UsersOK' /\ Extends(users, users')
  BY <1>1 DEF TablesOK, UsersOK, Extends
<1>5. ProvedOK' /\ ProvedLater(proved, proved')
  BY <1>1, <1>2, <1>3 DEF ProvedOK, ProvedLater
<1>6. now' \in Nat /\ now <= now'
  BY <1>1
<1> QED BY <1>4, <1>5, <1>6 DEF AccountsStep

\* A new session.
LEMMA NewRowFacts ==
  ASSUME now \in Nat, issued \in 0..MaxToken, issued < MaxToken, NEW us, NEW pr,
         NEW user \in UserId, user \in DOMAIN us, NEW age \in Nat
  PROVE  /\ RowOK(NewRow(user, age), us, pr)
         /\ NewRow(user, age).token = issued + 1 /\ NewRow(user, age).user = user
<1>1. issued + 1 \in Token /\ now + age \in Time
  BY AccessAssumption DEF Token, Time
<1> QED BY <1>1 DEF NewRow, RowOK, Row

\* A device that signs in again.
LEMMA ReissuedFacts ==
  ASSUME now \in Nat, issued \in 0..MaxToken, issued < MaxToken, NEW us, NEW pr,
         NEW row, RowOK(row, us, pr), NEW read \in Row
  PROVE  /\ RowOK(Reissued(row, read), us, pr)
         /\ Reissued(row, read).token = issued + 1 /\ Reissued(row, read).user = row.user
<1> DEFINE revoked == IF read.revoked THEN FALSE ELSE row.revoked
           elevated == IF read.elevated # Null THEN Null ELSE row.elevated
<1>1. row \in Row /\ row.user \in DOMAIN us
  BY DEF RowOK
<1>2. issued + 1 \in Token /\ now + DeviceAge \in Time
  BY AccessAssumption DEF Token, Time
<1>3. revoked \in BOOLEAN /\ elevated \in {Null, row.elevated}
  BY <1>1 DEF Row
<1>4. row.user \in UserId /\ row.elevated \in Time \cup {Null}
  BY <1>1 DEF Row
<1> DEFINE new == NewRow(row.user, DeviceAge)
<1>5. new \in Row
  BY <1>2, <1>4 DEF NewRow, Row
<1>6. new.token = issued + 1 /\ new.user = row.user
  BY DEF NewRow
<1>7. Reissued(row, read) = [new EXCEPT !.revoked = revoked, !.elevated = elevated]
  BY Zenon DEF Reissued
<1> HIDE DEF revoked, elevated, new
<1>8. /\ Reissued(row, read) \in Row /\ Reissued(row, read).token = issued + 1
      /\ Reissued(row, read).user = row.user /\ Reissued(row, read).elevated = elevated
  <2>1. elevated \in Time \cup {Null}
    BY <1>3, <1>4
  <2> QED BY <1>3, <1>5, <1>6, <1>7, <2>1 DEF Row
<1> QED BY <1>1, <1>3, <1>8 DEF RowOK

\* What a request has read is still there after other steps.
LEMMA RequestStays ==
  ASSUME NEW us, NEW nextUs, Extends(us, nextUs),
         NEW w, NEW nextW, SameOwners(w, nextW), \A t \in DOMAIN w : w[t].user \in DOMAIN us,
         NEW m, NEW nextM, SameOwners(m, nextM), \A d \in DOMAIN m : m[d].user \in DOMAIN us,
         NEW time \in Nat, NEW next \in Nat, time <= next,
         NEW request \in Request, RequestOK(request, us, w, m, time)
  PROVE  RequestOK(request, nextUs, nextW, nextM, next)
<1>1. ASSUME request.kind = "elevation" PROVE request.at <= next
  <2>1. request.at \in Nat
    BY <1>1 DEF Request, Time
  <2>2. request.at <= time
    BY <1>1 DEF RequestOK
  <2> QED BY <2>1, <2>2
<1>2. ReadSession(request, w, us) => ReadSession(request, nextW, nextUs)
  BY DEF ReadSession, SameOwners, Extends
<1>3. ReadSession(request, m, us) => ReadSession(request, nextM, nextUs)
  BY DEF ReadSession, SameOwners, Extends
<1>4. DOMAIN us \subseteq DOMAIN nextUs /\ DOMAIN m \subseteq DOMAIN nextM
  BY DEF Extends, SameOwners
<1>5. request.session \in (DOMAIN us) \X Device => request.session \in (DOMAIN nextUs) \X Device
  BY <1>4
<1> QED BY <1>1, <1>2, <1>3, <1>4, <1>5 DEF RequestOK

LEMMA OthersKept ==
  ASSUME AccessInv, Grows, NEW c \in Client, ~Idle(c)
  PROVE  RequestOK(requests[c], users', web', mobile', now')
<1>1. requests[c] \in Request /\ now \in Nat /\ now' \in Nat /\ now <= now'
  BY DEF AccessInv, ThrottleInv, Idle, Grows
<1>2. RequestOK(requests[c], users, web, mobile, now)
  BY DEF AccessInv, RequestsOK
<1>3. /\ \A t \in DOMAIN web : web[t].user \in DOMAIN users
      /\ \A d \in DOMAIN mobile : mobile[d].user \in DOMAIN users
  BY DEF AccessInv, TablesOK, RowsOK, RowOK
<1>4. Extends(users, users') /\ SameOwners(web, web') /\ SameOwners(mobile, mobile')
  BY DEF Grows
<1> QED BY <1>1, <1>2, <1>3, <1>4, RequestStays

LEMMA RequestsStay ==
  ASSUME AccessInv, Grows, requests' = requests
  PROVE  RequestsOK'
<1>1. \A c \in Client : requests[c] # Null => RequestOK(requests[c], users', web', mobile', now')
  BY OthersKept DEF Idle
<1> QED BY <1>1 DEF RequestsOK, Idle

LEMMA RequestsKept ==
  ASSUME AccessInv, Grows, NEW c \in Client, NEW request \in Request \cup {Null},
         requests' = [requests EXCEPT ![c] = request],
         request # Null => RequestOK(request, users', web', mobile', now')
  PROVE  RequestsOK'
<1>1. requests \in [Client -> Request \cup {Null}]
  BY DEF AccessInv, ThrottleInv
<1>2. requests'[c] = request /\ \A d \in Client \ {c} : requests'[d] = requests[d]
  BY <1>1
<1>3. \A d \in Client : requests[d] # Null => RequestOK(requests[d], users', web', mobile', now')
  BY OthersKept DEF Idle
<1>4. ASSUME NEW d \in Client, requests'[d] # Null
      PROVE  RequestOK(requests'[d], users', web', mobile', now')
  <2>1. CASE d = c
    BY <1>2, <1>4, <2>1
  <2>2. CASE d # c
    BY <1>2, <1>3, <1>4, <2>2
  <2> QED BY <2>1, <2>2
<1> QED BY <1>4 DEF RequestsOK, Idle

-----------------------------------------------------------------------------
(* One lemma for each action.                                              *)

StepOK == ThrottleInv' /\ TablesStep /\ RequestsOK'

LEMMA TickOK ==
  ASSUME AccessInv, Tick
  PROVE  StepOK
<1>1. ThrottleInv'
  BY ThrottleTick DEF AccessInv
<1>2. AccountsStep /\ UNCHANGED sessions /\ requests' = requests
  BY AccountsTick DEF AccessInv, Tick
<1>3. TablesStep
  BY <1>2, SessionsStay DEF AccessInv
<1>4. RequestsOK'
  BY <1>2, <1>3, RequestsStay DEF TablesStep
<1> QED BY <1>1, <1>3, <1>4 DEF StepOK

\* A step that neither touches the throttle nor its requests.
LEMMA QuietStep ==
  ASSUME AccessInv, TablesStep, UNCHANGED <<now, throttle, requests>>
  PROVE  StepOK
<1>1. ThrottleInv'
  BY RestKeeps DEF AccessInv
<1>2. RequestsOK'
  BY RequestsStay DEF TablesStep
<1> QED BY <1>1, <1>2 DEF StepOK

\* A step that ends a request which does not wait for a password.
LEMMA QuietEnd ==
  ASSUME AccessInv, TablesStep, now' = now, UNCHANGED throttle,
         NEW c \in Client, ~Idle(c), requests[c].kind \in {"setup", "device"}, Ends(c)
  PROVE  StepOK
<1>1. requests' = [requests EXCEPT ![c] = Null]
  BY DEF Ends
<1>2. /\ \A key : ~Tries(requests[c], key) /\ ~Tries(Null, key)
      /\ Null \in Request \cup {Null}
  BY DEF Tries
<1>3. ThrottleInv'
  BY <1>1, <1>2, QuietKeeps DEF AccessInv
<1>4. RequestsOK'
  <2>1. Grows
    BY DEF TablesStep
  <2> QED BY <1>1, <1>2, <2>1, RequestsKept
<1> QED BY <1>3, <1>4 DEF StepOK

LEMMA BeginSetupOK ==
  ASSUME AccessInv, NEW c \in Client, NEW name \in Name, NEW device \in Device \cup {Null},
         BeginSetup(c, name, device)
  PROVE  StepOK
<1> DEFINE request == [kind |-> "setup", name |-> name, device |-> device]
<1>1. /\ requests[c] = Null /\ requests' = [requests EXCEPT ![c] = request]
      /\ UNCHANGED <<now, users, sessions, throttle, proved>>
  BY DEF BeginSetup, Idle
<1>2. request \in Request /\ request.kind = "setup"
  BY DEF Request
<1> HIDE DEF request
<1>3. AccountsStep
  BY <1>1, AccountsStay DEF AccessInv
<1>4. TablesStep
  BY <1>1, <1>3, SessionsStay DEF AccessInv
<1>5. \A key : ~Tries(requests[c], key) /\ ~Tries(request, key)
  BY <1>1, <1>2 DEF Tries
<1>6. ThrottleInv'
  BY <1>1, <1>2, <1>5, QuietKeeps DEF AccessInv
<1>7. RequestsOK'
  <2>1. Grows /\ RequestOK(request, users', web', mobile', now')
    BY <1>2, <1>4 DEF TablesStep, RequestOK
  <2> QED BY <1>1, <1>2, <2>1, RequestsKept
<1> QED BY <1>4, <1>6, <1>7 DEF StepOK

\* The check of the throttle, with a request that has read what it says.
LEMMA ThrottledOK ==
  ASSUME AccessInv, NEW c \in Client, NEW key \in Key, NEW request \in Request,
         request.kind \in {"login", "elevation"}, request.key = key,
         RequestOK(request, users, web, mobile, now), Throttled(c, key, request)
  PROVE  StepOK
<1> DEFINE next == IF Refused(Recent(Get(failures, key, <<>>))) THEN Null ELSE request
<1>1. /\ requests' = [requests EXCEPT ![c] = next]
      /\ UNCHANGED <<now, users, sessions, proved>>
  BY DEF Throttled
<1>2. next \in Request \cup {Null} /\ (next # Null => next = request)
  OBVIOUS
<1> HIDE DEF next
<1>3. Tries(request, key)
  BY NullAssumption DEF Tries
<1>4. ThrottleInv'
  BY <1>3, ThrottledKeeps DEF AccessInv
<1>5. AccountsStep
  BY <1>1, AccountsStay DEF AccessInv
<1>6. TablesStep
  BY <1>1, <1>5, SessionsStay DEF AccessInv
<1>7. RequestsOK'
  <2>1. next # Null => RequestOK(next, users', web', mobile', now')
    BY <1>1, <1>2 DEF sessions
  <2>2. Grows
    BY <1>6 DEF TablesStep
  <2> QED BY <1>1, <1>2, <2>1, <2>2, RequestsKept
<1> QED BY <1>4, <1>6, <1>7 DEF StepOK

LEMMA BeginLoginOK ==
  ASSUME AccessInv, NEW c \in Client, NEW purpose \in {"web-login", "mobile-login"},
         NEW name \in Name, NEW device \in Device \cup {Null},
         BeginLogin(c, purpose, name, device)
  PROVE  StepOK
<1> DEFINE key == <<purpose, name>>
           request == [kind |-> "login", key |-> key, device |-> device]
<1>1. key \in Key
  BY DEF Key, Purpose
<1>2. Throttled(c, key, request)
  BY DEF BeginLogin
<1> HIDE DEF key
<1>3. request \in Request /\ request.kind = "login" /\ request.key = key
  BY <1>1 DEF Request
<1> HIDE DEF request
<1>4. RequestOK(request, users, web, mobile, now)
  BY <1>3 DEF RequestOK
<1> QED BY <1>1, <1>2, <1>3, <1>4, ThrottledOK

LEMMA BeginWebElevationOK ==
  ASSUME AccessInv, NEW c \in Client, NEW t \in DOMAIN web,
         BeginElevation(c, "web-admin-elevation", web, t)
  PROVE  StepOK
<1> DEFINE name == users[web[t].user].name
           key == <<"web-admin-elevation", name>>
           request == [kind |-> "elevation", key |-> key, session |-> t, at |-> now]
<1>1. users[web[t].user].admin /\ Throttled(c, key, request)
  BY DEF BeginElevation
<1>2. name \in Name /\ now \in Nat /\ t \in Token
  <2>1. web[t].user \in DOMAIN users
    BY DEF AccessInv, TablesOK, RowsOK, RowOK
  <2>2. name \in Name
    BY <2>1 DEF AccessInv, TablesOK, UsersOK
  <2>3. issued \in 0..MaxToken /\ t \in 1..issued /\ MaxToken \in Nat
    BY AccessAssumption DEF AccessInv, TablesOK, TokensOK
  <2> QED BY <2>2, <2>3 DEF AccessInv, ThrottleInv, Token
<1> HIDE DEF name
<1>3. key \in Key /\ key \in {"web-admin-elevation"} \X Name /\ key[1] = "web-admin-elevation"
  BY <1>2 DEF Key, Purpose
<1> HIDE DEF key
<1>4. request \in [kind : {"elevation"}, key : {"web-admin-elevation"} \X Name,
                   session : Token, at : Time]
  BY <1>2, <1>3 DEF Time
<1>5. /\ request.kind = "elevation" /\ request.key = key /\ request.session = t
      /\ request.at = now
  OBVIOUS
<1> HIDE DEF request
<1>6. request \in Request
  BY <1>4 DEF Request
<1>7. RequestOK(request, users, web, mobile, now)
  BY <1>1, <1>2, <1>3, <1>5 DEF RequestOK, ReadSession
<1> QED BY <1>1, <1>3, <1>5, <1>6, <1>7, ThrottledOK

LEMMA BeginMobileElevationOK ==
  ASSUME AccessInv, NEW c \in Client, NEW d \in DOMAIN mobile,
         BeginElevation(c, "mobile-admin-elevation", mobile, d)
  PROVE  StepOK
<1> DEFINE name == users[mobile[d].user].name
           key == <<"mobile-admin-elevation", name>>
           request == [kind |-> "elevation", key |-> key, session |-> d, at |-> now]
<1>1. users[mobile[d].user].admin /\ Throttled(c, key, request)
  BY DEF BeginElevation
<1>2. name \in Name /\ now \in Nat /\ d \in UserId \X Device
  <2>1. mobile[d].user \in DOMAIN users /\ d \in (DOMAIN users) \X Device
    BY DEF AccessInv, TablesOK, RowsOK, RowOK
  <2>2. name \in Name /\ DOMAIN users \subseteq UserId
    BY <2>1 DEF AccessInv, TablesOK, UsersOK
  <2> QED BY <2>1, <2>2 DEF AccessInv, ThrottleInv
<1> HIDE DEF name
<1>3. key \in Key /\ key \in {"mobile-admin-elevation"} \X Name /\ key[1] = "mobile-admin-elevation"
  BY <1>2 DEF Key, Purpose
<1> HIDE DEF key
<1>4. request \in [kind : {"elevation"}, key : {"mobile-admin-elevation"} \X Name,
                   session : UserId \X Device, at : Time]
  BY <1>2, <1>3 DEF Time
<1>5. /\ request.kind = "elevation" /\ request.key = key /\ request.session = d
      /\ request.at = now
  OBVIOUS
<1> HIDE DEF request
<1>6. request \in Request
  BY <1>4 DEF Request
<1>7. RequestOK(request, users, web, mobile, now)
  BY <1>1, <1>2, <1>3, <1>5 DEF RequestOK, ReadSession
<1> QED BY <1>1, <1>3, <1>5, <1>6, <1>7, ThrottledOK

LEMMA FailOK ==
  ASSUME AccessInv, NEW c \in Client, Fail(c)
  PROVE  StepOK
<1>1. ThrottleInv'
  BY FailKeeps DEF AccessInv
<1>2. UNCHANGED <<now, users, sessions, proved>> /\ requests' = [requests EXCEPT ![c] = Null]
  BY DEF Fail, Ends
<1>3. AccountsStep
  BY <1>2, AccountsStay DEF AccessInv
<1>4. TablesStep
  BY <1>2, <1>3, SessionsStay DEF AccessInv
<1>5. RequestsOK'
  <2>1. Grows /\ Null \in Request \cup {Null}
    BY <1>4 DEF TablesStep
  <2> QED BY <1>2, <2>1, RequestsKept
<1> QED BY <1>1, <1>4, <1>5 DEF StepOK

\* A new account, and its first session.
LEMMA JoinsOK ==
  ASSUME AccessInv, now' = now, ingest' = ingest,
         NEW id \in UserId, id \notin DOMAIN users, NEW name \in Name, NEW admin \in BOOLEAN,
         admin => id = FirstId, NEW device \in Device \cup {Null},
         Joins(id, name, admin, device)
  PROVE  TablesStep
<1>1. /\ issued < MaxToken /\ issued' = issued + 1
      /\ users' = Put(users, id, [name |-> name, admin |-> admin])
      /\ proved' = Put(proved, id, now)
  BY DEF Joins
<1>2. AccountsStep
  BY <1>1, AccountsJoin DEF AccessInv
<1>3. now \in Nat /\ issued \in 0..MaxToken /\ id \in DOMAIN users'
  <2>1. id \in DOMAIN users'
    BY <1>1 DEF Put
  <2> QED BY <2>1 DEF AccessInv, ThrottleInv, TablesOK, TokensOK
<1>4. CASE device = Null /\ web' = Put(web, issued + 1, NewRow(id, SessionAge)) /\ mobile' = mobile
  <2>1. RowOK(NewRow(id, SessionAge), users', proved')
    BY <1>1, <1>3, NewRowFacts, AccessAssumption
  <2> QED BY <1>1, <1>2, <1>4, <2>1, WebPut DEF AccessInv
<1>5. CASE device # Null /\ mobile' = Put(mobile, <<id, device>>, NewRow(id, DeviceAge)) /\ web' = web
  <2> DEFINE key == <<id, device>>
             row == NewRow(id, DeviceAge)
  <2>1. RowOK(row, users', proved') /\ row.token = issued + 1 /\ row.user = id
    BY <1>1, <1>3, NewRowFacts, AccessAssumption
  <2>2. key \in (DOMAIN users') \X Device /\ key[1] = id
    BY <1>3, <1>5
  <2>3. mobile' = Put(mobile, key, row)
    BY <1>5
  <2> HIDE DEF key, row
  <2> QED BY <1>1, <1>2, <1>5, <2>1, <2>2, <2>3, DevicePut DEF AccessInv
<1> QED BY <1>4, <1>5 DEF Joins

LEMMA EndSetupOK ==
  ASSUME AccessInv, NEW c \in Client, EndSetup(c)
  PROVE  StepOK
<1>1. /\ ~Idle(c) /\ requests[c].kind = "setup" /\ Ends(c)
      /\ now' = now /\ ingest' = ingest /\ UNCHANGED throttle
  BY DEF EndSetup
<1>2. requests[c] \in Request
  BY <1>1 DEF AccessInv, ThrottleInv, Idle
<1>3. requests[c].name \in Name /\ requests[c].device \in Device \cup {Null}
  BY <1>1, <1>2 DEF Request
<1>4. TablesStep
  <2>1. CASE FirstId \in DOMAIN users \/ Taken(requests[c].name)
    <3>1. UNCHANGED <<now, users, proved>> /\ UNCHANGED sessions
      BY <1>1, <2>1 DEF EndSetup, sessions
    <3>2. AccountsStep
      BY <3>1, AccountsStay DEF AccessInv
    <3> QED BY <3>1, <3>2, SessionsStay DEF AccessInv
  <2>2. CASE ~(FirstId \in DOMAIN users \/ Taken(requests[c].name))
    <3>1. Joins(FirstId, requests[c].name, TRUE, requests[c].device)
      BY <2>2 DEF EndSetup
    <3>2. FirstId \in UserId /\ FirstId \notin DOMAIN users
      BY <2>2 DEF FirstId, UserId
    <3> QED BY <1>1, <1>3, <3>1, <3>2, JoinsOK
  <2> QED BY <2>1, <2>2
<1> QED BY <1>1, <1>4, QuietEnd

\* The next account has an id of its own.
LEMMA NextUser ==
  ASSUME UsersOK, ~BootstrapRequired
  PROVE  Max(DOMAIN users) + 1 \in UserId /\ Max(DOMAIN users) + 1 \notin DOMAIN users
<1>1. DOMAIN users \subseteq Nat \ {0} /\ IsFiniteSet(DOMAIN users)
  BY DEF UsersOK, UserId
<1>2. DOMAIN users # {}
  <2> SUFFICES ASSUME DOMAIN users = {} PROVE users = <<>>
    BY DEF BootstrapRequired
  <2>1. users = [u \in {} |-> users[u]]
    BY DEF UsersOK
  <2> QED BY <2>1
<1>3. Max(DOMAIN users) \in DOMAIN users /\ \A u \in DOMAIN users : Max(DOMAIN users) >= u
  BY <1>1, <1>2, MaxInSet
<1> DEFINE m == Max(DOMAIN users)
<1>4. m \in Nat /\ \A u \in DOMAIN users : m >= u /\ u \in Nat
  BY <1>1, <1>3
<1> HIDE DEF m
<1>5. m + 1 \in UserId /\ m + 1 \notin DOMAIN users
  BY <1>4 DEF UserId
<1> QED BY <1>5 DEF m

LEMMA SignUpOK ==
  ASSUME AccessInv, NEW name \in Name, NEW device \in Device \cup {Null}, SignUp(name, device)
  PROVE  StepOK
<1> DEFINE id == Max(DOMAIN users) + 1
<1>1. UNCHANGED <<now, throttle, requests>> /\ ingest' = ingest /\ now' = now
  BY DEF SignUp
<1>2. id \in UserId /\ id \notin DOMAIN users
  BY NextUser DEF SignUp, AccessInv, TablesOK
<1>3. CASE device # Null
  <2>1. Joins(id, name, FALSE, device)
    BY <1>3 DEF SignUp
  <2> HIDE DEF id
  <2>2. TablesStep
    BY <1>1, <1>2, <2>1, JoinsOK
  <2> QED BY <1>1, <2>2, QuietStep
<1>4. CASE device = Null
  <2>1. users' = Put(users, id, [name |-> name, admin |-> FALSE]) /\ proved' = proved
        /\ UNCHANGED sessions
    BY <1>1, <1>4 DEF SignUp, sessions
  <2> HIDE DEF id
  <2>2. AccountsStep
    BY <1>1, <1>2, <2>1, AccountsJoin DEF AccessInv
  <2>3. TablesStep
    BY <2>1, <2>2, SessionsStay DEF AccessInv
  <2> QED BY <1>1, <2>3, QuietStep
<1> QED BY <1>3, <1>4

LEMMA LoginWebOK ==
  ASSUME AccessInv, NEW c \in Client, LoginWeb(c)
  PROVE  StepOK
<1>1. /\ ~Idle(c) /\ requests[c].kind \in {"login", "elevation"}
      /\ requests' = [requests EXCEPT ![c] = Null]
      /\ now' = now /\ users' = users /\ UNCHANGED <<mobile, ingest>>
  BY DEF LoginWeb, Ends
<1>2. PICK user \in UserNamed(requests[c].key[2]) :
        /\ Proves(c, user) /\ issued < MaxToken /\ issued' = issued + 1
        /\ web' = Put(web, issued + 1, NewRow(user, SessionAge))
  BY DEF LoginWeb
<1>3. user \in DOMAIN users /\ user \in UserId
  BY DEF UserNamed, AccessInv, TablesOK, UsersOK
<1>4. Clear(requests[c].key) /\ proved' = Put(proved, user, now)
  BY <1>2 DEF Proves
<1>5. Null \in Request \cup {Null} /\ \A key : ~Tries(Null, key)
  BY DEF Tries
<1>6. ThrottleInv'
  BY <1>1, <1>4, <1>5, ClearKeeps DEF AccessInv
<1>7. AccountsStep
  BY <1>1, <1>4, AccountsProve DEF AccessInv
<1>8. TablesStep
  <2>1. now \in Nat /\ issued \in 0..MaxToken /\ user \in DOMAIN users'
    BY <1>1, <1>3 DEF AccessInv, ThrottleInv, TablesOK, TokensOK
  <2>2. RowOK(NewRow(user, SessionAge), users', proved')
    BY <1>2, <1>3, <2>1, NewRowFacts, AccessAssumption
  <2> QED BY <1>1, <1>2, <1>7, <2>2, WebPut DEF AccessInv
<1>9. RequestsOK'
  <2>1. Grows
    BY <1>8 DEF TablesStep
  <2> QED BY <1>1, <1>5, <2>1, RequestsKept
<1> QED BY <1>6, <1>8, <1>9 DEF StepOK

LEMMA ReadDeviceOK ==
  ASSUME AccessInv, NEW c \in Client, ReadDevice(c)
  PROVE  StepOK
<1>1. /\ ~Idle(c) /\ requests[c].kind = "login" /\ requests[c].device # Null
      /\ now' = now /\ users' = users /\ UNCHANGED sessions
  BY DEF ReadDevice
<1>2. PICK user \in UserNamed(requests[c].key[2]) :
        /\ Proves(c, user)
        /\ requests' = [requests EXCEPT ![c] =
             [kind |-> "device", session |-> <<user, requests[c].device>>,
              read |-> Get(mobile, <<user, requests[c].device>>, Null)]]
  BY DEF ReadDevice
<1>3. user \in DOMAIN users /\ user \in UserId
  BY DEF UserNamed, AccessInv, TablesOK, UsersOK
<1>4. Clear(requests[c].key) /\ proved' = Put(proved, user, now)
  BY <1>2 DEF Proves
<1>5. requests[c].device \in Device
  <2>1. requests[c] \in Request
    BY <1>1 DEF AccessInv, ThrottleInv, Idle
  <2> QED BY <1>1, <2>1 DEF Request
<1> DEFINE id == <<user, requests[c].device>>
           read == Get(mobile, id, Null)
           request == [kind |-> "device", session |-> id, read |-> read]
<1>6. id \in UserId \X Device /\ id \in (DOMAIN users) \X Device
  BY <1>3, <1>5
<1>7. requests' = [requests EXCEPT ![c] = request]
  BY <1>2
<1> HIDE DEF id
<1>8. read \in Row \cup {Null} /\ (read # Null => id \in DOMAIN mobile)
  <2>1. id \in DOMAIN mobile => mobile[id] \in Row
    BY DEF AccessInv, TablesOK, RowsOK, RowOK
  <2> QED BY <2>1 DEF Get
<1> HIDE DEF read
<1>9. request \in Request /\ request.kind = "device" /\ request.session = id /\ request.read = read
  BY <1>6, <1>8 DEF Request
<1> HIDE DEF request
<1>10. \A key : ~Tries(request, key)
  BY <1>9 DEF Tries
<1>11. ThrottleInv'
  BY <1>1, <1>4, <1>7, <1>9, <1>10, ClearKeeps DEF AccessInv
<1>12. AccountsStep
  BY <1>1, <1>4, AccountsProve DEF AccessInv
<1>13. TablesStep
  BY <1>1, <1>12, SessionsStay DEF AccessInv
<1>14. RequestsOK'
  <2>1. RequestOK(request, users', web', mobile', now')
    BY <1>1, <1>6, <1>8, <1>9 DEF RequestOK, sessions
  <2>2. Grows
    BY <1>13 DEF TablesStep
  <2> QED BY <1>7, <1>9, <2>1, <2>2, RequestsKept
<1> QED BY <1>11, <1>13, <1>14 DEF StepOK

LEMMA WriteDeviceOK ==
  ASSUME AccessInv, NEW c \in Client, WriteDevice(c)
  PROVE  StepOK
<1> DEFINE id == requests[c].session
           read == requests[c].read
           row == IF read = Null THEN NewRow(id[1], DeviceAge) ELSE Reissued(mobile[id], read)
<1>1. /\ ~Idle(c) /\ requests[c].kind = "device" /\ Ends(c) /\ UNCHANGED throttle
      /\ UNCHANGED <<now, users, proved>> /\ UNCHANGED <<web, ingest>> /\ now' = now
  BY DEF WriteDevice
<1>2. AccountsStep
  BY <1>1, AccountsStay DEF AccessInv
<1>3. TablesStep
  <2>1. CASE read = Null /\ id \in DOMAIN mobile
    <3>1. UNCHANGED sessions
      BY <1>1, <2>1 DEF WriteDevice, sessions
    <3> QED BY <1>2, <3>1, SessionsStay DEF AccessInv
  <2>2. CASE ~(read = Null /\ id \in DOMAIN mobile)
    <3>1. issued < MaxToken /\ issued' = issued + 1 /\ mobile' = Put(mobile, id, row)
      BY <2>2 DEF WriteDevice
    <3>2. requests[c] \in Request
      BY <1>1 DEF AccessInv, ThrottleInv, Idle
    <3>3. read \in Row \cup {Null}
      BY <1>1, <3>2 DEF Request
    <3>4. RequestOK(requests[c], users, web, mobile, now)
      BY <1>1 DEF AccessInv, RequestsOK
    <3>5. id \in (DOMAIN users) \X Device /\ (read # Null => id \in DOMAIN mobile)
      BY <1>1, <3>4 DEF RequestOK
    <3> HIDE DEF id, read
    <3>6. /\ now \in Nat /\ issued \in 0..MaxToken /\ id[1] \in DOMAIN users /\ id[1] \in UserId
          /\ DeviceAge \in Nat
      BY <3>5, AccessAssumption DEF AccessInv, ThrottleInv, TablesOK, TokensOK, UsersOK
    <3>7. RowOK(row, users, proved) /\ row.token = issued + 1 /\ row.user = id[1]
      <4>1. CASE read = Null
        BY <3>1, <3>6, <4>1, NewRowFacts
      <4>2. CASE read # Null
        <5>1. RowOK(mobile[id], users, proved) /\ mobile[id].user = id[1]
          BY <3>5, <4>2 DEF AccessInv, TablesOK, RowsOK
        <5>2. read \in Row
          BY <3>3, <4>2
        <5> QED BY <3>1, <3>6, <4>2, <5>1, <5>2, ReissuedFacts
      <4> QED BY <4>1, <4>2
    <3> HIDE DEF row
    <3>8. RowOK(row, users', proved') /\ id \in (DOMAIN users') \X Device
      BY <1>1, <3>5, <3>7
    <3> QED BY <1>1, <1>2, <3>1, <3>7, <3>8, DevicePut DEF AccessInv
  <2> QED BY <2>1, <2>2
<1> QED BY <1>1, <1>3, QuietEnd

\* A session is elevated from when the password was asked for.
LEMMA ElevatedFacts ==
  ASSUME now \in Nat, NEW row \in Row, NEW us, row.user \in DOMAIN us, us[row.user].admin,
         NEW pr, pr[row.user] = now, row.user \in DOMAIN pr, NEW at \in Nat, at <= now,
         NEW next, next = [row EXCEPT !.elevated = ElevatedUntil(row, at)]
  PROVE  /\ RowOK(next, us, pr) /\ next.user = row.user /\ next.token = row.token
         /\ next.expires = row.expires /\ next.revoked = row.revoked
<1>1. ElevatedUntil(row, at) = at + ElevationTTL /\ ElevationTTL \in Nat
  BY AccessAssumption DEF ElevatedUntil
<1> DEFINE until == at + ElevationTTL
<1>2. until \in Nat /\ until <= now + ElevationTTL
  BY <1>1
<1>3. next = [row EXCEPT !.elevated = until]
  BY <1>1
<1> HIDE DEF until
<1>4. /\ next \in Row /\ next.elevated = until /\ next.user = row.user /\ next.token = row.token
      /\ next.expires = row.expires /\ next.revoked = row.revoked
  BY <1>2, <1>3 DEF Row, Time
<1>5. pr[next.user] \in Int /\ next.elevated <= pr[next.user] + ElevationTTL
  BY <1>2, <1>4
<1> QED BY <1>4, <1>5 DEF RowOK

LEMMA ElevateOK ==
  ASSUME AccessInv, NEW c \in Client, Elevate(c)
  PROVE  StepOK
<1> DEFINE id == requests[c].session
           at == requests[c].at
<1>1. /\ ~Idle(c) /\ requests[c].kind = "elevation"
      /\ requests' = [requests EXCEPT ![c] = Null]
      /\ now' = now /\ users' = users /\ ingest' = ingest /\ issued' = issued
  BY DEF Elevate, Ends
<1>2. requests[c] \in Request /\ RequestOK(requests[c], users, web, mobile, now) /\ now \in Nat
  BY <1>1 DEF AccessInv, ThrottleInv, RequestsOK, Idle
<1>3. at \in Nat /\ at <= now
  BY <1>1, <1>2 DEF Request, Time, RequestOK
<1>4. PICK user : /\ Proves(c, user)
                  /\ \/ /\ requests[c].key[1] = "web-admin-elevation" /\ user = web[id].user
                        /\ web' = [web EXCEPT ![id].elevated = ElevatedUntil(web[id], at)]
                        /\ mobile' = mobile
                     \/ /\ requests[c].key[1] = "mobile-admin-elevation" /\ user = mobile[id].user
                        /\ mobile' = [mobile EXCEPT ![id].elevated = ElevatedUntil(mobile[id], at)]
                        /\ web' = web
  BY DEF Elevate
<1>5. Clear(requests[c].key) /\ proved' = Put(proved, user, now)
  BY <1>4 DEF Proves
<1>6. user \in DOMAIN proved' /\ proved'[user] = now
  BY <1>5 DEF Put
<1>7. Null \in Request \cup {Null} /\ \A key : ~Tries(Null, key)
  BY DEF Tries
<1>8. ThrottleInv'
  BY <1>1, <1>5, <1>7, ClearKeeps DEF AccessInv
<1>9. AccountsStep
  BY <1>1, <1>5, AccountsProve DEF AccessInv
<1> HIDE DEF id, at
<1>10. ASSUME requests[c].key[1] = "web-admin-elevation", user = web[id].user,
              web' = [web EXCEPT ![id].elevated = ElevatedUntil(web[id], at)],
              mobile' = mobile
       PROVE  TablesStep
  <2> DEFINE row == web[id]
             next == [row EXCEPT !.elevated = ElevatedUntil(row, at)]
  <2>1. ReadSession(requests[c], web, users)
    BY <1>1, <1>2, <1>10 DEF RequestOK
  <2>2. id \in DOMAIN web /\ users[row.user].admin
    BY <2>1 DEF ReadSession, id
  <2>3. row \in Row /\ row.user \in DOMAIN users /\ web = [t \in DOMAIN web |-> web[t]]
    BY <2>2 DEF AccessInv, TablesOK, RowsOK, RowOK
  <2>4. web' = Put(web, id, next)
    BY <1>10, <2>2, <2>3 DEF Put
  <2>5. users'[row.user].admin /\ row.user \in DOMAIN users' /\ user = row.user
    BY <1>1, <1>10, <2>2, <2>3
  <2> HIDE DEF row
  <2>6. /\ RowOK(next, users', proved') /\ next.user = row.user
        /\ next.expires = row.expires /\ next.revoked = row.revoked
    BY <1>2, <1>3, <1>6, <2>3, <2>5, ElevatedFacts
  <2> HIDE DEF next
  <2>7. /\ id \in DOMAIN web /\ issued' = issued /\ next.user = web[id].user
        /\ next.expires = web[id].expires /\ next.revoked \in {web[id].revoked, TRUE}
    BY <1>1, <2>2, <2>6 DEF row
  <2>8. UNCHANGED <<mobile, ingest>>
    BY <1>1, <1>10
  <2> QED BY <1>1, <1>9, <2>4, <2>6, <2>7, <2>8, WebPut DEF AccessInv
<1>11. ASSUME requests[c].key[1] = "mobile-admin-elevation", user = mobile[id].user,
              mobile' = [mobile EXCEPT ![id].elevated = ElevatedUntil(mobile[id], at)],
              web' = web
       PROVE  TablesStep
  <2> DEFINE row == mobile[id]
             next == [row EXCEPT !.elevated = ElevatedUntil(row, at)]
  <2>1. ReadSession(requests[c], mobile, users)
    BY <1>1, <1>2, <1>11 DEF RequestOK
  <2>2. id \in DOMAIN mobile /\ users[row.user].admin
    BY <2>1 DEF ReadSession, id
  <2>3. /\ row \in Row /\ row.user \in DOMAIN users /\ mobile = [d \in DOMAIN mobile |-> mobile[d]]
        /\ id \in (DOMAIN users) \X Device /\ row.user = id[1]
    BY <2>2 DEF AccessInv, TablesOK, RowsOK, RowOK
  <2>4. mobile' = Put(mobile, id, next)
    BY <1>11, <2>2, <2>3 DEF Put
  <2>5. users'[row.user].admin /\ row.user \in DOMAIN users' /\ user = row.user
    BY <1>1, <1>11, <2>2, <2>3
  <2> HIDE DEF row
  <2>6. /\ RowOK(next, users', proved') /\ next.user = row.user /\ next.token = row.token
        /\ next.expires = row.expires /\ next.revoked = row.revoked
    BY <1>2, <1>3, <1>6, <2>3, <2>5, ElevatedFacts
  <2> HIDE DEF next
  <2>7. id \in (DOMAIN users') \X Device /\ next.user = id[1]
    BY <1>1, <2>3, <2>6
  <2>8. /\ id \in DOMAIN mobile /\ issued' = issued /\ next.token = mobile[id].token
        /\ next.expires = mobile[id].expires /\ next.revoked \in {mobile[id].revoked, TRUE}
    BY <1>1, <2>2, <2>6 DEF row
  <2>9. UNCHANGED <<web, ingest>>
    BY <1>1, <1>11
  <2> QED BY <1>1, <1>9, <2>4, <2>6, <2>7, <2>8, <2>9, DevicePut DEF AccessInv
<1>12. TablesStep
  BY <1>4, <1>10, <1>11
<1>13. RequestsOK'
  <2>1. Grows
    BY <1>12 DEF TablesStep
  <2> QED BY <1>1, <1>7, <2>1, RequestsKept
<1> QED BY <1>8, <1>12, <1>13 DEF StepOK

LEMMA LogoutWebOK ==
  ASSUME AccessInv, NEW t \in DOMAIN web, LogoutWeb(t)
  PROVE  StepOK
<1> DEFINE row == web[t]
           next == [row EXCEPT !.revoked = TRUE]
<1>1. /\ web' = [web EXCEPT ![t].revoked = TRUE] /\ UNCHANGED <<now, throttle, requests>>
      /\ UNCHANGED <<now, users, proved>> /\ UNCHANGED <<mobile, ingest>>
      /\ issued' = issued /\ now' = now
  BY DEF LogoutWeb
<1>2. RowOK(row, users', proved') /\ web = [k \in DOMAIN web |-> web[k]]
  BY <1>1 DEF AccessInv, TablesOK, RowsOK
<1>3. web' = Put(web, t, next)
  BY <1>1, <1>2 DEF Put
<1> HIDE DEF row
<1>4. /\ RowOK(next, users', proved') /\ next.user = row.user
      /\ next.expires = row.expires /\ next.revoked = TRUE
  <2>1. /\ next \in Row /\ next.elevated = row.elevated /\ next.user = row.user
        /\ next.expires = row.expires /\ next.revoked = TRUE
    BY <1>2 DEF RowOK, Row
  <2> HIDE DEF next
  <2> QED BY <1>2, <2>1 DEF RowOK
<1> HIDE DEF next
<1>5. AccountsStep
  BY <1>1, AccountsStay DEF AccessInv
<1>6. TablesStep
  BY <1>1, <1>3, <1>4, <1>5, WebPut DEF AccessInv, row
<1> QED BY <1>1, <1>6, QuietStep

LEMMA RevokeDeviceOK ==
  ASSUME AccessInv, NEW by, NEW id \in DOMAIN mobile, RevokeDevice(by, id)
  PROVE  StepOK
<1> DEFINE row == mobile[id]
           next == [row EXCEPT !.revoked = TRUE]
<1>1. /\ mobile' = [mobile EXCEPT ![id].revoked = TRUE] /\ UNCHANGED <<now, throttle, requests>>
      /\ UNCHANGED <<now, users, proved>> /\ UNCHANGED <<web, ingest>>
      /\ issued' = issued /\ now' = now
  BY DEF RevokeDevice
<1>2. /\ RowOK(row, users', proved') /\ mobile = [d \in DOMAIN mobile |-> mobile[d]]
      /\ id \in (DOMAIN users') \X Device /\ row.user = id[1]
  BY <1>1 DEF AccessInv, TablesOK, RowsOK
<1>3. mobile' = Put(mobile, id, next)
  BY <1>1, <1>2 DEF Put
<1> HIDE DEF row
<1>4. /\ RowOK(next, users', proved') /\ next.user = row.user /\ next.token = row.token
      /\ next.expires = row.expires /\ next.revoked = TRUE
  <2>1. /\ next \in Row /\ next.elevated = row.elevated /\ next.user = row.user
        /\ next.token = row.token /\ next.expires = row.expires /\ next.revoked = TRUE
    BY <1>2 DEF RowOK, Row
  <2> HIDE DEF next
  <2> QED BY <1>2, <2>1 DEF RowOK
<1> HIDE DEF next
<1>5. AccountsStep
  BY <1>1, AccountsStay DEF AccessInv
<1>6. TablesStep
  BY <1>1, <1>2, <1>3, <1>4, <1>5, DevicePut DEF AccessInv, row
<1> QED BY <1>1, <1>6, QuietStep

LEMMA RotateIngestOK ==
  ASSUME AccessInv, NEW user \in DOMAIN users, RotateIngest(user)
  PROVE  StepOK
<1>1. /\ UNCHANGED <<now, throttle, requests>> /\ UNCHANGED <<now, users, web, mobile, proved>>
      /\ issued < MaxToken /\ issued' = issued + 1 /\ ingest' = Put(ingest, user, issued + 1)
  BY DEF RotateIngest
<1>2. /\ DOMAIN ingest' = DOMAIN ingest \cup {user} /\ ingest'[user] = issued + 1
      /\ \A u \in DOMAIN ingest : u # user => ingest'[u] = ingest[u]
  BY <1>1 DEF Put
<1>3. /\ DOMAIN ingest \subseteq DOMAIN users /\ issued \in 0..MaxToken /\ MaxToken \in Nat
      /\ \A u \in DOMAIN ingest : ingest[u] \in 1..issued
  BY AccessAssumption DEF AccessInv, TablesOK, RowsOK, TokensOK
<1>4. issued' \in 0..MaxToken /\ issued + 1 \notin 1..issued
  BY <1>1, <1>3
<1>5. /\ issued' \in {issued, issued + 1} /\ DOMAIN ingest' \subseteq DOMAIN users
      /\ \A u \in DOMAIN ingest' :
           \/ u \in DOMAIN ingest /\ ingest'[u] = ingest[u]
           \/ issued' = issued + 1 /\ ingest'[u] = issued + 1
      /\ \A u, v \in DOMAIN ingest' : ingest'[u] = issued + 1 /\ ingest'[v] = issued + 1 => u = v
  <2>1. DOMAIN ingest' \subseteq DOMAIN users
    BY <1>2, <1>3
  <2>2. ASSUME NEW u \in DOMAIN ingest', u # user
        PROVE  u \in DOMAIN ingest /\ ingest'[u] = ingest[u] /\ ingest'[u] # issued + 1
    BY <1>2, <1>3, <1>4, <2>2
  <2> QED BY <1>1, <1>2, <2>1, <2>2
<1>6. TablesStep
  BY <1>1, <1>4, <1>5, IngestStep DEF AccessInv
<1> QED BY <1>1, <1>6, QuietStep

LEMMA DeleteIngestOK ==
  ASSUME AccessInv, NEW user \in DOMAIN users, DeleteIngest(user)
  PROVE  StepOK
<1>1. /\ UNCHANGED <<now, throttle, requests>> /\ UNCHANGED <<now, users, web, mobile, proved>>
      /\ issued' = issued /\ ingest' = Without(ingest, {user})
  BY DEF DeleteIngest
<1>2. /\ DOMAIN ingest' = DOMAIN ingest \ {user}
      /\ \A u \in DOMAIN ingest' : ingest'[u] = ingest[u]
  BY <1>1 DEF Without, Restrict
<1>3. /\ DOMAIN ingest \subseteq DOMAIN users /\ issued \in 0..MaxToken
      /\ \A u, v \in DOMAIN ingest : ingest[u] = ingest[v] => u = v
  BY DEF AccessInv, TablesOK, RowsOK, TokensOK
<1>4. TablesStep
  BY <1>1, <1>2, <1>3, IngestStep DEF AccessInv
<1> QED BY <1>1, <1>4, QuietStep

-----------------------------------------------------------------------------
(* The invariant is inductive.                                             *)

LEMMA InitInv ==
  ASSUME Init
  PROVE  AccessInv
<1>1. /\ now = 0 /\ issued = 0
      /\ users = <<>> /\ web = <<>> /\ mobile = <<>> /\ ingest = <<>>
      /\ failures = <<>> /\ tries = <<>> /\ proved = <<>>
      /\ requests \in [Client -> {Null}]
  BY DEF Init
<1>2. DOMAIN <<>> = {}
  OBVIOUS
<1>3. /\ Logs(failures, now) /\ Logs(tries, now)
      /\ \A key : Failed(key) = <<>> /\ Tried(key) = <<>>
  BY <1>1, <1>2 DEF Logs, Failed, Tried, Get
<1>4. Len(Counting(<<>>, now)) = 0
  <2>1. now - Span + 1 \in Int
    BY <1>1, SpanFacts
  <2> QED BY <2>1, SinceEmpty, EmptySeq, CountingIs
<1>5. \A key : Pending(requests, key) = {}
  BY <1>1 DEF Pending, Tries
<1>6. /\ IsFiniteSet({}) /\ Cardinality({}) = 0 /\ Cardinality(Client) \in Nat
      /\ MaxFailures \in Nat \ {0} /\ MaxKeys \in Nat /\ MaxToken \in Nat
  BY AccessAssumption, FS_EmptySet, FS_CardinalityType
<1>7. FailuresToCome
  <2>1. 0 + 0 <= MaxFailures - 1 + Cardinality(Client)
    BY <1>6
  <2> QED BY <1>3, <1>4, <1>5, <1>6, <2>1 DEF FailuresToCome
<1>8. MemoryLimited
  <2>1. DOMAIN failures = {} /\ {} \ PendingKeys(requests) = {} /\ 0 <= MaxKeys
    BY <1>1, <1>2, <1>6
  <2> QED BY <1>6, <2>1 DEF MemoryLimited
<1>9. ThrottleInv
  BY <1>1, <1>3, <1>7, <1>8 DEF ThrottleInv, Remembers
<1>10. UsersOK /\ ProvedOK /\ RowsOK
  BY <1>1, <1>2, <1>6 DEF UsersOK, ProvedOK, RowsOK
<1>11. TokensOK
  BY <1>1, <1>2, <1>6 DEF TokensOK
<1>12. RequestsOK
  BY <1>1 DEF RequestsOK, Idle
<1> QED BY <1>9, <1>10, <1>11, <1>12 DEF AccessInv, TablesOK

LEMMA NextOK ==
  ASSUME AccessInv, [Next]_vars
  PROVE  StepOK
<1>1. CASE Tick
  BY <1>1, TickOK
<1>2. ASSUME NEW c \in Client, NEW name \in Name, NEW device \in Device \cup {Null},
             \/ BeginSetup(c, name, device)
             \/ BeginLogin(c, IF device = Null THEN "web-login" ELSE "mobile-login", name, device)
      PROVE  StepOK
  <2> DEFINE purpose == IF device = Null THEN "web-login" ELSE "mobile-login"
  <2>1. purpose \in {"web-login", "mobile-login"}
    OBVIOUS
  <2> HIDE DEF purpose
  <2>2. CASE BeginSetup(c, name, device)
    BY <2>2, BeginSetupOK
  <2>3. CASE BeginLogin(c, purpose, name, device)
    BY <2>1, <2>3, BeginLoginOK
  <2> QED BY <1>2, <2>2, <2>3 DEF purpose
<1>3. ASSUME NEW c \in Client,
             \/ \E t \in DOMAIN web : BeginElevation(c, "web-admin-elevation", web, t)
             \/ \E d \in DOMAIN mobile : BeginElevation(c, "mobile-admin-elevation", mobile, d)
             \/ EndSetup(c) \/ Fail(c) \/ LoginWeb(c) \/ ReadDevice(c) \/ WriteDevice(c)
             \/ Elevate(c)
      PROVE  StepOK
  BY <1>3, BeginWebElevationOK, BeginMobileElevationOK, EndSetupOK, FailOK, LoginWebOK,
     ReadDeviceOK, WriteDeviceOK, ElevateOK
<1>4. ASSUME NEW name \in Name, NEW device \in Device \cup {Null}, SignUp(name, device)
      PROVE  StepOK
  BY <1>4, SignUpOK
<1>5. ASSUME NEW t \in DOMAIN web, LogoutWeb(t)
      PROVE  StepOK
  BY <1>5, LogoutWebOK
<1>6. ASSUME NEW by \in DOMAIN mobile, NEW id \in DOMAIN mobile, RevokeDevice(by, id)
      PROVE  StepOK
  BY <1>6, RevokeDeviceOK
<1>7. ASSUME NEW user \in DOMAIN users, RotateIngest(user) \/ DeleteIngest(user)
      PROVE  StepOK
  BY <1>7, RotateIngestOK, DeleteIngestOK
<1>8. CASE UNCHANGED vars
  <2>1. /\ UNCHANGED <<now, users, proved>> /\ UNCHANGED sessions
        /\ UNCHANGED <<now, throttle, requests>>
    BY <1>8 DEF vars, sessions, throttle
  <2>2. TablesStep
    BY <2>1, AccountsStay, SessionsStay DEF AccessInv
  <2> QED BY <2>1, <2>2, QuietStep
<1> QED BY <1>1, <1>2, <1>3, <1>4, <1>5, <1>6, <1>7, <1>8 DEF Next

LEMMA NextInv == AccessInv /\ [Next]_vars => AccessInv'
BY NextOK DEF StepOK, TablesStep, AccessInv

-----------------------------------------------------------------------------
(* What it says.                                                           *)

LEMMA TypesHold == AccessInv => TypeOK
<1> SUFFICES ASSUME AccessInv PROVE TypeOK
  OBVIOUS
<1>1. /\ now \in Time /\ issued \in 0..MaxToken
      /\ DOMAIN users \subseteq UserId /\ DOMAIN ingest \subseteq DOMAIN users
  BY DEF AccessInv, ThrottleInv, TablesOK, TokensOK, UsersOK, RowsOK, Time
<1>2. users \in [DOMAIN users -> [name : Name, admin : BOOLEAN]]
  BY DEF AccessInv, TablesOK, UsersOK
<1>3. /\ web \in [DOMAIN web -> Row] /\ mobile \in [DOMAIN mobile -> Row]
      /\ \A t \in DOMAIN web : web[t].user \in DOMAIN users
      /\ \A d \in DOMAIN mobile : d \in (DOMAIN users) \X Device /\ mobile[d].user = d[1]
  BY DEF AccessInv, TablesOK, RowsOK, RowOK
<1>4. DOMAIN failures \subseteq Key /\ failures \in [DOMAIN failures -> Seq(Time)]
  BY DEF AccessInv, ThrottleInv, Logs, Timely, Time
<1> QED BY <1>1, <1>2, <1>3, <1>4 DEF TypeOK

LEMMA OneAdminHolds == AccessInv => OneAdmin
<1> SUFFICES ASSUME AccessInv PROVE OneAdmin
  OBVIOUS
<1> DEFINE S == {u \in DOMAIN users : users[u].admin}
<1>1. S \in SUBSET {FirstId}
  BY DEF AccessInv, TablesOK, UsersOK
<1>2. IsFiniteSet({FirstId}) /\ Cardinality({FirstId}) = 1
  BY FS_Singleton
<1>3. OneAdmin <=> Cardinality(S) <= 1
  BY DEF OneAdmin
<1> HIDE DEF S
<1>4. Cardinality(S) <= Cardinality({FirstId})
  BY <1>1, <1>2, FS_Subset
<1> QED BY <1>2, <1>3, <1>4

\* The values of a function that takes none twice are as many as its arguments.
LEMMA ImageSize ==
  ASSUME NEW f, IsFiniteSet(DOMAIN f), \A x, y \in DOMAIN f : f[x] = f[y] => x = y
  PROVE  /\ IsFiniteSet({f[x] : x \in DOMAIN f})
         /\ Cardinality({f[x] : x \in DOMAIN f}) = Cardinality(DOMAIN f)
<1> DEFINE S == DOMAIN f
           T == {f[x] : x \in S}
           g == [x \in S |-> f[x]]
<1>1. g \in [S -> T] /\ (\A x, y \in S : g[x] = g[y] => x = y) /\ \A t \in T : \E x \in S : g[x] = t
  OBVIOUS
<1>2. g \in Surjection(S, T) /\ g \in Injection(S, T)
  BY <1>1 DEF Surjection, Injection, IsInjective
<1> HIDE DEF g, T
<1>3. IsFiniteSet(T) /\ Cardinality(T) = Cardinality(S)
  BY <1>2, FS_Surjection
<1> QED BY <1>3 DEF T

LEMMA UnionSize ==
  ASSUME NEW S, IsFiniteSet(S), NEW T, IsFiniteSet(T), S \cap T = {}
  PROVE  IsFiniteSet(S \cup T) /\ Cardinality(S \cup T) = Cardinality(S) + Cardinality(T)
BY FS_Union, FS_EmptySet, FS_CardinalityType

LEMMA TokensDifferHolds == AccessInv => TokensDiffer
<1> SUFFICES ASSUME AccessInv PROVE TokensDiffer
  OBVIOUS
<1> DEFINE m == [d \in LiveDevices |-> mobile[d].token]
           B == LiveBrowsers
           M == {mobile[d].token : d \in LiveDevices}
           I == {ingest[u] : u \in DOMAIN ingest}
<1>1. /\ issued \in 0..MaxToken /\ MaxToken \in Nat /\ DOMAIN web \subseteq 1..issued
      /\ IsFiniteSet(DOMAIN mobile)
      /\ \A d \in DOMAIN mobile : mobile[d].token \notin DOMAIN web
      /\ \A u \in DOMAIN ingest : ingest[u] \notin DOMAIN web
      /\ \A d, e \in DOMAIN mobile : mobile[d].token = mobile[e].token => d = e
      /\ \A u, v \in DOMAIN ingest : ingest[u] = ingest[v] => u = v
      /\ \A d \in DOMAIN mobile, u \in DOMAIN ingest : mobile[d].token # ingest[u]
      /\ DOMAIN ingest \subseteq DOMAIN users /\ IsFiniteSet(DOMAIN users)
  BY AccessAssumption DEF AccessInv, TablesOK, TokensOK, RowsOK, UsersOK
<1>2. LiveBrowsers \subseteq DOMAIN web /\ LiveDevices \subseteq DOMAIN mobile
  BY DEF LiveBrowsers, LiveDevices
<1>3. IsFiniteSet(B)
  <2>1. IsFiniteSet(1..issued) /\ LiveBrowsers \subseteq 1..issued
    BY <1>1, <1>2, FS_Interval
  <2> QED BY <2>1, FS_Subset
<1>4. IsFiniteSet(LiveDevices) /\ IsFiniteSet(DOMAIN ingest)
  BY <1>1, <1>2, FS_Subset
<1>5. IsFiniteSet(M) /\ Cardinality(M) = Cardinality(LiveDevices)
  <2>1. DOMAIN m = LiveDevices /\ \A d, e \in DOMAIN m : m[d] = m[e] => d = e
    BY <1>1, <1>2
  <2>2. M = {m[d] : d \in DOMAIN m}
    OBVIOUS
  <2> HIDE DEF m, M
  <2> QED BY <1>4, <2>1, <2>2, ImageSize
<1>6. IsFiniteSet(I) /\ Cardinality(I) = Cardinality(DOMAIN ingest)
  BY <1>1, <1>4, ImageSize
<1>7. B \cap M = {} /\ (B \cup M) \cap I = {}
  BY <1>1, <1>2
<1>8. OpenTokens = (B \cup M) \cup I
  BY DEF OpenTokens, Range
<1> HIDE DEF B, M, I
<1>9. /\ IsFiniteSet(B \cup M) /\ Cardinality(B \cup M) = Cardinality(B) + Cardinality(M)
      /\ Cardinality((B \cup M) \cup I) = Cardinality(B \cup M) + Cardinality(I)
  BY <1>3, <1>5, <1>6, <1>7, UnionSize
<1> QED BY <1>5, <1>6, <1>8, <1>9 DEF TokensDiffer, B

LEMMA ElevationHolds == AccessInv => ElevationIsProved
<1> SUFFICES ASSUME AccessInv, NEW row \in Range(web) \cup Range(mobile), Elevated(row)
             PROVE  users[row.user].admin /\ proved[row.user] + ElevationTTL > now
  BY DEF ElevationIsProved
<1>1. RowOK(row, users, proved)
  BY DEF AccessInv, TablesOK, RowsOK, Range
<1>2. /\ users[row.user].admin /\ proved[row.user] \in Int
      /\ row.elevated <= proved[row.user] + ElevationTTL /\ row.elevated > now
  BY <1>1 DEF RowOK, Elevated
<1>3. row.elevated \in Nat /\ now \in Nat /\ ElevationTTL \in Nat
  BY <1>1, AccessAssumption DEF RowOK, Row, Time, Elevated, AccessInv, ThrottleInv
<1> QED BY <1>2, <1>3

LEMMA FailuresHold == AccessInv => FailuresBounded
<1> SUFFICES ASSUME AccessInv, NEW key \in DOMAIN tries
             PROVE  Len(Counting(tries[key], now)) <= MaxFailures - 1 + Cardinality(Client)
  BY DEF FailuresBounded
<1>1. key \in Key /\ tries[key] = Tried(key) /\ now \in Nat
  BY DEF AccessInv, ThrottleInv, Logs, Tried, Get
<1>2. Counting(tries[key], now) = Counting(Failed(key), now)
  BY <1>1 DEF AccessInv, ThrottleInv, Remembers
<1>3. Len(Counting(Failed(key), now)) \in Nat
  <2>1. Timely(Failed(key), now)
    BY <1>1, LogFacts DEF AccessInv, ThrottleInv, Failed
  <2> QED BY <1>1, <2>1, CountingLen
<1>4. Cardinality(Pending(requests, key)) \in Nat
  BY PendingFacts, FS_CardinalityType
<1>5. Len(Counting(Failed(key), now)) + Cardinality(Pending(requests, key))
        <= MaxFailures - 1 + Cardinality(Client)
  BY <1>1 DEF AccessInv, ThrottleInv, FailuresToCome
<1>6. MaxFailures \in Nat /\ Cardinality(Client) \in Nat
  BY AccessAssumption, FS_CardinalityType
<1>7. Len(Counting(Failed(key), now)) <= MaxFailures - 1 + Cardinality(Client)
  BY <1>3, <1>4, <1>5, <1>6
<1> QED BY <1>2, <1>7

LEMMA MemoryHolds == AccessInv => ThrottleBounded
<1> SUFFICES ASSUME AccessInv PROVE ThrottleBounded
  OBVIOUS
<1> DEFINE P == (DOMAIN failures) \cap PendingKeys(requests)
           R == DOMAIN failures \ PendingKeys(requests)
           S == {c \in Client : \E key \in P : Tries(requests[c], key)}
           f == [c \in S |-> requests[c].key]
<1>1. S \in SUBSET Client /\ IsFiniteSet(Client)
  BY AccessAssumption
<1>2. IsFiniteSet(S) /\ Cardinality(S) <= Cardinality(Client)
  BY <1>1, FS_Subset
<1>3. f \in Surjection(S, P)
  <2>1. \A c \in S : f[c] \in P
    BY DEF Tries
  <2>2. ASSUME NEW key \in P PROVE \E c \in S : f[c] = key
    BY DEF PendingKeys, Pending, Tries
  <2>3. f \in [S -> P]
    BY <2>1
  <2> HIDE DEF f, S, P
  <2> QED BY <2>2, <2>3 DEF Surjection
<1> HIDE DEF f, S
<1>4. IsFiniteSet(P) /\ Cardinality(P) <= Cardinality(S)
  BY <1>2, <1>3, FS_Surjection
<1>5. IsFiniteSet(R) /\ Cardinality(R) <= MaxKeys
  BY FS_Subset DEF AccessInv, ThrottleInv, MemoryLimited
<1>6. DOMAIN failures = R \cup P /\ R \cap P = {}
  OBVIOUS
<1> HIDE DEF P, R
<1>7. Cardinality(DOMAIN failures) = Cardinality(R) + Cardinality(P)
  BY <1>4, <1>5, <1>6, UnionSize
<1>8. /\ Cardinality(R) \in Nat /\ Cardinality(P) \in Nat /\ Cardinality(S) \in Nat
      /\ Cardinality(Client) \in Nat /\ MaxKeys \in Nat
  BY <1>1, <1>2, <1>4, <1>5, FS_CardinalityType, AccessAssumption
<1> QED BY <1>2, <1>4, <1>5, <1>7, <1>8 DEF ThrottleBounded

(* However sign-ins, sign-ups, elevations, sign-outs and the passing of    *)
(* time interleave: there is one administrator, no two sessions share a    *)
(* token, a session that counts as elevated is the administrator's after a *)
(* password that was right, and the throttle forgets no wrong password     *)
(* that counts and keeps within its memory.                                *)
THEOREM SignInSafe == Spec => []SignInHolds
<1>1. AccessInv => SignInHolds
  BY TypesHold, OneAdminHolds, TokensDifferHolds, ElevationHolds, FailuresHold, MemoryHolds
     DEF SignInHolds
<1>2. Init => AccessInv
  BY InitInv
<1> QED BY <1>1, <1>2, NextInv, PTL DEF Spec

-----------------------------------------------------------------------------
(* Tokens live the life of TokenLife.                                      *)

LEMMA OnlyOneOpens ==
  ASSUME Carries
  PROVE  OpenTokens' \subseteq OpenTokens \cup {issued + 1}
<1>1. ASSUME NEW t \in LiveBrowsers' PROVE t \in OpenTokens \cup {issued + 1}
  <2>1. t \in DOMAIN web' /\ ~web'[t].revoked /\ web'[t].expires > now'
    BY DEF LiveBrowsers, Live
  <2> QED BY <2>1 DEF Carries, OpenTokens
<1>2. ASSUME NEW d \in LiveDevices' PROVE mobile'[d].token \in OpenTokens \cup {issued + 1}
  <2>1. d \in DOMAIN mobile' /\ ~mobile'[d].revoked /\ mobile'[d].expires > now'
    BY DEF LiveDevices, Live
  <2> QED BY <2>1 DEF Carries, OpenTokens
<1>3. ASSUME NEW u \in DOMAIN ingest' PROVE ingest'[u] \in OpenTokens \cup {issued + 1}
  BY DEF Carries, OpenTokens, Range
<1> QED BY <1>1, <1>2, <1>3 DEF OpenTokens, Range

(* A token is handed out once and opens something until it is closed: by   *)
(* a sign-out, a new sign-in of the device, a rotation, a deletion or its  *)
(* age.  After that no step ever opens it again, and no step opens two.    *)
THEOREM TokensLiveOnce == Spec => ImplementsTokenLife
<1>1. Init => Lives!Init
  <2> SUFFICES ASSUME Init PROVE Lives!Init
    OBVIOUS
  <2>1. issued = 0 /\ DOMAIN web = {} /\ DOMAIN mobile = {} /\ DOMAIN ingest = {}
    BY DEF Init
  <2>2. OpenTokens = {} /\ 1..issued = {}
    BY <2>1 DEF OpenTokens, LiveBrowsers, LiveDevices, Range
  <2> QED BY <2>2 DEF Lives!Init
<1>2. AccessInv /\ [Next]_vars => [Lives!Next]_(Lives!vars)
  <2> SUFFICES ASSUME AccessInv, [Next]_vars PROVE Lives!Next
    OBVIOUS
  <2>1. /\ AccessInv' /\ issued' \in {issued, issued + 1}
        /\ OpenTokens' \subseteq OpenTokens \cup {issued + 1}
    BY NextOK, NextInv, OnlyOneOpens DEF StepOK, TablesStep, Carries
  <2>2. OpenTokens' \subseteq 1..issued'
    <3>1. /\ DOMAIN web' \subseteq 1..issued'
          /\ \A d \in DOMAIN mobile' : mobile'[d].token \in 1..issued'
          /\ \A u \in DOMAIN ingest' : ingest'[u] \in 1..issued'
      BY <2>1 DEF AccessInv, TablesOK, TokensOK
    <3> QED BY <3>1 DEF OpenTokens, LiveBrowsers, LiveDevices, Range
  <2>3. issued \in 0..MaxToken /\ issued' \in 0..MaxToken /\ MaxToken \in Nat
    BY <2>1, AccessAssumption DEF AccessInv, TablesOK, TokensOK
  <2>4. CASE issued' = issued
    <3>1. issued + 1 \notin 1..issued
      BY <2>3
    <3>2. OpenTokens' \in SUBSET OpenTokens /\ 1..issued' = 1..issued
      BY <2>1, <2>2, <2>4, <3>1
    <3> QED BY <3>2 DEF Lives!Next, Lives!Close
  <2>5. CASE issued' = issued + 1
    <3> DEFINE t == issued + 1
               closed == OpenTokens \ OpenTokens'
    <3>1. t \in Token \ (1..issued) /\ 1..issued' = (1..issued) \cup {t}
      BY <2>3, <2>5 DEF Token
    <3>2. closed \in SUBSET OpenTokens
      OBVIOUS
    <3>3. OpenTokens' \in {OpenTokens \ closed, (OpenTokens \ closed) \cup {t}}
      BY <2>1
    <3> HIDE DEF t, closed
    <3> QED BY <3>1, <3>2, <3>3 DEF Lives!Next, Lives!Issue
  <2> QED BY <2>1, <2>4, <2>5
<1>3. Init => AccessInv
  BY InitInv
<1> QED BY <1>1, <1>2, <1>3, NextInv, PTL DEF Spec, ImplementsTokenLife, Lives!Spec
=============================================================================
