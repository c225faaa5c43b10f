---------------------------- MODULE FleetProofs ----------------------------
(***************************************************************************)
(* Proofs about Fleet for every number of replicas, hosts, streams and     *)
(* requests, and every width of the CPU counters.                          *)
(***************************************************************************)
EXTENDS Fleet, TLAPS

-----------------------------------------------------------------------------
(* The CPU gauge.                                                          *)

\* Arithmetic of the counters, less than one round away from their range.
LEMMA ModWithin ==
  ASSUME NEW z \in 0..Modulus - 1
  PROVE  z % Modulus = z
  BY ModulusOK

\* A number in its second round has one round taken off,
LEMMA ModOver ==
  ASSUME NEW z \in Modulus..2 * Modulus - 1
  PROVE  z % Modulus = z - Modulus
  BY ModulusOK

\* and one that is a round or less below zero has one added.
LEMMA ModUnder ==
  ASSUME NEW z \in Int, -Modulus <= z, z <= -1
  PROVE  z % Modulus = z + Modulus
  BY ModulusOK

\* A sum of two counters wraps once at most,
LEMMA PlusIs ==
  ASSUME NEW x \in 0..Modulus - 1, NEW y \in 0..Modulus - 1
  PROVE  Plus(x, y) = IF x + y < Modulus THEN x + y ELSE x + y - Modulus
<1>1. CASE x + y < Modulus
  BY <1>1, ModWithin, ModulusOK DEF Plus
<1>2. CASE x + y >= Modulus
  BY <1>2, ModOver, ModulusOK DEF Plus
<1> QED
  BY <1>1, <1>2, ModulusOK

\* and is a counter again.
LEMMA PlusRange ==
  ASSUME NEW x \in 0..Modulus - 1, NEW y \in 0..Modulus - 1
  PROVE  Plus(x, y) \in 0..Modulus - 1
  BY PlusIs, ModulusOK

\* A sum of three may be taken in any order.
LEMMA PlusMoves ==
  ASSUME NEW x \in 0..Modulus - 1, NEW y \in 0..Modulus - 1,
         NEW a \in 0..Modulus - 1
  PROVE  /\ Plus(Plus(x, a), y) = Plus(Plus(x, y), a)
         /\ Plus(x, Plus(y, a)) = Plus(Plus(x, y), a)
<1> DEFINE Is(p, u, v) == p = IF u + v < Modulus THEN u + v
                                                 ELSE u + v - Modulus
<1>1. /\ Plus(x, a) \in 0..Modulus - 1 /\ Plus(x, y) \in 0..Modulus - 1
      /\ Plus(y, a) \in 0..Modulus - 1
  BY PlusRange
<1>2. /\ Is(Plus(x, a), x, a) /\ Is(Plus(x, y), x, y) /\ Is(Plus(y, a), y, a)
      /\ Is(Plus(Plus(x, a), y), Plus(x, a), y)
      /\ Is(Plus(Plus(x, y), a), Plus(x, y), a)
      /\ Is(Plus(x, Plus(y, a)), x, Plus(y, a))
  BY <1>1, PlusIs
<1> QED
  BY <1>1, <1>2, ModulusOK

\* A counter that has been advanced by a, from x, is a ahead of x.
LEMMA MinusAhead ==
  ASSUME NEW x \in 0..Modulus - 1, NEW a \in 0..Modulus - 1
  PROVE  Minus(Plus(x, a), x) = a
<1>1. CASE x + a < Modulus
  <2>1. Plus(x, a) = x + a
    BY <1>1, PlusIs
  <2>2. Plus(x, a) - x = a /\ a % Modulus = a
    BY <2>1, ModWithin, ModulusOK
  <2> QED
    BY <2>2 DEF Minus
<1>2. CASE x + a >= Modulus
  <2>1. Plus(x, a) = x + a - Modulus
    BY <1>2, PlusIs, ModulusOK
  <2>2. (a - Modulus) % Modulus = a
    BY ModUnder, ModulusOK
  <2> QED
    BY <2>1, <2>2, ModulusOK DEF Minus
<1> QED
  BY <1>1, <1>2, ModulusOK

\* The total of a line.
Total(line) == ReadLine(line, {}).total

\* What SampleCPU reads of a line without an error.
LEMMA ReadFields ==
  ASSUME NEW line \in Line
  PROVE  /\ Total(line) = Plus(Plus(Plus(line["busy"], line["guest"]),
                                    line["iowait"]), line["idle"])
         /\ ReadLine(line, {}).idle = line["idle"]
         /\ ReadLine(line, {}) \in Sample
<1>1. \A f \in Fields : line[f] \in 0..Modulus - 1
  BY DEF Line
<1>2. /\ Total(line) = Plus(Plus(Plus(line["busy"], line["guest"]),
                                 line["iowait"]), line["idle"])
      /\ ReadLine(line, {}) = [total |-> Total(line), idle |-> line["idle"]]
  BY DEF ReadLine, Total, Fields
<1>3. Total(line) \in 0..Modulus - 1
  BY <1>1, <1>2, PlusRange DEF Fields
<1> QED
  BY <1>1, <1>2, <1>3 DEF Sample, Fields

\* Whatever it cannot parse, it makes a sample.
LEMMA ReadType ==
  ASSUME NEW line \in Line, NEW bad \in SUBSET Fields
  PROVE  ReadLine(line, bad) \in Sample
<1> DEFINE v == [f \in Fields |-> IF f \in bad THEN 0 ELSE line[f]]
<1>1. v \in Line
  BY ModulusOK DEF Line
<1>2. ReadLine(line, bad) = ReadLine(v, {})
  BY DEF ReadLine, Fields
<1> HIDE DEF v
<1> QED
  BY <1>1, <1>2, ReadFields

\* One more in one counter, or in two, is as much more in the total.
LEMMA TotalAdvances ==
  ASSUME NEW line \in Line, 1 < Modulus,
         NEW spent \in {{"busy"}, {"busy", "guest"}, {"iowait"}, {"idle"}}
  PROVE  LET next == [f \in Fields |-> Advance(line, spent)[f] % Modulus] IN
         /\ next \in Line
         /\ next["idle"] = IF "idle" \in spent THEN Plus(line["idle"], 1)
                                               ELSE line["idle"]
         /\ Total(next) = IF "guest" \in spent
                            THEN Plus(Plus(Total(line), 1), 1)
                            ELSE Plus(Total(line), 1)
<1> DEFINE next == [f \in Fields |-> Advance(line, spent)[f] % Modulus]
           b == line["busy"]
           g == line["guest"]
           w == line["iowait"]
           i == line["idle"]
<1>1. /\ b \in 0..Modulus - 1 /\ g \in 0..Modulus - 1
      /\ w \in 0..Modulus - 1 /\ i \in 0..Modulus - 1
      /\ 1 \in 0..Modulus - 1
  BY ModulusOK DEF Line, Fields
<1>2. \A f \in Fields : next[f] = IF f \in spent THEN Plus(line[f], 1)
                                                 ELSE line[f]
  <2> TAKE f \in Fields
  <2>1. line[f] \in 0..Modulus - 1
    BY DEF Line
  <2>2. next[f] = (IF f \in spent THEN line[f] + 1 ELSE line[f]) % Modulus
    BY DEF Advance
  <2> QED
    BY <2>1, <2>2, ModWithin DEF Plus
<1>3. next \in Line
  <2>1. \A f \in Fields : next[f] \in 0..Modulus - 1
    BY <1>1, <1>2, PlusRange DEF Line
  <2> QED
    BY <2>1 DEF Line
<1>4. /\ Total(line) = Plus(Plus(Plus(b, g), w), i)
      /\ Total(next) = Plus(Plus(Plus(next["busy"], next["guest"]),
                                 next["iowait"]), next["idle"])
  BY <1>3, ReadFields
<1>5. /\ Plus(b, g) \in 0..Modulus - 1
      /\ Plus(Plus(b, g), w) \in 0..Modulus - 1
      /\ Plus(Plus(b, g), 1) \in 0..Modulus - 1
      /\ Plus(Plus(Plus(b, g), 1), w) \in 0..Modulus - 1
      /\ Plus(Plus(Plus(b, g), w), 1) \in 0..Modulus - 1
      /\ Plus(b, 1) \in 0..Modulus - 1
  BY <1>1, PlusRange
<1>6. CASE spent = {"busy"}
  <2>1. /\ next["busy"] = Plus(b, 1) /\ next["guest"] = g
        /\ next["iowait"] = w /\ next["idle"] = i
    BY <1>2, <1>6 DEF Fields
  <2>2. Plus(Plus(b, 1), g) = Plus(Plus(b, g), 1)
    BY <1>1, PlusMoves
  <2>3. Plus(Plus(Plus(b, g), 1), w) = Plus(Plus(Plus(b, g), w), 1)
    BY <1>1, <1>5, PlusMoves
  <2>4. Plus(Plus(Plus(Plus(b, g), w), 1), i) =
          Plus(Plus(Plus(Plus(b, g), w), i), 1)
    BY <1>1, <1>5, PlusMoves
  <2> HIDE DEF next, b, g, w, i
  <2>5. Total(next) = Plus(Total(line), 1)
    BY <1>4, <2>1, <2>2, <2>3, <2>4
  <2> QED
    BY <1>3, <1>6, <2>1, <2>5 DEF next, i
<1>7. CASE spent = {"busy", "guest"}
  <2>1. /\ next["busy"] = Plus(b, 1) /\ next["guest"] = Plus(g, 1)
        /\ next["iowait"] = w /\ next["idle"] = i
    BY <1>2, <1>7 DEF Fields
  <2>2. Plus(Plus(b, 1), Plus(g, 1)) = Plus(Plus(Plus(b, 1), g), 1)
    BY <1>1, <1>5, PlusMoves
  <2>3. Plus(Plus(b, 1), g) = Plus(Plus(b, g), 1)
    BY <1>1, PlusMoves
  <2> DEFINE c == Plus(b, g)
             d == Plus(Plus(b, g), w)
  <2>4. /\ c \in 0..Modulus - 1 /\ Plus(c, 1) \in 0..Modulus - 1
        /\ d \in 0..Modulus - 1 /\ Plus(d, 1) \in 0..Modulus - 1
        /\ d = Plus(c, w)
    BY <1>5
  <2>5. Plus(Plus(Plus(c, 1), 1), w) = Plus(Plus(d, 1), 1)
    <3> HIDE DEF c, d
    <3>1. Plus(Plus(Plus(c, 1), 1), w) = Plus(Plus(Plus(c, 1), w), 1)
      BY <1>1, <2>4, PlusMoves
    <3>2. Plus(Plus(c, 1), w) = Plus(d, 1)
      BY <1>1, <2>4, PlusMoves
    <3> QED
      BY <3>1, <3>2
  <2>6. Plus(Plus(Plus(d, 1), 1), i) = Plus(Plus(Plus(d, i), 1), 1)
    <3> HIDE DEF c, d
    <3>1. Plus(Plus(Plus(d, 1), 1), i) = Plus(Plus(Plus(d, 1), i), 1)
      BY <1>1, <2>4, PlusMoves
    <3>2. Plus(Plus(d, 1), i) = Plus(Plus(d, i), 1)
      BY <1>1, <2>4, PlusMoves
    <3> QED
      BY <3>1, <3>2
  <2>7. Total(next) = Plus(Plus(Total(line), 1), 1)
    <3> HIDE DEF next
    <3> QED
      BY <1>4, <2>1, <2>2, <2>3, <2>5, <2>6
  <2> QED
    BY <1>3, <1>7, <2>1, <2>7
<1>8. CASE spent = {"iowait"}
  <2>1. /\ next["busy"] = b /\ next["guest"] = g
        /\ next["iowait"] = Plus(w, 1) /\ next["idle"] = i
    BY <1>2, <1>8 DEF Fields
  <2>2. Plus(Plus(b, g), Plus(w, 1)) = Plus(Plus(Plus(b, g), w), 1)
    BY <1>1, <1>5, PlusMoves
  <2>3. Plus(Plus(Plus(Plus(b, g), w), 1), i) =
          Plus(Plus(Plus(Plus(b, g), w), i), 1)
    BY <1>1, <1>5, PlusMoves
  <2> HIDE DEF next, b, g, w, i
  <2>4. Total(next) = Plus(Total(line), 1)
    BY <1>4, <2>1, <2>2, <2>3
  <2> QED
    BY <1>3, <1>8, <2>1, <2>4 DEF next, i
<1>9. CASE spent = {"idle"}
  <2>1. /\ next["busy"] = b /\ next["guest"] = g
        /\ next["iowait"] = w /\ next["idle"] = Plus(i, 1)
    BY <1>2, <1>9 DEF Fields
  <2>2. Plus(Plus(Plus(b, g), w), Plus(i, 1)) =
          Plus(Plus(Plus(Plus(b, g), w), i), 1)
    BY <1>1, <1>5, PlusMoves
  <2> HIDE DEF next, b, g, w, i
  <2>3. Total(next) = Plus(Total(line), 1)
    BY <1>4, <2>1, <2>2
  <2> QED
    BY <1>3, <1>9, <2>1, <2>3 DEF next, i
<1> QED
  BY <1>6, <1>7, <1>8, <1>9

\* The line of a host is ahead of the last sample by what was counted since.
Ahead(h) ==
  /\ Total(stat[h]) = Plus(lastCPU[h].total, Sum(since[h]))
  /\ stat[h]["idle"] = Plus(lastCPU[h].idle, since[h]["idle"])

\* That is less than the total takes to go round.
Small(h) == Sum(since[h]) < Modulus

GInv ==
  /\ GaugeTypeOK
  /\ \A h \in Hosts : Small(h)
  /\ \A h \in Hosts \ unfit : Ahead(h)

\* The fields of a line and of a sample are integers of their width.
LEMMA GaugeFields ==
  ASSUME GaugeTypeOK, NEW h \in Hosts
  PROVE  /\ stat[h] \in Line /\ lastCPU[h] \in Sample /\ since[h] \in Line
         /\ lastCPU[h].total \in 0..Modulus - 1
         /\ lastCPU[h].idle \in 0..Modulus - 1
         /\ \A f \in Fields : /\ stat[h][f] \in 0..Modulus - 1
                              /\ since[h][f] \in 0..Modulus - 1
  BY DEF GaugeTypeOK, Sample, Line

\* Nothing has been counted yet after a sample.
LEMMA ZerosAre ==
  /\ Zeros \in Line
  /\ Sum(Zeros) = 0 /\ Zeros["idle"] = 0
  /\ Never \in Sample
  BY ModulusOK DEF Zeros, Line, Sum, Fields, Never, Sample

\* GInv holds of the host that was just started.
LEMMA GInvInit == GaugeInit => GInv
<1> SUFFICES ASSUME GaugeInit PROVE GInv
  OBVIOUS
<1>1. GaugeTypeOK
  BY ZerosAre DEF GaugeInit, GaugeTypeOK
<1>2. \A h \in Hosts : Small(h)
  <2> TAKE h \in Hosts
  <2>1. since[h] = Zeros
    BY DEF GaugeInit
  <2> QED
    BY <2>1, ZerosAre, ModulusOK DEF Small
<1>3. \A h \in Hosts \ unfit : Ahead(h)
  <2> TAKE h \in Hosts \ unfit
  <2> QED
    BY DEF GaugeInit
<1> QED
  BY <1>1, <1>2, <1>3 DEF GInv

\* Time that passes keeps GInv: counter and history advance together.
LEMMA TickStep ==
  ASSUME GInv, NEW h \in Hosts, Tick(h)
  PROVE  GInv'
<1>0. GaugeTypeOK /\ Small(h)
  BY DEF GInv
<1>1. PICK spent \in {{"busy"}, {"busy", "guest"}, {"iowait"}, {"idle"}} :
        /\ Sum(Advance(since[h], spent)) < Modulus
        /\ stat' = [stat EXCEPT ![h] =
                      [f \in Fields |-> Advance(@, spent)[f] % Modulus]]
        /\ since' = [since EXCEPT ![h] = Advance(@, spent)]
        /\ UNCHANGED <<lastCPU, unfit>>
  BY DEF Tick
<1> DEFINE n == IF "guest" \in spent THEN 2 ELSE 1
           k == IF "idle" \in spent THEN 1 ELSE 0
<1>2. /\ stat[h] \in Line /\ since[h] \in Line
      /\ lastCPU[h].total \in 0..Modulus - 1
      /\ lastCPU[h].idle \in 0..Modulus - 1
      /\ \A f \in Fields : since[h][f] \in 0..Modulus - 1
  BY <1>0, GaugeFields
<1>3. /\ Sum(since[h]) \in Nat
      /\ Sum(Advance(since[h], spent)) = Sum(since[h]) + n
      /\ Advance(since[h], spent)["idle"] = since[h]["idle"] + k
      /\ since[h]["idle"] <= Sum(since[h]) /\ since[h]["idle"] \in Nat
      /\ k <= n /\ n \in {1, 2} /\ k \in {0, 1}
  BY <1>2, ModulusOK DEF Sum, Advance, Fields
<1>4. 1 < Modulus /\ Sum(since[h]) + n < Modulus
  BY <1>1, <1>3, ModulusOK
<1>5. Advance(since[h], spent) \in Line
  <2>1. \A f \in Fields :
          /\ Advance(since[h], spent)[f] \in Nat
          /\ Advance(since[h], spent)[f] <= Sum(Advance(since[h], spent))
    BY <1>2, ModulusOK DEF Sum, Advance, Fields
  <2>2. \A f \in Fields : Advance(since[h], spent)[f] \in 0..Modulus - 1
    BY <1>1, <1>3, <2>1, ModulusOK
  <2> QED
    BY <2>2 DEF Line, Advance
<1> DEFINE next == [f \in Fields |-> Advance(stat[h], spent)[f] % Modulus]
<1>6. /\ next \in Line
      /\ next["idle"] = IF "idle" \in spent THEN Plus(stat[h]["idle"], 1)
                                            ELSE stat[h]["idle"]
      /\ Total(next) = IF "guest" \in spent
                         THEN Plus(Plus(Total(stat[h]), 1), 1)
                         ELSE Plus(Total(stat[h]), 1)
  BY <1>2, <1>4, TotalAdvances
<1>7. /\ \A g \in Hosts : g # h => stat'[g] = stat[g] /\ since'[g] = since[g]
      /\ stat'[h] = next /\ since'[h] = Advance(since[h], spent)
  BY <1>0, <1>1 DEF GaugeTypeOK
<1>8. GaugeTypeOK'
  <2>1. stat' = [stat EXCEPT ![h] = next]
    BY <1>1
  <2> HIDE DEF next
  <2>2. stat' \in [Hosts -> Line] /\ since' \in [Hosts -> Line]
    BY <1>0, <1>1, <1>5, <1>6, <2>1 DEF GaugeTypeOK
  <2> QED
    BY <1>0, <1>1, <2>2 DEF GaugeTypeOK
<1>9. Small(h)'
  BY <1>1, <1>7 DEF Small
<1>10. Ahead(h) => Ahead(h)'
  <2> HAVE Ahead(h)
  <2> DEFINE l == lastCPU[h].total
             j == lastCPU[h].idle
             s == Sum(since[h])
             z == since[h]["idle"]
  <2>1. /\ Total(stat[h]) = Plus(l, s) /\ stat[h]["idle"] = Plus(j, z)
        /\ l \in 0..Modulus - 1 /\ j \in 0..Modulus - 1
        /\ s \in 0..Modulus - 1 /\ z \in 0..Modulus - 1
        /\ 1 \in 0..Modulus - 1
    BY <1>2, <1>3, <1>4, ModulusOK DEF Ahead
  <2>2. Total(next) = Plus(l, s + n)
    <3> HIDE DEF next, l, s
    <3>1. Plus(s, 1) = s + 1 /\ Plus(Plus(l, s), 1) = Plus(l, s + 1)
      BY <1>3, <1>4, <2>1, PlusIs, PlusMoves, ModulusOK DEF s
    <3>2. CASE "guest" \in spent
      <4>1. s + 1 \in 0..Modulus - 1 /\ Plus(s + 1, 1) = s + 2
        BY <1>3, <1>4, <2>1, <3>2, PlusIs, ModulusOK DEF s
      <4>2. Plus(Plus(l, s + 1), 1) = Plus(l, Plus(s + 1, 1))
        BY <2>1, <4>1, PlusMoves
      <4> QED
        BY <1>6, <2>1, <3>1, <3>2, <4>1, <4>2
    <3>3. CASE "guest" \notin spent
      BY <1>6, <2>1, <3>1, <3>3
    <3> QED
      BY <3>2, <3>3
  <2>3. next["idle"] = Plus(j, z + k)
    <3>1. CASE "idle" \in spent
      <4>1. z + 1 < Modulus
        BY <1>3, <1>4, <3>1, ModulusOK
      <4> HIDE DEF next, z, j
      <4>2. Plus(z, 1) = z + 1
        BY <2>1, <4>1, PlusIs
      <4> QED
        BY <1>6, <2>1, <3>1, <4>2, PlusMoves
    <3>2. CASE "idle" \notin spent
      BY <1>6, <2>1, <3>2
    <3> QED
      BY <3>1, <3>2
  <2>4. /\ Total(stat'[h]) = Plus(lastCPU'[h].total, Sum(since'[h]))
        /\ stat'[h]["idle"] = Plus(lastCPU'[h].idle, since'[h]["idle"])
    BY <1>1, <1>3, <1>7, <2>2, <2>3
  <2> QED
    BY <2>4 DEF Ahead, Total
<1> QED
  BY <1>1, <1>7, <1>8, <1>9, <1>10 DEF GInv, Ahead, Small, Total

\* A counter that goes back makes the sample unfit, and nothing else.
LEMMA BackStep ==
  ASSUME GInv, NEW h \in Hosts, GoesBack(h)
  PROVE  GInv'
<1>1. PICK f \in {"iowait", "idle"} :
        /\ stat' = [stat EXCEPT ![h][f] = Minus(@, 1)]
        /\ unfit' = unfit \cup {h}
        /\ UNCHANGED <<lastCPU, since>>
  BY DEF GoesBack
<1>2. GaugeTypeOK
  BY DEF GInv
<1>3. Minus(stat[h][f], 1) \in 0..Modulus - 1
  BY <1>2, GaugeFields, ModulusOK DEF Minus, Fields
<1>4. stat' \in [Hosts -> Line]
  BY <1>1, <1>2, <1>3 DEF GaugeTypeOK, Line
<1>5. \A g \in Hosts : g # h => stat'[g] = stat[g]
  BY <1>1, <1>2 DEF GaugeTypeOK
<1>6. GaugeTypeOK'
  BY <1>1, <1>2, <1>4 DEF GaugeTypeOK
<1> QED
  BY <1>1, <1>5, <1>6 DEF GInv, Ahead, Small, Total

\* A sample begins the count anew, with nothing counted.
LEMMA SampleStep ==
  ASSUME GInv, NEW h \in Hosts, SampleCPU(h)
  PROVE  GInv'
<1>1. CASE UNCHANGED gauge
  BY <1>1 DEF gauge, GInv, GaugeTypeOK, Ahead, Small, Total
<1>2. ASSUME NEW bad \in SUBSET Fields,
             lastCPU' = [lastCPU EXCEPT ![h] = ReadLine(stat[h], bad)],
             since' = [since EXCEPT ![h] = Zeros],
             unfit' = IF ReadLine(stat[h], bad) = ReadLine(stat[h], {})
                        THEN unfit \ {h} ELSE unfit \cup {h},
             UNCHANGED stat
      PROVE  GInv'
  <2>1. GaugeTypeOK /\ stat[h] \in Line
    BY GaugeFields DEF GInv
  <2>2. ReadLine(stat[h], bad) \in Sample
    BY <2>1, ReadType
  <2>3. GaugeTypeOK'
    BY <1>2, <2>1, <2>2, ZerosAre DEF GaugeTypeOK
  <2>4. /\ \A g \in Hosts : g # h =>
             lastCPU'[g] = lastCPU[g] /\ since'[g] = since[g]
        /\ lastCPU'[h] = ReadLine(stat[h], bad) /\ since'[h] = Zeros
    BY <1>2, <2>1 DEF GaugeTypeOK
  <2>5. Small(h)'
    BY <2>4, ZerosAre, ModulusOK DEF Small
  <2>6. h \notin unfit' => Ahead(h)'
    <3> HAVE h \notin unfit'
    <3>1. lastCPU'[h] = ReadLine(stat[h], {})
      BY <1>2, <2>4
    <3>2. /\ lastCPU'[h].total = Total(stat[h])
          /\ lastCPU'[h].idle = stat[h]["idle"]
          /\ Total(stat[h]) \in 0..Modulus - 1
          /\ stat[h]["idle"] \in 0..Modulus - 1
      BY <2>1, <3>1, ReadFields, GaugeFields DEF Total, Sample, Fields
    <3>3. /\ Plus(Total(stat[h]), 0) = Total(stat[h])
          /\ Plus(stat[h]["idle"], 0) = stat[h]["idle"]
      BY <3>2, PlusIs, ModulusOK
    <3> QED
      BY <1>2, <2>4, <3>2, <3>3, ZerosAre DEF Ahead, Total
  <2> QED
    BY <1>2, <2>3, <2>4, <2>5, <2>6 DEF GInv, Ahead, Small, Total
<1> QED
  BY <1>1, <1>2 DEF SampleCPU

\* A restart leaves no fit sample.
LEMMA ForgetStep ==
  ASSUME GInv, NEW h \in Hosts, ForgetSample(h)
  PROVE  GInv'
<1>1. /\ lastCPU' = [lastCPU EXCEPT ![h] = Never]
      /\ since' = [since EXCEPT ![h] = Zeros]
      /\ unfit' = unfit \cup {h}
      /\ UNCHANGED stat
  BY DEF ForgetSample
<1>2. GaugeTypeOK
  BY DEF GInv
<1>3. GaugeTypeOK'
  BY <1>1, <1>2, ZerosAre DEF GaugeTypeOK
<1>4. /\ \A g \in Hosts : g # h =>
           lastCPU'[g] = lastCPU[g] /\ since'[g] = since[g]
      /\ since'[h] = Zeros
  BY <1>1, <1>2 DEF GaugeTypeOK
<1>5. Small(h)'
  BY <1>4, ZerosAre, ModulusOK DEF Small
<1> QED
  BY <1>1, <1>3, <1>4, <1>5 DEF GInv, Ahead, Small, Total

\* No other step of Fleet touches the gauge.
LEMMA GaugeStep ==
  [Next]_vars =>
    \/ UNCHANGED gauge
    \/ \E h \in Hosts :
         Tick(h) \/ GoesBack(h) \/ SampleCPU(h) \/ ForgetSample(h)
  BY DEF Next, PodStep, HandlerStep, AgentStep, HostStep, RequestStep, Crash,
     Terminate, Exit, Kill, Start, Gone, Dial, Accept, Reject, BeginSession,
     RegisterAgent, EndSession, UnregisterAgent, SessionLost, Break,
     AgentRestart, Heartbeat, StoreMetrics, StoreSeen, Lookup, ReadSeen,
     ReadMetrics, vars

\* GInv is an invariant: only steps of the host change the gauge.
LEMMA GInvInvariant == Spec => []GInv
<1>1. Init => GInv
  BY GInvInit DEF Init
<1>2. GInv /\ [Next]_vars => GInv'
  <2> SUFFICES ASSUME GInv, [Next]_vars PROVE GInv'
    OBVIOUS
  <2>1. CASE UNCHANGED gauge
    BY <2>1 DEF gauge, GInv, GaugeTypeOK, Ahead, Small, Total
  <2> QED
    BY <2>1, GaugeStep, TickStep, BackStep, SampleStep, ForgetStep
<1> QED
  BY <1>1, <1>2, PTL DEF Spec

\* The fields that count as busy are at least as large a share of what was
\* counted as the busy time is of the time.
LEMMA NeverBelow ==
  ASSUME NEW b \in Nat, NEW g \in Nat, NEW w \in Nat, NEW i \in Nat
  PROVE  b * (b + g + w + i) <= (b + g + w) * (b + w + i)
<1>1. b * (b + g + w + i) = b * (b + w + i) + b * g
  OBVIOUS
<1>2. (b + g + w) * (b + w + i) =
        b * (b + w + i) + g * b + g * w + g * i + w * (b + w + i)
  OBVIOUS
<1>3. /\ g * w \in Nat /\ g * i \in Nat /\ w * (b + w + i) \in Nat
      /\ b * (b + w + i) \in Nat /\ b * g \in Nat /\ g * b = b * g
  OBVIOUS
<1> QED
  BY <1>1, <1>2, <1>3

\* For every width of the counters, and any number of hosts: the percentage of a
\* heartbeat is the share of what was counted since the sample before that was
\* not idle, and never below the true share of busy time, although counters and
\* their sum wrap, samples fail and sessions come and go.
THEOREM CPUShareHolds == Spec => []CPUShare
<1>1. ASSUME GInv, NEW h \in Hosts \ unfit, Sum(since[h]) > 0
      PROVE  LET counted == since[h]
                 percent == CPUPercent(lastCPU[h], ReadLine(stat[h], {}))
             IN /\ percent = <<Sum(counted) - counted["idle"], Sum(counted)>>
                /\ counted["busy"] * percent[2] <= percent[1] * Elapsed(counted)
  <2> DEFINE s == Sum(since[h])
             z == since[h]["idle"]
             cur == ReadLine(stat[h], {})
  <2>1. GaugeTypeOK /\ Ahead(h) /\ Small(h)
    BY <1>1 DEF GInv
  <2>2. /\ stat[h] \in Line
        /\ lastCPU[h].total \in 0..Modulus - 1
        /\ lastCPU[h].idle \in 0..Modulus - 1
        /\ \A f \in Fields : since[h][f] \in Nat
    BY <2>1, GaugeFields, ModulusOK
  <2>3. /\ s \in 0..Modulus - 1 /\ z \in 0..Modulus - 1
        /\ s - z \in 0..Modulus - 1
    BY <2>1, <2>2, ModulusOK DEF Small, Sum, Fields
  <2>4. /\ cur.total = Plus(lastCPU[h].total, s)
        /\ cur.idle = Plus(lastCPU[h].idle, z)
    BY <2>1, <2>2, ReadFields DEF Ahead, Total
  <2> HIDE DEF cur
  <2>5. /\ Minus(cur.total, lastCPU[h].total) = s
        /\ Minus(cur.idle, lastCPU[h].idle) = z
    BY <2>2, <2>3, <2>4, MinusAhead
  <2>6. Minus(s, z) = s - z
    BY <2>3, ModWithin DEF Minus
  <2>7. CPUPercent(lastCPU[h], cur) = <<s - z, s>>
    BY <1>1, <2>3, <2>5, <2>6 DEF CPUPercent
  <2>8. since[h]["busy"] * s <= (s - z) * Elapsed(since[h])
    <3> DEFINE b == since[h]["busy"]
               g == since[h]["guest"]
               w == since[h]["iowait"]
    <3>1. b \in Nat /\ g \in Nat /\ w \in Nat /\ z \in Nat
      BY <2>2 DEF Fields
    <3>2. s = b + g + w + z /\ Elapsed(since[h]) = b + w + z
      BY DEF Sum, Elapsed
    <3> HIDE DEF b, g, w, z, s
    <3>3. s - z = b + g + w
      BY <3>1, <3>2
    <3>4. b * s <= (s - z) * Elapsed(since[h])
      BY <3>1, <3>2, <3>3, NeverBelow
    <3> QED
      BY <3>4 DEF b
  <2> QED
    BY <2>7, <2>8 DEF cur
<1>2. GInv => CPUShare
  BY <1>1 DEF CPUShare
<1> QED
  BY <1>2, GInvInvariant, PTL

-----------------------------------------------------------------------------
(* What a request reads.                                                   *)

\* A session holds metrics of heartbeats that were sent, and was seen at the
\* same heartbeat but for the moment between the two writes -- which is for ever
\* when its replica ends then.
BeatsOrdered ==
  \A c \in Conns :
    /\ lastMetrics[c] <= sent[c]
    /\ IF handler[c] \in {"beat", "done"}
         THEN lastMetrics[c] \in {lastSeen[c], lastSeen[c] + 1}
         ELSE lastMetrics[c] = lastSeen[c]
    /\ handler[c] = "beat" => lastMetrics[c] = lastSeen[c] + 1

\* A request in progress holds a session.
ViewHolds ==
  \A k \in Requests :
    view[k].step \in {"lastSeen", "lastMetrics"} => view[k].on \in Conns

\* A request and its fields.
LEMMA ViewFields ==
  ASSUME NEW v \in View
  PROVE  /\ v.on \in Conns \cup {None}
         /\ v.host \in Hosts \cup {None}
         /\ v.from \in 0..MaxBeats
         /\ v.floor \in 0..MaxBeats
         /\ v.seen \in (0..MaxBeats) \cup {Torn}
         /\ v.metrics \in 0..MaxBeats
  BY DEF View

\* A request that has found a session, or none.
LEMMA FoundView ==
  ASSUME NEW s \in {"missing", "lastSeen"}, NEW c \in Conns \cup {None},
         NEW h \in Hosts, NEW f \in 0..MaxBeats, NEW l \in 0..MaxBeats
  PROVE  /\ Found(s, c, h, f, l) \in View
         /\ Found(s, c, h, f, l).step = s
         /\ Found(s, c, h, f, l).on = c
         /\ Found(s, c, h, f, l).from = f
         /\ Found(s, c, h, f, l).floor = l
  BY FleetConstants DEF Found, View

\* The newest of two heartbeats, and a third if it is one.
LEMMA NewestOf ==
  ASSUME NEW a \in Nat, NEW b \in Nat, NEW t \in Nat \cup {Torn}
  PROVE  LET S == {a, b} \cup ({t} \ {Torn}) IN
         Newest(S) \in S /\ \A m \in S : m <= Newest(S)
<1> DEFINE S == {a, b} \cup ({t} \ {Torn})
<1>1. S \subseteq Nat /\ a \in S /\ b \in S
  OBVIOUS
<1>2. \E n \in S : \A m \in S : m <= n
  <2>1. CASE t = Torn
    <3>1. \A m \in S : m = a \/ m = b
      BY <2>1
    <3> QED
      BY <1>1, <3>1
  <2>2. CASE t # Torn
    <3>1. t \in Nat /\ t \in S /\ \A m \in S : m = a \/ m = b \/ m = t
      BY <2>2
    <3>2. \E n \in {a, b, t} : a <= n /\ b <= n /\ t <= n
      BY <3>1
    <3> QED
      BY <1>1, <3>1, <3>2
  <2> QED
    BY <2>1, <2>2
<1> HIDE DEF S
<1>3. Newest(S) \in S /\ \A m \in S : m <= Newest(S)
  BY <1>2 DEF Newest
<1> QED
  BY <1>3 DEF S

FInv == TypeOK /\ BeatsOrdered /\ ViewHolds

\* FInv holds at the start.
LEMMA FInvInit == Init => FInv
<1> SUFFICES ASSUME Init PROVE FInv
  OBVIOUS
<1>1. GaugeTypeOK
  BY GInvInit DEF Init, GInv
<1>2. NoView \in View
  BY FleetConstants DEF NoView, View
<1>3. TypeOK
  BY <1>1, <1>2, FleetConstants DEF Init, TypeOK
<1>4. BeatsOrdered
  BY DEF Init, BeatsOrdered
<1>5. ViewHolds
  BY DEF Init, ViewHolds, NoView
<1> QED
  BY <1>3, <1>4, <1>5 DEF FInv

\* The steps that concern neither heartbeats nor requests.
LEMMA OtherStep ==
  ASSUME FInv, GaugeTypeOK',
         \/ \E p \in Pods : Terminate(p) \/ Start(p)
         \/ \E c \in Conns : \/ Accept(c) \/ Reject(c) \/ RegisterAgent(c)
                            \/ EndSession(c) \/ UnregisterAgent(c) \/ Break(c)
         \/ \E h \in Hosts : \/ BeginSession(h) \/ SessionLost(h)
                            \/ AgentRestart(h) \/ HostStep(h)
  PROVE  FInv'
<1>1. UNCHANGED <<beats, answers>>
  BY DEF Terminate, Start, Accept, Reject, RegisterAgent, EndSession,
     UnregisterAgent, Break, BeginSession, SessionLost, AgentRestart, HostStep,
     beats
<1>2. \A c \in Conns :
        /\ handler'[c] = "beat" => handler[c] = "beat"
        /\ handler'[c] \notin {"beat", "done"} =>
             handler[c] \notin {"beat", "done"}
        /\ handler'[c] = "done" =>
             handler[c] # "beat" \/ handler'[c] = handler[c]
  BY DEF Terminate, Start, Accept, Reject, RegisterAgent, EndSession,
     UnregisterAgent, Break, BeginSession, SessionLost, AgentRestart, HostStep,
     sessions, FInv, TypeOK
<1>3. TypeOK'
  <2> USE <1>1 DEF FInv, TypeOK, beats, sessions, answers
  <2>1. ASSUME NEW p \in Pods, Terminate(p) \/ Start(p)
        PROVE  TypeOK'
    BY <2>1 DEF Terminate, Start
  <2>2. ASSUME NEW c \in Conns, Accept(c) \/ Reject(c)
        PROVE  TypeOK'
    BY <2>2 DEF Accept, Reject
  <2>3. ASSUME NEW c \in Conns, RegisterAgent(c)
        PROVE  TypeOK'
    BY <2>3 DEF RegisterAgent
  <2>4. ASSUME NEW c \in Conns, UnregisterAgent(c)
        PROVE  TypeOK'
    BY <2>4 DEF UnregisterAgent
  <2>5. ASSUME NEW c \in Conns, EndSession(c) \/ Break(c)
        PROVE  TypeOK'
    BY <2>5 DEF EndSession, Break
  <2>6. ASSUME NEW h \in Hosts, BeginSession(h) \/ SessionLost(h)
        PROVE  TypeOK'
    BY <2>6 DEF BeginSession, SessionLost
  <2>7. ASSUME NEW h \in Hosts, AgentRestart(h)
        PROVE  TypeOK'
    BY <2>7 DEF AgentRestart
  <2>8. ASSUME NEW h \in Hosts, HostStep(h)
        PROVE  TypeOK'
    BY <2>8 DEF HostStep
  <2> QED
    BY <2>1, <2>2, <2>3, <2>4, <2>5, <2>6, <2>7, <2>8
<1>4. BeatsOrdered'
  BY <1>1, <1>2 DEF beats, FInv, BeatsOrdered
<1>5. ViewHolds'
  BY <1>1 DEF answers, FInv, ViewHolds
<1> QED
  BY <1>3, <1>4, <1>5 DEF FInv

\* A process that ends takes its sessions and requests along.
LEMMA GoneStep ==
  ASSUME FInv, NEW p \in Pods, Gone(p)
  PROVE  FInv'
<1> USE DEF FInv
<1>1. UNCHANGED <<beats, at, owner, phase, using, shown, gauge>>
  BY DEF Gone
<1>2. \A c \in Conns : handler'[c] = handler[c] \/ handler'[c] = "done"
  BY DEF Gone, TypeOK
<1>3. \A k \in Requests :
        \/ view'[k] = view[k]
        \/ view'[k] = Goes(view[k], "lost", None, view[k].seen, view[k].metrics)
  BY DEF Gone, TypeOK
<1>4. \A k \in Requests :
        view'[k] \in View /\ (view'[k] = view[k] \/ view'[k].step = "lost")
  <2> TAKE k \in Requests
  <2>1. view[k] \in View
    BY DEF TypeOK
  <2>2. /\ None \in Conns \cup {None}
        /\ view[k].seen \in (0..MaxBeats) \cup {Torn}
        /\ view[k].metrics \in 0..MaxBeats
    BY <2>1, ViewFields
  <2>3. /\ Goes(view[k], "lost", None, view[k].seen, view[k].metrics) \in View
        /\ Goes(view[k], "lost", None, view[k].seen, view[k].metrics).step =
             "lost"
    BY <2>1, <2>2, ViewFields DEF Goes, View
  <2> QED
    BY <1>3, <2>1, <2>3
<1>5. view' \in [Requests -> View]
  BY <1>4 DEF Gone
<1>6. /\ pod' \in [Pods -> {"up", "draining", "down"}]
      /\ agents' \in [Pods -> [Hosts -> Conns \cup {None}]]
      /\ stream' \in [Conns -> {"unused", "open", "broken"}]
      /\ handler' \in [Conns -> {"none", "auth", "accepted", "loop", "beat",
                                 "closing", "done"}]
  BY DEF Gone, TypeOK
<1>7. TypeOK'
  BY <1>1, <1>5, <1>6 DEF TypeOK, GaugeTypeOK, beats, gauge
<1>8. BeatsOrdered'
  BY <1>1, <1>2 DEF BeatsOrdered, beats
<1>9. ViewHolds'
  BY <1>4 DEF ViewHolds
<1> QED
  BY <1>7, <1>8, <1>9

\* A stream is used again only when no request holds it.
LEMMA DialStep ==
  ASSUME FInv, NEW h \in Hosts, NEW c \in Conns, NEW p \in Pods, Dial(h, c, p)
  PROVE  FInv'
<1> USE DEF FInv
<1>1. TypeOK'
  BY FleetConstants DEF Dial, TypeOK, gauge, GaugeTypeOK
<1>2. BeatsOrdered'
  BY DEF Dial, TypeOK, BeatsOrdered
<1>3. ViewHolds'
  BY DEF Dial, ViewHolds
<1> QED
  BY <1>1, <1>2, <1>3

\* The counts of a stream only grow, and in their order.
LEMMA BeatStep ==
  ASSUME FInv, GaugeTypeOK',
         \/ \E h \in Hosts : Heartbeat(h)
         \/ \E c \in Conns : StoreMetrics(c) \/ StoreSeen(c)
  PROVE  FInv'
<1> USE DEF FInv
<1>0. ViewHolds'
  BY DEF Heartbeat, StoreMetrics, StoreSeen, answers, ViewHolds
<1>1. ASSUME NEW h \in Hosts, Heartbeat(h)
      PROVE  FInv'
  <2>1. /\ UNCHANGED <<lastMetrics, lastSeen, handler, answers>>
        /\ \A c \in Conns : sent[c] <= sent'[c] /\ sent'[c] \in 0..MaxBeats
        /\ sent' \in [Conns -> 0..MaxBeats]
    <3> DEFINE c == using[h]
    <3>1. sent' = [sent EXCEPT ![c] = @ + 1] /\ sent[c] < MaxBeats
      BY <1>1 DEF Heartbeat
    <3>2. sent \in [Conns -> 0..MaxBeats]
      BY DEF TypeOK
    <3>3. \A d \in Conns : sent'[d] = IF d = c THEN sent[d] + 1 ELSE sent[d]
      BY <3>1, <3>2
    <3>4. \A d \in Conns : sent[d] <= sent'[d] /\ sent'[d] \in 0..MaxBeats
      BY <3>1, <3>2, <3>3, FleetConstants
    <3>5. sent' \in [Conns -> 0..MaxBeats]
      BY <3>1, <3>2, <3>4
    <3> QED
      BY <1>1, <3>4, <3>5 DEF Heartbeat, sessions
  <2>2. TypeOK'
    BY <1>1, <2>1 DEF Heartbeat, TypeOK, sessions, answers
  <2>3. BeatsOrdered'
    BY <2>1, FleetConstants DEF BeatsOrdered, TypeOK
  <2> QED
    BY <1>0, <2>2, <2>3
<1>2. ASSUME NEW c \in Conns, StoreMetrics(c)
      PROVE  FInv'
  <2>1. /\ UNCHANGED <<sent, lastSeen, answers>>
        /\ handler[c] = "loop"
        /\ lastMetrics[c] < sent[c]
        /\ lastMetrics' = [lastMetrics EXCEPT ![c] = @ + 1]
        /\ handler' = [handler EXCEPT ![c] = "beat"]
    BY <1>2 DEF StoreMetrics
  <2>2. TypeOK'
    BY <1>2, <2>1, FleetConstants DEF StoreMetrics, TypeOK, answers
  <2>3. BeatsOrdered'
    BY <2>1, FleetConstants DEF BeatsOrdered, TypeOK
  <2> QED
    BY <1>0, <2>2, <2>3
<1>3. ASSUME NEW c \in Conns, StoreSeen(c)
      PROVE  FInv'
  <2>1. /\ UNCHANGED <<sent, lastMetrics, answers>>
        /\ handler[c] = "beat"
        /\ lastSeen' = [lastSeen EXCEPT ![c] = @ + 1]
        /\ handler' = [handler EXCEPT ![c] = "loop"]
    BY <1>3 DEF StoreSeen
  <2>2. lastMetrics[c] = lastSeen[c] + 1
    BY <2>1 DEF BeatsOrdered
  <2>3. TypeOK'
    BY <1>3, <2>1, <2>2, FleetConstants DEF StoreSeen, TypeOK, answers
  <2>4. BeatsOrdered'
    BY <2>1, <2>2, FleetConstants DEF BeatsOrdered, TypeOK
  <2> QED
    BY <1>0, <2>3, <2>4
<1> QED
  BY <1>1, <1>2, <1>3

\* What a request finds and reads has its type.
LEMMA ViewStep ==
  ASSUME FInv, NEW k \in Requests, RequestStep(k)
  PROVE  FInv'
<1> USE DEF FInv
<1>1. UNCHANGED <<pod, agents, sessions, beats, gauge>>
  BY DEF RequestStep, Lookup, ReadSeen, ReadMetrics
<1>2. /\ view \in [Requests -> View] /\ view[k] \in View
      /\ shown \in [Conns -> 0..MaxBeats]
      /\ lastSeen \in [Conns -> 0..MaxBeats]
      /\ lastMetrics \in [Conns -> 0..MaxBeats]
      /\ 0 \in 0..MaxBeats
  BY FleetConstants DEF TypeOK
<1>3. ASSUME NEW v \in View, view' = [view EXCEPT ![k] = v],
             v.step \in {"lastSeen", "lastMetrics"} => v.on \in Conns,
             shown' \in [Conns -> 0..MaxBeats]
      PROVE  FInv'
  <2>1. TypeOK'
    BY <1>1, <1>2, <1>3 DEF TypeOK, GaugeTypeOK, sessions, beats, gauge
  <2>2. BeatsOrdered'
    BY <1>1 DEF BeatsOrdered, sessions, beats
  <2>3. ViewHolds'
    BY <1>1, <1>2, <1>3 DEF ViewHolds, beats
  <2> QED
    BY <2>1, <2>2, <2>3
<1>4. ASSUME NEW p \in Pods, NEW h \in Hosts, Lookup(k, p, h)
      PROVE  FInv'
  <2> DEFINE c == agents[p][h]
  <2>1. c \in Conns \cup {None} /\ UNCHANGED shown
    BY <1>4 DEF TypeOK, Lookup
  <2>2. CASE c = None
    <3> DEFINE v == Found("missing", None, h, 0, 0)
    <3>1. view' = [view EXCEPT ![k] = v]
      BY <1>4, <2>2 DEF Lookup
    <3>2. v \in View /\ v.step = "missing"
      BY <1>2, FleetConstants DEF Found, View
    <3> HIDE DEF v
    <3> QED
      BY <1>2, <1>3, <2>1, <3>1, <3>2
  <2>3. CASE c # None
    <3> DEFINE v == Found("lastSeen", c, h, lastSeen[c], shown[c])
    <3>1. view' = [view EXCEPT ![k] = v]
      BY <1>4, <2>3 DEF Lookup
    <3>2. /\ c \in Conns
          /\ lastSeen[c] \in 0..MaxBeats /\ shown[c] \in 0..MaxBeats
      BY <1>2, <2>1, <2>3
    <3>3. v \in View /\ v.step = "lastSeen" /\ v.on = c
      BY <3>2, FoundView
    <3> HIDE DEF v, c
    <3> QED
      BY <1>2, <1>3, <2>1, <3>1, <3>2, <3>3
  <2> QED
    BY <2>2, <2>3
<1>5. CASE ReadSeen(k)
  <2>1. PICK t \in (view[k].from..lastSeen[view[k].on]) \cup {Torn} :
          /\ view[k].step = "lastSeen"
          /\ view' = [view EXCEPT ![k] =
                        Goes(view[k], "lastMetrics", view[k].on, t, 0)]
    BY <1>5 DEF ReadSeen, Since
  <2>2. view[k].on \in Conns /\ UNCHANGED shown
    BY <1>5, <2>1 DEF ViewHolds, ReadSeen
  <2>3. t \in (0..MaxBeats) \cup {Torn}
    BY <1>2, <2>2, ViewFields, FleetConstants
  <2> DEFINE v == Goes(view[k], "lastMetrics", view[k].on, t, 0)
  <2>4. v \in View /\ v.step = "lastMetrics" /\ v.on = view[k].on
    BY <1>2, <2>2, <2>3, ViewFields DEF Goes, View
  <2>5. view' = [view EXCEPT ![k] = v]
    BY <2>1
  <2> HIDE DEF v
  <2> QED
    BY <1>2, <1>3, <2>2, <2>4, <2>5
<1>6. CASE ReadMetrics(k)
  <2> DEFINE d == view[k].on
             s == view[k].seen
  <2>1. PICK m \in view[k].from..lastMetrics[d] :
          /\ view[k].step = "lastMetrics"
          /\ view' = [view EXCEPT ![k] = Goes(view[k], "done", None, s, m)]
          /\ shown' = [shown EXCEPT ![d] = Newest({@, m} \cup ({s} \ {Torn}))]
    BY <1>6 DEF ReadMetrics, Since
  <2>2. d \in Conns /\ s \in (0..MaxBeats) \cup {Torn}
    BY <1>2, <2>1, ViewFields DEF ViewHolds
  <2>3. m \in 0..MaxBeats /\ shown[d] \in 0..MaxBeats
    BY <1>2, <2>2, ViewFields, FleetConstants
  <2> DEFINE v == Goes(view[k], "done", None, s, m)
  <2>4. v \in View /\ v.step = "done"
    BY <1>2, <2>2, <2>3, ViewFields DEF Goes, View
  <2>5. view' = [view EXCEPT ![k] = v]
    BY <2>1
  <2>6. shown' \in [Conns -> 0..MaxBeats]
    <3> DEFINE n == Newest({shown[d], m} \cup ({s} \ {Torn}))
    <3>1. n \in {shown[d], m} \cup ({s} \ {Torn})
      <4> HIDE DEF s, d
      <4>1. s \in Nat \cup {Torn} /\ shown[d] \in Nat /\ m \in Nat
        BY <2>2, <2>3
      <4> QED
        BY <4>1, NewestOf
    <3>2. n \in 0..MaxBeats
      BY <2>2, <2>3, <3>1
    <3>3. shown' = [shown EXCEPT ![d] = n]
      BY <1>2, <2>1, <2>2
    <3> HIDE DEF n
    <3> QED
      BY <1>2, <3>2, <3>3
  <2> HIDE DEF v, d, s
  <2> QED
    BY <1>2, <1>3, <2>4, <2>5, <2>6
<1> QED
  BY <1>4, <1>5, <1>6 DEF RequestStep

\* FInv is an invariant.
LEMMA FInvInvariant == Spec => []FInv
<1>1. GInv' => GaugeTypeOK'
  BY DEF GInv
<1>2. FInv /\ GInv' /\ [Next]_vars => FInv'
  <2> SUFFICES ASSUME FInv, GaugeTypeOK', [Next]_vars PROVE FInv'
    BY <1>1
  <2>1. CASE UNCHANGED vars
    BY <2>1 DEF vars, sessions, beats, answers, FInv, TypeOK, BeatsOrdered,
       ViewHolds
  <2>2. ASSUME NEW p \in Pods, PodStep(p)
        PROVE  FInv'
    BY <2>2, GoneStep, OtherStep DEF PodStep, Crash, Exit, Kill
  <2>3. ASSUME NEW c \in Conns, HandlerStep(c)
        PROVE  FInv'
    BY <2>3, OtherStep, BeatStep DEF HandlerStep
  <2>4. ASSUME NEW h \in Hosts, AgentStep(h) \/ HostStep(h)
        PROVE  FInv'
    BY <2>4, DialStep, OtherStep, BeatStep DEF AgentStep
  <2>5. ASSUME NEW k \in Requests, RequestStep(k)
        PROVE  FInv'
    BY <2>5, ViewStep
  <2> QED
    BY <2>1, <2>2, <2>3, <2>4, <2>5 DEF Next
<1> QED
  BY <1>2, FInvInit, GInvInvariant, PTL DEF Spec

\* Sessions, requests and counts keep their types.
THEOREM TypesAreKept == Spec => []TypeOK
<1>1. FInv => TypeOK
  BY DEF FInv
<1> QED
  BY <1>1, FInvInvariant, PTL

-----------------------------------------------------------------------------
(* Who points at which stream.                                             *)

\* An agent that is not idle has a stream; a handler has a replica and a host;
\* an entry is of a session of that replica and host, whose handler has not
\* returned; a session ends only when its stream is broken.
Wired ==
  /\ \A h \in Hosts : phase[h] = "idle" <=> using[h] = None
  /\ \A c \in Conns :
       /\ Active(c) => at[c] \in Pods /\ owner[c] \in Hosts
       /\ handler[c] = "closing" => stream[c] = "broken"
  /\ \A p \in Pods, h \in Hosts :
       LET c == agents[p][h] IN
       c # None =>
         at[c] = p /\ owner[c] = h /\ handler[c] \in {"loop", "beat", "closing"}

\* The steps after which the sessions are as they were.
LEMMA WiredAside ==
  ASSUME Wired, UNCHANGED <<agents, at, owner, stream, handler, phase, using>>
  PROVE  Wired'
  BY DEF Wired, Active

\* The end of a process takes its entries with its handlers.
LEMMA WiredGone ==
  ASSUME TypeOK, Wired, NEW p \in Pods, Gone(p)
  PROVE  Wired'
<1>1. /\ UNCHANGED <<at, owner, phase, using>>
      /\ \A q \in Pods, h \in Hosts :
           agents'[q][h] = IF q = p THEN None ELSE agents[q][h]
      /\ \A c \in Conns :
           /\ handler'[c] = IF at[c] = p /\ Active(c) THEN "done" ELSE handler[c]
           /\ stream[c] = "broken" => stream'[c] = "broken"
  BY DEF Gone, TypeOK
<1>2. \A q \in Pods, h \in Hosts : agents[q][h] \in Conns \cup {None}
  BY DEF TypeOK
<1>3. \A c \in Conns : Active(c)' => Active(c)
  BY <1>1 DEF Active
<1> QED
  BY <1>1, <1>2, <1>3 DEF Wired

\* A stream that is dialled had no handler, so no entry is of it.
LEMMA WiredDial ==
  ASSUME TypeOK, Wired, NEW h \in Hosts, NEW c \in Conns, NEW p \in Pods,
         Dial(h, c, p)
  PROVE  Wired'
<1>1. /\ ~Active(c)
      /\ agents' = agents
      /\ phase' = [phase EXCEPT ![h] = "registering"]
      /\ using' = [using EXCEPT ![h] = c]
      /\ at' = [at EXCEPT ![c] = p]
      /\ owner' = [owner EXCEPT ![c] = h]
      /\ stream' = [stream EXCEPT ![c] = "open"]
      /\ handler' = [handler EXCEPT ![c] = "auth"]
  BY DEF Dial, Free
<1>2. \A q \in Pods, e \in Hosts :
        agents[q][e] # None => agents[q][e] \in Conns \ {c}
  BY <1>1 DEF TypeOK, Wired, Active
<1> QED
  BY <1>1, <1>2, FleetConstants DEF TypeOK, Wired, Active

\* The handlers of the streams.
LEMMA WiredHandler ==
  ASSUME TypeOK, Wired, NEW c \in Conns, HandlerStep(c)
  PROVE  Wired'
<1>1. CASE RegisterAgent(c)
  BY <1>1 DEF RegisterAgent, TypeOK, Wired, Active
<1>2. CASE UnregisterAgent(c)
  BY <1>2 DEF UnregisterAgent, TypeOK, Wired, Active
<1>3. CASE \/ Accept(c) \/ Reject(c) \/ StoreMetrics(c) \/ StoreSeen(c)
           \/ EndSession(c) \/ Break(c)
  <2>1. /\ UNCHANGED <<agents, at, owner, phase, using>>
        /\ \A d \in Conns :
             /\ stream[d] = "broken" => stream'[d] = "broken"
             /\ Active(d)' => Active(d)
             /\ handler'[d] = "closing" => stream'[d] = "broken"
             /\ handler[d] \in {"loop", "beat", "closing"} =>
                  handler'[d] \in {"loop", "beat", "closing"}
    BY <1>3 DEF Accept, Reject, StoreMetrics, StoreSeen, EndSession, Break,
       TypeOK, Wired, Active
  <2>2. \A q \in Pods, h \in Hosts : agents[q][h] \in Conns \cup {None}
    BY DEF TypeOK
  <2> QED
    BY <2>1, <2>2 DEF Wired
<1> QED
  BY <1>1, <1>2, <1>3 DEF HandlerStep

\* The connect loops of the agents.
LEMMA WiredAgent ==
  ASSUME TypeOK, Wired, NEW h \in Hosts, AgentStep(h)
  PROVE  Wired'
<1>1. CASE \E c \in Conns, p \in Pods : Dial(h, c, p)
  BY <1>1, WiredDial
<1>2. CASE Heartbeat(h)
  BY <1>2, WiredAside DEF Heartbeat, sessions
<1>3. CASE BeginSession(h) \/ SessionLost(h) \/ AgentRestart(h)
  <2>1. /\ UNCHANGED <<agents, at, owner, handler>>
        /\ \A c \in Conns : stream[c] = "broken" => stream'[c] = "broken"
        /\ \A e \in Hosts : phase'[e] = "idle" <=> using'[e] = None
    <3>1. CASE BeginSession(h)
      BY <3>1 DEF BeginSession, TypeOK, Wired
    <3>2. CASE SessionLost(h)
      BY <3>2 DEF SessionLost, TypeOK, Wired
    <3>3. CASE AgentRestart(h)
      BY <3>3 DEF AgentRestart, TypeOK, Wired
    <3> QED
      BY <1>3, <3>1, <3>2, <3>3
  <2> QED
    BY <2>1 DEF Wired, Active
<1> QED
  BY <1>1, <1>2, <1>3 DEF AgentStep

\* So streams are always wired that way.
LEMMA WiredInvariant == Spec => []Wired
<1>1. Init => Wired
  BY DEF Init, Wired, Active
<1>2. TypeOK /\ Wired /\ [Next]_vars => Wired'
  <2> SUFFICES ASSUME TypeOK, Wired, [Next]_vars PROVE Wired'
    OBVIOUS
  <2>1. CASE UNCHANGED vars
    BY <2>1, WiredAside DEF vars, sessions
  <2>2. ASSUME NEW p \in Pods, PodStep(p)
        PROVE  Wired'
    BY <2>2, WiredGone, WiredAside DEF PodStep, Crash, Exit, Kill, Terminate,
       Start, sessions
  <2>3. ASSUME NEW h \in Hosts, HostStep(h)
        PROVE  Wired'
    BY <2>3, WiredAside DEF HostStep, sessions
  <2>4. ASSUME NEW k \in Requests, RequestStep(k)
        PROVE  Wired'
    BY <2>4, WiredAside DEF RequestStep, Lookup, ReadSeen, ReadMetrics, sessions
  <2> QED
    BY <2>1, <2>2, <2>3, <2>4, WiredHandler, WiredAgent DEF Next
<1>3. FInv => TypeOK
  BY DEF FInv
<1> QED
  BY <1>1, <1>2, <1>3, FInvInvariant, PTL DEF Spec

-----------------------------------------------------------------------------
(* What the answers show.                                                  *)

\* What a request has read is no older than what was shown when it began, and
\* no newer than what the session holds; it began between two heartbeats.
ViewFloor(v) ==
  /\ v.step \in {"lastSeen", "lastMetrics"} =>
       v.floor <= v.from /\ v.from <= lastSeen[v.on]
  /\ v.step = "lastMetrics" =>
       IF v.seen = Torn THEN v.from = 0
                        ELSE v.seen >= v.floor /\ v.seen <= lastSeen[v.on]
  /\ v.step = "done" =>
       /\ v.metrics >= v.floor
       /\ IF v.seen = Torn THEN v.floor = 0 ELSE v.seen >= v.floor

\* No answer has shown more than the session holds.
Floors ==
  /\ \A c \in Conns : shown[c] <= lastMetrics[c]
  /\ \A k \in Requests : ViewFloor(view[k])

\* Heartbeats only add to what a session holds, and a request that is lost
\* shows nothing.
LEMMA FloorsAside ==
  ASSUME FInv, Floors, FInv',
         \A c \in Conns : /\ lastSeen[c] <= lastSeen'[c]
                          /\ lastMetrics[c] <= lastMetrics'[c]
                          /\ shown'[c] = shown[c],
         \A k \in Requests : view'[k] = view[k] \/ view'[k].step = "lost"
  PROVE  Floors'
<1>1. ASSUME NEW c \in Conns
      PROVE  shown'[c] <= lastMetrics'[c]
  BY DEF Floors, FInv, TypeOK
<1>2. ASSUME NEW k \in Requests
      PROVE  ViewFloor(view[k])'
  <2>1. CASE view'[k].step = "lost"
    BY <2>1 DEF ViewFloor
  <2>2. CASE view'[k] = view[k]
    <3> DEFINE v == view[k]
    <3>1. v \in View /\ ViewFloor(v)
      BY DEF FInv, TypeOK, Floors
    <3>2. v.step \in {"lastSeen", "lastMetrics"} =>
            /\ lastSeen[v.on] <= lastSeen'[v.on]
            /\ lastSeen[v.on] \in Nat /\ lastSeen'[v.on] \in Nat
      BY FleetConstants DEF FInv, TypeOK, ViewHolds
    <3>3. v.from \in Nat /\ v.seen \in Nat \cup {Torn}
      BY <3>1, ViewFields, FleetConstants
    <3> HIDE DEF v
    <3> QED
      BY <2>2, <3>1, <3>2, <3>3 DEF ViewFloor, v
  <2> QED
    BY <2>1, <2>2
<1> QED
  BY <1>1, <1>2 DEF Floors

\* A stream that is dialled begins anew, and no request holds it.
LEMMA FloorsDial ==
  ASSUME FInv, Floors, NEW h \in Hosts, NEW c \in Conns, NEW p \in Pods,
         Dial(h, c, p)
  PROVE  Floors'
<1>1. /\ \A k \in Requests : view[k].on # c
      /\ UNCHANGED view
      /\ lastMetrics' = [lastMetrics EXCEPT ![c] = 0]
      /\ lastSeen' = [lastSeen EXCEPT ![c] = 0]
      /\ shown' = [shown EXCEPT ![c] = 0]
  BY DEF Dial, Free
<1>2. \A d \in Conns : shown'[d] <= lastMetrics'[d]
  BY <1>1 DEF Floors, FInv, TypeOK
<1>3. ASSUME NEW k \in Requests
      PROVE  ViewFloor(view[k])'
  <2>1. view[k].step \in {"lastSeen", "lastMetrics"} =>
          lastSeen'[view[k].on] = lastSeen[view[k].on]
    BY <1>1 DEF FInv, TypeOK, ViewHolds
  <2> QED
    BY <1>1, <2>1 DEF Floors, ViewFloor
<1> QED
  BY <1>2, <1>3 DEF Floors

\* A request starts between two heartbeats, from what the session holds then.
LEMMA FloorsLookup ==
  ASSUME FInv, Wired, Floors, NEW k \in Requests, NEW p \in Pods,
         NEW h \in Hosts, Lookup(k, p, h)
  PROVE  Floors'
<1> DEFINE c == agents[p][h]
<1>1. /\ UNCHANGED <<sessions, beats, shown>>
      /\ view' = [view EXCEPT ![k] =
           IF c = None THEN Found("missing", None, h, 0, 0)
                       ELSE Found("lastSeen", c, h, lastSeen[c], shown[c])]
  BY DEF Lookup
<1>2. /\ c \in Conns \cup {None} /\ view \in [Requests -> View]
      /\ lastSeen \in [Conns -> 0..MaxBeats]
      /\ shown \in [Conns -> 0..MaxBeats]
      /\ 0 \in 0..MaxBeats
  BY FleetConstants DEF FInv, TypeOK
<1>3. \A j \in Requests \ {k} : ViewFloor(view[j])'
  BY <1>1, <1>2 DEF Floors, ViewFloor, beats
<1>4. ViewFloor(view[k])'
  <2>1. CASE c = None
    <3>1. view'[k] = Found("missing", None, h, 0, 0)
      BY <1>1, <1>2, <2>1
    <3>2. view'[k].step = "missing"
      BY <3>1 DEF Found
    <3> QED
      BY <3>2 DEF ViewFloor
  <2>2. CASE c # None
    <3>1. c \in Conns /\ at[c] = p /\ handler[c] \in {"loop", "beat", "closing"}
      BY <1>2, <2>2 DEF Wired
    <3>2. handler[c] # "beat"
      BY <3>1 DEF Lookup, Locked
    <3>3. lastMetrics[c] = lastSeen[c]
      BY <3>1, <3>2 DEF FInv, BeatsOrdered
    <3>4. /\ shown[c] <= lastSeen[c]
          /\ lastSeen[c] \in 0..MaxBeats /\ shown[c] \in 0..MaxBeats
      BY <1>2, <3>1, <3>3 DEF Floors
    <3>5. view'[k] = Found("lastSeen", c, h, lastSeen[c], shown[c])
      BY <1>1, <1>2, <2>2
    <3>6. /\ view'[k].step = "lastSeen" /\ view'[k].on = c
          /\ view'[k].from = lastSeen[c] /\ view'[k].floor = shown[c]
      BY <3>5 DEF Found
    <3>7. lastSeen'[c] = lastSeen[c]
      BY <1>1 DEF beats
    <3> QED
      BY <3>4, <3>6, <3>7 DEF ViewFloor
  <2> QED
    BY <2>1, <2>2
<1>5. \A d \in Conns : shown'[d] <= lastMetrics'[d]
  BY <1>1 DEF Floors, beats
<1> QED
  BY <1>3, <1>4, <1>5 DEF Floors

\* Then it reads what the session has held since.
LEMMA FloorsReadSeen ==
  ASSUME FInv, Floors, NEW k \in Requests, ReadSeen(k)
  PROVE  Floors'
<1> DEFINE v == view[k]
           d == view[k].on
<1>1. PICK t \in (v.from..lastSeen[d])
              \cup (IF v.from = 0 /\ lastSeen[d] > 0 THEN {Torn} ELSE {}) :
        /\ v.step = "lastSeen"
        /\ view' = [view EXCEPT ![k] = Goes(v, "lastMetrics", d, t, 0)]
        /\ UNCHANGED <<beats, shown>>
  BY DEF ReadSeen, Since
<1>2. /\ view \in [Requests -> View] /\ v \in View /\ d \in Conns
      /\ ViewFloor(v)
      /\ lastSeen[d] \in 0..MaxBeats
  BY <1>1 DEF FInv, TypeOK, ViewHolds, Floors
<1>3. v.from \in 0..MaxBeats /\ v.floor \in 0..MaxBeats
  BY <1>2, ViewFields
<1>4. \A j \in Requests \ {k} : ViewFloor(view[j])'
  BY <1>1, <1>2 DEF Floors, ViewFloor, beats
<1>5. /\ view'[k] = Goes(v, "lastMetrics", d, t, 0)
      /\ view'[k].step = "lastMetrics" /\ view'[k].on = d
      /\ view'[k].from = v.from /\ view'[k].floor = v.floor
      /\ view'[k].seen = t
  BY <1>1, <1>2 DEF Goes
<1>6. /\ v.floor <= v.from /\ v.from <= lastSeen[d]
      /\ lastSeen'[d] = lastSeen[d]
  BY <1>1, <1>2 DEF ViewFloor, beats
<1>7. IF t = Torn THEN v.from = 0 ELSE t >= v.floor /\ t <= lastSeen[d]
  BY <1>1, <1>2, <1>3, <1>6, FleetConstants
<1>8. ViewFloor(view[k])'
  BY <1>5, <1>6, <1>7 DEF ViewFloor
<1>9. \A e \in Conns : shown'[e] <= lastMetrics'[e]
  BY <1>1 DEF Floors, beats
<1> QED
  BY <1>4, <1>8, <1>9 DEF Floors

\* The answer that is written shows nothing older than its floor.
LEMMA FloorsReadMetrics ==
  ASSUME FInv, Floors, NEW k \in Requests, ReadMetrics(k)
  PROVE  Floors'
<1> DEFINE v == view[k]
           d == view[k].on
           s == view[k].seen
<1>1. PICK m \in v.from..lastMetrics[d] :
        /\ v.step = "lastMetrics"
        /\ view' = [view EXCEPT ![k] = Goes(v, "done", None, s, m)]
        /\ shown' = [shown EXCEPT ![d] = Newest({@, m} \cup ({s} \ {Torn}))]
        /\ UNCHANGED beats
  BY DEF ReadMetrics, Since
<1>2. /\ view \in [Requests -> View] /\ v \in View /\ d \in Conns
      /\ ViewFloor(v)
      /\ shown \in [Conns -> 0..MaxBeats] /\ shown[d] \in 0..MaxBeats
      /\ lastSeen[d] \in 0..MaxBeats /\ lastMetrics[d] \in 0..MaxBeats
      /\ lastSeen[d] <= lastMetrics[d]
      /\ shown[d] <= lastMetrics[d]
  BY <1>1 DEF FInv, TypeOK, ViewHolds, Floors, BeatsOrdered
<1>3. /\ v.from \in 0..MaxBeats /\ v.floor \in 0..MaxBeats
      /\ s \in (0..MaxBeats) \cup {Torn}
  BY <1>2, ViewFields
<1>4. \A j \in Requests \ {k} : ViewFloor(view[j])'
  BY <1>1, <1>2 DEF Floors, ViewFloor, beats
<1>5. /\ view'[k].step = "done" /\ view'[k].floor = v.floor
      /\ view'[k].seen = s /\ view'[k].metrics = m
  BY <1>1, <1>2 DEF Goes
<1>6. /\ v.floor <= v.from
      /\ IF s = Torn THEN v.from = 0 ELSE s >= v.floor /\ s <= lastSeen[d]
  BY <1>1, <1>2 DEF ViewFloor
<1>7. ViewFloor(view[k])'
  <2>1. m >= v.floor
    BY <1>1, <1>2, <1>3, <1>6
  <2>2. IF s = Torn THEN v.floor = 0 ELSE s >= v.floor
    BY <1>3, <1>6
  <2> HIDE DEF v, s
  <2> QED
    BY <1>5, <2>1, <2>2 DEF ViewFloor
<1>8. \A e \in Conns : shown'[e] <= lastMetrics'[e]
  <2> DEFINE n == Newest({shown[d], m} \cup ({s} \ {Torn}))
  <2>1. shown' = [shown EXCEPT ![d] = n]
    BY <1>1, <1>2
  <2>2. n <= lastMetrics[d]
    <3> HIDE DEF s, d, v
    <3>1. shown[d] \in Nat /\ m \in Nat /\ s \in Nat \cup {Torn}
      BY <1>1, <1>2, <1>3
    <3>2. n \in {shown[d], m} \cup ({s} \ {Torn})
      BY <3>1, NewestOf
    <3>3. m <= lastMetrics[d] /\ (s # Torn => s <= lastMetrics[d])
      BY <1>1, <1>2, <1>3, <1>6, FleetConstants
    <3> QED
      BY <1>2, <3>2, <3>3
  <2> HIDE DEF n
  <2> QED
    BY <1>1, <1>2, <2>1, <2>2 DEF Floors, beats
<1> QED
  BY <1>4, <1>7, <1>8 DEF Floors

\* Every other step leaves what answers have shown, and what was read.
LEMMA FloorsStep ==
  ASSUME FInv, Wired, Floors, FInv', [Next]_vars
  PROVE  Floors'
<1>0. /\ lastSeen \in [Conns -> 0..MaxBeats]
      /\ lastMetrics \in [Conns -> 0..MaxBeats]
      /\ \A c \in Conns : /\ lastSeen[c] <= lastSeen[c]
                          /\ lastMetrics[c] <= lastMetrics[c]
  BY DEF FInv, TypeOK
<1>1. CASE UNCHANGED <<lastSeen, lastMetrics, answers>>
  BY <1>0, <1>1, FloorsAside DEF answers
<1>2. ASSUME NEW p \in Pods, PodStep(p)
      PROVE  Floors'
  <2>1. CASE Gone(p)
    <3>1. UNCHANGED <<lastSeen, lastMetrics, shown>>
      BY <2>1 DEF Gone, beats
    <3>2. \A k \in Requests : view'[k] = view[k] \/ view'[k].step = "lost"
      BY <2>1 DEF Gone, Goes, FInv, TypeOK
    <3> QED
      BY <1>0, <3>1, <3>2, FloorsAside
  <2>2. CASE Terminate(p) \/ Start(p)
    BY <1>1, <2>2 DEF Terminate, Start, beats
  <2> QED
    BY <1>2, <2>1, <2>2 DEF PodStep, Crash, Exit, Kill
<1>3. ASSUME NEW c \in Conns, HandlerStep(c)
      PROVE  Floors'
  <2>1. CASE StoreMetrics(c)
    <3>1. UNCHANGED <<lastSeen, view, shown>>
      BY <2>1 DEF StoreMetrics, answers
    <3>2. \A d \in Conns : lastMetrics[d] <= lastMetrics'[d]
      BY <1>0, <2>1 DEF StoreMetrics
    <3> QED
      BY <1>0, <3>1, <3>2, FloorsAside
  <2>2. CASE StoreSeen(c)
    <3>1. UNCHANGED <<lastMetrics, view, shown>>
      BY <2>2 DEF StoreSeen, answers
    <3>2. \A d \in Conns : lastSeen[d] <= lastSeen'[d]
      BY <1>0, <2>2 DEF StoreSeen
    <3> QED
      BY <1>0, <3>1, <3>2, FloorsAside
  <2>3. CASE \/ Accept(c) \/ Reject(c) \/ RegisterAgent(c)
             \/ EndSession(c) \/ UnregisterAgent(c) \/ Break(c)
    BY <1>1, <2>3 DEF Accept, Reject, RegisterAgent, EndSession,
       UnregisterAgent, Break, beats
  <2> QED
    BY <1>3, <2>1, <2>2, <2>3 DEF HandlerStep
<1>4. ASSUME NEW h \in Hosts, AgentStep(h) \/ HostStep(h)
      PROVE  Floors'
  <2>1. CASE \E c \in Conns, p \in Pods : Dial(h, c, p)
    BY <2>1, FloorsDial
  <2>2. CASE \/ BeginSession(h) \/ SessionLost(h) \/ Heartbeat(h)
             \/ AgentRestart(h) \/ HostStep(h)
    BY <1>1, <2>2 DEF BeginSession, SessionLost, Heartbeat, AgentRestart,
       HostStep, beats
  <2> QED
    BY <1>4, <2>1, <2>2 DEF AgentStep
<1>5. ASSUME NEW k \in Requests, RequestStep(k)
      PROVE  Floors'
  BY <1>5, FloorsLookup, FloorsReadSeen, FloorsReadMetrics DEF RequestStep
<1>6. CASE UNCHANGED vars
  BY <1>1, <1>6 DEF vars, beats
<1> QED
  BY <1>2, <1>3, <1>4, <1>5, <1>6 DEF Next

\* For any number of replicas, sessions, heartbeats and requests: an answer of
\* handleGetServer never goes back behind what an answer had shown of the
\* session before the request looked it up, although both are read without the
\* lock, each as it was at any time since.
THEOREM ViewsOnlyAdvance == Spec => []ViewsAdvance
<1>1. Init => Floors
  BY DEF Init, Floors, ViewFloor, NoView
<1>2. FInv /\ Wired /\ Floors /\ FInv' /\ [Next]_vars => Floors'
  BY FloorsStep
<1>3. Floors => ViewsAdvance
  BY DEF Floors, ViewFloor, ViewsAdvance
<1> QED
  BY <1>1, <1>2, <1>3, FInvInvariant, WiredInvariant, PTL DEF Spec

-----------------------------------------------------------------------------
(* Who stays in the registry.                                              *)

\* What is said of h in StaysBack.
Kept(h) == NothingStale(h)' /\ (Reachable(h) => Reachable(h)')

\* Steps that leave the sessions and the replicas as they are.
LEMMA KeptAside ==
  ASSUME NEW h \in Hosts, NothingStale(h),
         UNCHANGED <<pod, agents, at, owner, stream, handler, phase, using>>
  PROVE  Kept(h)
  BY DEF Kept, NothingStale, Reachable, Active

\* A process that ends while it drains takes its handlers with it; a session
\* that counts is in another.
LEMMA KeptGone ==
  ASSUME TypeOK, Wired, NEW h \in Hosts, NothingStale(h),
         NEW p \in Pods, pod[p] = "draining", Gone(p)
  PROVE  Kept(h)
<1>1. /\ UNCHANGED <<at, owner, phase, using>>
      /\ \A q \in Pods :
           /\ q # p => pod'[q] = pod[q]
           /\ agents'[q][h] = IF q = p THEN None ELSE agents[q][h]
      /\ \A c \in Conns :
           /\ handler'[c] = IF at[c] = p /\ Active(c) THEN "done" ELSE handler[c]
           /\ stream'[c] = IF at[c] = p /\ stream[c] = "open" THEN "broken"
                                                             ELSE stream[c]
  BY DEF Gone, TypeOK
<1>2. Reachable(h) => Reachable(h)'
  BY <1>1 DEF Reachable
<1>3. ASSUME NEW c \in Conns, owner[c] = h, Active(c)'
      PROVE  /\ using[h] = c /\ stream'[c] = "open"
             /\ handler'[c] \in {"auth", "accepted"} \/ agents'[at[c]][h] = c
  <2>1. Active(c) /\ at[c] # p /\ at[c] \in Pods
    BY <1>1, <1>3 DEF Active, Wired
  <2> QED
    BY <1>1, <1>3, <2>1 DEF NothingStale
<1> QED
  BY <1>1, <1>2, <1>3 DEF Kept, NothingStale

\* A stream that is dialled is the only one of its host.
LEMMA KeptDial ==
  ASSUME TypeOK, Wired, NEW h \in Hosts, NothingStale(h),
         NEW e \in Hosts, NEW c \in Conns, NEW p \in Pods, Dial(e, c, p)
  PROVE  Kept(h)
<1>1. /\ phase[e] = "idle" /\ ~Active(c) /\ using[h] # c
      /\ UNCHANGED <<agents, pod>>
      /\ phase' = [phase EXCEPT ![e] = "registering"]
      /\ using' = [using EXCEPT ![e] = c]
      /\ at' = [at EXCEPT ![c] = p]
      /\ owner' = [owner EXCEPT ![c] = e]
      /\ stream' = [stream EXCEPT ![c] = "open"]
      /\ handler' = [handler EXCEPT ![c] = "auth"]
  BY DEF Dial, Free
<1>2. Reachable(h) => Reachable(h)'
  BY <1>1 DEF Reachable, TypeOK
<1>3. e = h => \A d \in Conns : owner[d] = h => ~Active(d)
  BY <1>1, FleetConstants DEF NothingStale, Wired
<1>4. NothingStale(h)'
  BY <1>1, <1>3 DEF NothingStale, TypeOK, Active
<1> QED
  BY <1>2, <1>4 DEF Kept

\* Of the handlers only that of the session itself goes on, and it neither
\* ends nor removes anything while the stream works.
LEMMA KeptHandler ==
  ASSUME TypeOK, Wired, NEW h \in Hosts, NothingStale(h), budget.faults = 0,
         NEW c \in Conns, HandlerStep(c)
  PROVE  Kept(h)
<1>1. CASE owner[c] # h
  <2>1. /\ UNCHANGED <<pod, at, owner, phase, using>>
        /\ \A d \in Conns \ {c} : stream'[d] = stream[d] /\ handler'[d] = handler[d]
        /\ \A q \in Pods : agents'[q][h] = agents[q][h]
    BY <1>1 DEF HandlerStep, Accept, Reject, RegisterAgent, StoreMetrics,
       StoreSeen, EndSession, UnregisterAgent, Break, TypeOK
  <2>2. \A d \in Conns : owner[d] = h /\ Active(d)' => d # c /\ Active(d) /\ at[d] \in Pods
    BY <1>1, <2>1 DEF Active, Wired
  <2> QED
    BY <2>1, <2>2 DEF Kept, NothingStale, Reachable
<1>2. CASE owner[c] = h
  <2>1. Active(c)
    BY DEF HandlerStep, Accept, Reject, RegisterAgent, StoreMetrics, StoreSeen,
       EndSession, UnregisterAgent, Break, Spend, Active
  <2>2. using[h] = c /\ stream[c] = "open" /\ at[c] \in Pods
    BY <1>2, <2>1 DEF NothingStale, Wired
  <2>3. Accept(c) \/ RegisterAgent(c) \/ StoreMetrics(c) \/ StoreSeen(c)
    BY <2>2 DEF HandlerStep, Reject, EndSession, UnregisterAgent, Break, Spend,
       Wired
  <2>4. /\ UNCHANGED <<pod, at, owner, stream, phase, using>>
        /\ \A d \in Conns \ {c} : handler'[d] = handler[d]
        /\ \A q \in Pods : agents'[q][h] = agents[q][h] \/ agents'[q][h] = c
        /\ handler'[c] \in {"auth", "accepted"} \/ agents'[at[c]][h] = c
    BY <1>2, <2>1, <2>2, <2>3 DEF Accept, RegisterAgent, StoreMetrics, StoreSeen,
       TypeOK, NothingStale
  <2>5. \A d \in Conns : owner[d] = h /\ Active(d)' => d = c
    BY <2>2, <2>4 DEF NothingStale, Active
  <2> QED
    BY <2>2, <2>4, <2>5 DEF Kept, NothingStale, Reachable
<1> QED
  BY <1>1, <1>2

\* An agent leaves only a stream that is broken, and that has no handler then.
LEMMA KeptAgent ==
  ASSUME TypeOK, Wired, NEW h \in Hosts, NothingStale(h), budget.faults = 0,
         NEW e \in Hosts, AgentStep(e)
  PROVE  Kept(h)
<1>1. CASE \E c \in Conns, p \in Pods : Dial(e, c, p)
  BY <1>1, KeptDial
<1>2. CASE Heartbeat(e)
  BY <1>2, KeptAside DEF Heartbeat, sessions
<1>3. CASE BeginSession(e)
  BY <1>3 DEF BeginSession, TypeOK, Kept, NothingStale, Reachable, Active
<1>4. CASE SessionLost(e)
  <2>1. /\ stream[using[e]] = "broken"
        /\ UNCHANGED <<pod, agents, at, owner, stream, handler>>
        /\ phase' = [phase EXCEPT ![e] = "idle"]
        /\ using' = [using EXCEPT ![e] = None]
    BY <1>4 DEF SessionLost
  <2>2. ASSUME Reachable(h)
        PROVE  stream[using[h]] = "open"
    <3>1. PICK p \in Pods : agents[p][h] = using[h] /\ phase[h] = "session"
      BY <2>2 DEF Reachable
    <3>2. using[h] \in Conns
      BY <3>1 DEF Wired, TypeOK
    <3>3. owner[using[h]] = h /\ Active(using[h])
      BY <3>1, <3>2, FleetConstants DEF Wired, Active
    <3> QED
      BY <3>2, <3>3 DEF NothingStale
  <2>3. e = h => ~Reachable(h)
    BY <2>1, <2>2
  <2>4. Reachable(h) => Reachable(h)'
    BY <2>1, <2>3 DEF Reachable, TypeOK
  <2>5. NothingStale(h)'
    BY <2>1 DEF NothingStale, Active, TypeOK
  <2> QED
    BY <2>4, <2>5 DEF Kept
<1> QED
  BY <1>1, <1>2, <1>3, <1>4 DEF AgentStep, AgentRestart, Spend

\* For any replicas, hosts and streams: once no more faults come, no stale
\* handler appears, and a session that is in the registry stays there.
THEOREM BackForGood == Spec => StaysBack
<1>1. ASSUME TypeOK, Wired, [Next]_vars, NEW h \in Hosts, budget.faults = 0,
             NothingStale(h)
      PROVE  Kept(h)
  <2>1. CASE UNCHANGED vars
    BY <1>1, <2>1, KeptAside DEF vars, sessions
  <2>2. ASSUME NEW p \in Pods, PodStep(p)
        PROVE  Kept(h)
    <3>1. CASE Exit(p) \/ Kill(p)
      BY <1>1, <3>1, KeptGone DEF Exit, Kill
    <3>2. CASE Start(p)
      BY <1>1, <3>2 DEF Start, sessions, Kept, NothingStale, Reachable, Active,
         TypeOK
    <3> QED
      BY <1>1, <2>2, <3>1, <3>2 DEF PodStep, Crash, Terminate, Spend
  <2>3. ASSUME NEW c \in Conns, HandlerStep(c)
        PROVE  Kept(h)
    BY <1>1, <2>3, KeptHandler
  <2>4. ASSUME NEW e \in Hosts, AgentStep(e)
        PROVE  Kept(h)
    BY <1>1, <2>4, KeptAgent
  <2>5. ASSUME NEW e \in Hosts, HostStep(e)
        PROVE  Kept(h)
    BY <1>1, <2>5, KeptAside DEF HostStep, sessions
  <2>6. ASSUME NEW k \in Requests, RequestStep(k)
        PROVE  Kept(h)
    BY <1>1, <2>6, KeptAside DEF RequestStep, Lookup, ReadSeen, ReadMetrics,
       sessions
  <2> QED
    BY <1>1, <2>1, <2>2, <2>3, <2>4, <2>5, <2>6 DEF Next
<1>2. FInv => TypeOK
  BY DEF FInv
<1>3. TypeOK /\ Wired /\ [Next]_vars =>
        [\A h \in Hosts :
           budget.faults = 0 /\ NothingStale(h) =>
             NothingStale(h)' /\ (Reachable(h) => Reachable(h)')]_vars
  BY <1>1 DEF Kept
<1> QED
  BY <1>2, <1>3, FInvInvariant, WiredInvariant, PTL DEF Spec, StaysBack

\* A request that finds nothing has looked in the registry of one replica.
LEMMA MissingLooked ==
  ASSUME TypeOK, [Next]_vars, NEW k \in Requests, NEW h \in Hosts,
         view[k].step = "idle", view'[k].step = "missing", view'[k].host = h
  PROVE  \E p \in Pods : agents[p][h] = None
<1>1. ASSUME NEW p \in Pods, Gone(p)
      PROVE  FALSE
  <2>1. view'[k] = view[k] \/ view'[k].step = "lost"
    BY <1>1 DEF Gone, Goes
  <2> QED
    BY <2>1
<1>2. view' # view
  OBVIOUS
<1>3. PICK j \in Requests : RequestStep(j)
  BY <1>1, <1>2 DEF Next, PodStep, Crash, Terminate, Exit, Kill, Start,
     HandlerStep, Accept, Reject, RegisterAgent, StoreMetrics, StoreSeen,
     EndSession, UnregisterAgent, Break, AgentStep, Dial, BeginSession,
     SessionLost, Heartbeat, AgentRestart, HostStep, vars, answers
<1>4. j = k
  BY <1>3 DEF RequestStep, Lookup, ReadSeen, ReadMetrics, TypeOK
<1>5. ~ReadSeen(k) /\ ~ReadMetrics(k)
  BY DEF ReadSeen, ReadMetrics
<1>6. PICK p \in Pods, e \in Hosts : Lookup(k, p, e)
  BY <1>3, <1>4, <1>5 DEF RequestStep
<1>7. agents[p][e] = None /\ e = h
  BY <1>6 DEF Lookup, Found, TypeOK
<1> QED
  BY <1>7

\* No two handlers of one host are running.
OneHandler ==
  \A c, d \in Conns :
    Active(c) /\ Active(d) /\ owner[c] = owner[d] => c = d

\* A session whose handler is in its loop is the one in the registry.
Listed ==
  \A c \in Conns :
    handler[c] \in {"loop", "beat"} => agents[at[c]][owner[c]] = c

\* Only the end of another handler of the host, or its registration, could take
\* the entry of a session away.
LEMMA ListedStep ==
  ASSUME TypeOK, Wired, OneHandler, Listed, [Next]_vars
  PROVE  Listed'
<1>1. CASE UNCHANGED <<agents, at, owner, handler>>
  BY <1>1 DEF Listed
<1>2. ASSUME NEW p \in Pods, PodStep(p)
      PROVE  Listed'
  <2>1. CASE Gone(p)
    <3>1. /\ UNCHANGED <<at, owner>>
          /\ \A q \in Pods : q # p => agents'[q] = agents[q]
          /\ \A c \in Conns :
               handler'[c] = IF at[c] = p /\ Active(c) THEN "done"
                                                      ELSE handler[c]
      BY <2>1 DEF Gone, TypeOK
    <3>2. ASSUME NEW c \in Conns, handler'[c] \in {"loop", "beat"}
          PROVE  agents'[at'[c]][owner'[c]] = c
      <4>1. Active(c) /\ at[c] # p /\ handler[c] \in {"loop", "beat"}
        BY <3>1, <3>2 DEF Active
      <4>2. at[c] \in Pods
        BY <4>1 DEF Wired
      <4> QED
        BY <3>1, <4>1, <4>2 DEF Listed
    <3> QED
      BY <3>2 DEF Listed
  <2>2. CASE Terminate(p) \/ Start(p)
    BY <1>1, <2>2 DEF Terminate, Start, sessions
  <2> QED
    BY <1>2, <2>1, <2>2 DEF PodStep, Crash, Exit, Kill
<1>3. ASSUME NEW c \in Conns, HandlerStep(c)
      PROVE  Listed'
  <2>1. CASE RegisterAgent(c) \/ UnregisterAgent(c)
    <3>1. /\ UNCHANGED <<at, owner>>
          /\ Active(c)
          /\ \A d \in Conns \ {c} : handler'[d] = handler[d]
          /\ \/ handler'[c] = "loop" /\ agents'[at[c]][owner[c]] = c
             \/ handler'[c] = "done"
          /\ \A q \in Pods, h \in Hosts :
               <<q, h>> # <<at[c], owner[c]>> => agents'[q][h] = agents[q][h]
      BY <2>1 DEF RegisterAgent, UnregisterAgent, TypeOK, Wired, Active
    <3>2. ASSUME NEW d \in Conns, handler'[d] \in {"loop", "beat"}
          PROVE  agents'[at'[d]][owner'[d]] = d
      <4>1. CASE d = c
        BY <3>1, <3>2, <4>1
      <4>2. CASE d # c
        <5>1. handler[d] \in {"loop", "beat"} /\ Active(d)
          BY <3>1, <3>2, <4>2 DEF Active
        <5>2. owner[d] # owner[c]
          BY <3>1, <4>2, <5>1 DEF OneHandler
        <5>3. at[d] \in Pods /\ owner[d] \in Hosts
          BY <5>1 DEF Wired
        <5> QED
          BY <3>1, <5>1, <5>2, <5>3 DEF Listed
      <4> QED
        BY <4>1, <4>2
    <3> QED
      BY <3>2 DEF Listed
  <2>2. CASE \/ Accept(c) \/ Reject(c) \/ StoreMetrics(c) \/ StoreSeen(c)
             \/ EndSession(c) \/ Break(c)
    <3>1. /\ UNCHANGED <<agents, at, owner>>
          /\ \A d \in Conns : handler'[d] \in {"loop", "beat"} =>
                                handler[d] \in {"loop", "beat"}
      BY <2>2 DEF Accept, Reject, StoreMetrics, StoreSeen, EndSession, Break,
         TypeOK
    <3> QED
      BY <3>1 DEF Listed
  <2> QED
    BY <1>3, <2>1, <2>2 DEF HandlerStep
<1>4. ASSUME NEW h \in Hosts, AgentStep(h)
      PROVE  Listed'
  <2>1. ASSUME NEW c \in Conns, NEW p \in Pods, Dial(h, c, p)
        PROVE  Listed'
    <3>1. /\ UNCHANGED agents
          /\ handler'[c] = "auth"
          /\ \A d \in Conns \ {c} : /\ handler'[d] = handler[d]
                                    /\ at'[d] = at[d] /\ owner'[d] = owner[d]
      BY <2>1 DEF Dial, TypeOK
    <3> QED
      BY <3>1 DEF Listed
  <2>2. CASE \/ BeginSession(h) \/ SessionLost(h) \/ Heartbeat(h)
             \/ AgentRestart(h)
    BY <1>1, <2>2 DEF BeginSession, SessionLost, Heartbeat, AgentRestart,
       sessions
  <2> QED
    BY <1>4, <2>1, <2>2 DEF AgentStep
<1>5. ASSUME NEW h \in Hosts, HostStep(h)
      PROVE  Listed'
  BY <1>1, <1>5 DEF HostStep, sessions
<1>6. ASSUME NEW k \in Requests, RequestStep(k)
      PROVE  Listed'
  BY <1>1, <1>6 DEF RequestStep, Lookup, ReadSeen, ReadMetrics, sessions
<1>7. CASE UNCHANGED vars
  BY <1>1, <1>7 DEF vars, sessions
<1> QED
  BY <1>2, <1>3, <1>4, <1>5, <1>6, <1>7 DEF Next

\* The handler of an agent's stream is a handler of that host.
Owned == \A h \in Hosts : using[h] # None => owner[using[h]] = h

\* The stream that an agent uses is its own, before and after each step.
LEMMA OwnedStep ==
  ASSUME TypeOK, Owned, [Next]_vars
  PROVE  Owned'
<1>1. CASE /\ UNCHANGED owner
           /\ \A h \in Hosts : using'[h] \in {using[h], None}
  BY <1>1 DEF Owned
<1>2. CASE UNCHANGED <<owner, using>>
  BY <1>1, <1>2
<1>3. ASSUME NEW h \in Hosts, AgentStep(h)
      PROVE  Owned'
  <2>1. ASSUME NEW c \in Conns, NEW p \in Pods, Dial(h, c, p)
        PROVE  Owned'
    <3>1. /\ \A e \in Hosts : using[e] # c
          /\ using' = [using EXCEPT ![h] = c]
          /\ owner' = [owner EXCEPT ![c] = h]
      BY <2>1 DEF Dial, Free
    <3> QED
      BY <3>1 DEF Owned, TypeOK
  <2>2. CASE BeginSession(h) \/ Heartbeat(h)
    BY <1>2, <2>2 DEF BeginSession, Heartbeat, sessions
  <2>3. CASE SessionLost(h) \/ AgentRestart(h)
    BY <1>1, <2>3 DEF SessionLost, AgentRestart, TypeOK
  <2> QED
    BY <1>3, <2>1, <2>2, <2>3 DEF AgentStep
<1>4. CASE UNCHANGED vars
  BY <1>2, <1>4 DEF vars, sessions
<1>5. ASSUME NEW p \in Pods, PodStep(p)
      PROVE  Owned'
  BY <1>2, <1>5 DEF PodStep, Crash, Terminate, Exit, Kill, Start, Gone,
     sessions
<1>6. ASSUME NEW c \in Conns, HandlerStep(c)
      PROVE  Owned'
  BY <1>2, <1>6 DEF HandlerStep, Accept, Reject, RegisterAgent, StoreMetrics,
     StoreSeen, EndSession, UnregisterAgent, Break
<1>7. ASSUME NEW h \in Hosts, HostStep(h)
      PROVE  Owned'
  BY <1>2, <1>7 DEF HostStep, sessions
<1>8. ASSUME NEW k \in Requests, RequestStep(k)
      PROVE  Owned'
  BY <1>2, <1>8 DEF RequestStep, Lookup, ReadSeen, ReadMetrics, sessions
<1> QED
  BY <1>3, <1>4, <1>5, <1>6, <1>7, <1>8 DEF Next

\* The promise of the runbook holds, whatever fails, restarts and reconnects,
\* with a single replica as long as no two handlers of one host run at once.
\* Each of the two conditions is needed: fleet_replicas misses a host that is
\* online at another replica, session_listed one whose entry the handler of an
\* earlier stream has removed.
THEOREM OneReplicaFinds ==
  ASSUME NEW p, Pods = {p}
  PROVE  Spec /\ []OneHandler => SessionFound
<1>1. ASSUME TypeOK, Wired, Listed, Owned, [Next]_vars, NEW k \in Requests,
             NEW h \in Hosts, view[k].step = "idle",
             view'[k].step = "missing", view'[k].host = h
      PROVE  ~Connected(h)
  <2> SUFFICES ASSUME Connected(h) PROVE FALSE
    OBVIOUS
  <2> DEFINE c == using[h]
  <2>1. c \in Conns /\ c # None /\ handler[c] \in {"loop", "beat"}
    BY <1>1, FleetConstants DEF Connected, TypeOK, Wired
  <2>2. owner[c] = h /\ at[c] = p /\ agents[at[c]][owner[c]] = c
    BY <1>1, <2>1 DEF Owned, Wired, Listed, Active
  <2>3. agents[p][h] = None
    BY <1>1, MissingLooked
  <2> QED
    BY <2>1, <2>2, <2>3
<1>2. FInv => TypeOK
  BY DEF FInv
<1>3. Init => Listed /\ Owned
  BY DEF Init, Listed, Owned
<1>4. TypeOK /\ Wired /\ OneHandler /\ Listed /\ Owned /\ [Next]_vars =>
        Listed' /\ Owned'
  BY ListedStep, OwnedStep
<1>5. TypeOK /\ Wired /\ Listed /\ Owned /\ [Next]_vars =>
        [\A k \in Requests, h \in Hosts :
           view[k].step = "idle" /\ view'[k].step = "missing" /\ view'[k].host = h
             => ~ Connected(h)]_vars
  BY <1>1
<1> QED
  BY <1>2, <1>3, <1>4, <1>5, FInvInvariant, WiredInvariant, PTL
     DEF Spec, SessionFound
=============================================================================
