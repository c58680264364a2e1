-------------------------- MODULE LocalStackProofs --------------------------
(***************************************************************************)
(* What holds of the local environment for any list of metrics, any        *)
(* requests and any number of stops.  The proof follows the numbers of the *)
(* bootstrap's steps and of the runner's locations, so it begins with what *)
(* these two sequences are.  The inductive invariant then has three parts: *)
(* the types together with the engine's lock, what a run has written       *)
(* before the location it is at, and what a bootstrap has created and      *)
(* seeded before the step it is at.                                        *)
(***************************************************************************)
EXTENDS LocalStack, TLAPS

-----------------------------------------------------------------------------
(* The locations and the steps, by their numbers *)

Names == {"bronze", "silver"} \cup STRING

LEMMA MetricsShape ==
    /\ Metrics \in Seq(Names) /\ Len(Metrics) \in Nat \ {0}
    /\ DOMAIN Metrics = 1..Len(Metrics)
    /\ \A i \in DOMAIN Metrics : Metrics[i] \notin {"bronze", "silver"}
BY MetricsAssumption DEF Names

(* bronze, silver, then the metrics *)
LEMMA TablesShape ==
    /\ Tables \in Seq(Names) /\ Len(Tables) = Len(Metrics) + 2
    /\ DOMAIN Tables = 1..Len(Metrics) + 2
    /\ Tables[1] = "bronze" /\ Tables[2] = "silver"
    /\ \A i \in DOMAIN Metrics : Tables[i + 2] = Metrics[i]
<1>1. Metrics \in Seq(Names)
  BY MetricsShape
<1>2. "bronze" \in Names /\ "silver" \in Names
  BY DEF Names
<1>3. \A x, y \in Names : LET s == <<x, y>> \o Metrics IN
        /\ s \in Seq(Names) /\ Len(s) = Len(Metrics) + 2
        /\ DOMAIN s = 1..Len(Metrics) + 2
        /\ s[1] = x /\ s[2] = y
        /\ \A i \in DOMAIN Metrics : s[i + 2] = Metrics[i]
  BY <1>1
<1> QED
  BY <1>2, <1>3, Zenon DEF Tables

(* silver, then the metrics *)
LEMMA OutputsList ==
    /\ Outputs \in Seq(Names) /\ Len(Outputs) = Len(Metrics) + 1
    /\ DOMAIN Outputs = 1..Len(Metrics) + 1
    /\ Outputs[1] = "silver"
    /\ \A i \in DOMAIN Metrics : Outputs[i + 1] = Metrics[i]
<1>1. Metrics \in Seq(Names)
  BY MetricsShape
<1>2. "bronze" \in Names /\ "silver" \in Names
  BY DEF Names
<1>3. \A x \in Names : LET s == <<x>> \o Metrics IN
        /\ s \in Seq(Names) /\ Len(s) = Len(Metrics) + 1
        /\ DOMAIN s = 1..Len(Metrics) + 1
        /\ s[1] = x
        /\ \A i \in DOMAIN Metrics : s[i + 1] = Metrics[i]
  BY <1>1
<1> QED
  BY <1>2, <1>3, Zenon DEF Outputs

(* r is s followed by t. *)
Joins(r, s, t) ==
    /\ Len(r) = Len(s) + Len(t) /\ DOMAIN r = 1..Len(r)
    /\ \A i \in 1..Len(s) : r[i] = s[i]
    /\ \A i \in 1..Len(t) : r[Len(s) + i] = t[i]

LEMMA Concat ==
    \A S : \A s \in Seq(S) : \A t \in Seq(S) : s \o t \in Seq(S) /\ Joins(s \o t, s, t)
BY DEF Joins

(* s is a, b, c and d, one after the other. *)
JoinsFour(s, a, b, c, d) ==
    /\ Len(s) = Len(a) + Len(b) + Len(c) + Len(d) /\ DOMAIN s = 1..Len(s)
    /\ \A i \in 1..Len(a) : s[i] = a[i]
    /\ \A i \in 1..Len(b) : s[Len(a) + i] = b[i]
    /\ \A i \in 1..Len(c) : s[Len(a) + Len(b) + i] = c[i]
    /\ \A i \in 1..Len(d) : s[Len(a) + Len(b) + Len(c) + i] = d[i]

LEMMA FourParts ==
    \A S : \A a, b, c, d \in Seq(S) : JoinsFour(a \o b \o c \o d, a, b, c, d)
<1> SUFFICES ASSUME NEW S, NEW a \in Seq(S), NEW b \in Seq(S), NEW c \in Seq(S), NEW d \in Seq(S),
                    NEW s, s = a \o b \o c \o d
             PROVE  JoinsFour(s, a, b, c, d)
  OBVIOUS
<1> DEFINE ab == a \o b
           abc == ab \o c
<1>1. ab \in Seq(S) /\ Joins(ab, a, b)
  BY Concat
<1> HIDE DEF ab
<1>2. abc \in Seq(S) /\ Joins(abc, ab, c)
  BY <1>1, Concat
<1>3. s = abc \o d
  BY DEF ab
<1> HIDE DEF abc
<1>4. Joins(s, abc, d)
  BY <1>2, <1>3, Concat
<1>5. Len(a) \in Nat /\ Len(b) \in Nat /\ Len(c) \in Nat /\ Len(d) \in Nat
  OBVIOUS
<1>6. /\ Len(ab) = Len(a) + Len(b) /\ Len(abc) = Len(a) + Len(b) + Len(c)
      /\ Len(s) = Len(a) + Len(b) + Len(c) + Len(d) /\ DOMAIN s = 1..Len(s)
  BY <1>1, <1>2, <1>4, <1>5 DEF Joins
<1>7. \A i \in 1..Len(a) : s[i] = a[i]
  BY <1>1, <1>2, <1>4, <1>5, <1>6 DEF Joins
<1>8. \A i \in 1..Len(b) : s[Len(a) + i] = b[i]
  <2> TAKE i \in 1..Len(b)
  <2>1. Len(a) + i \in 1..Len(ab) /\ Len(a) + i \in 1..Len(abc)
    BY <1>5, <1>6
  <2> QED
    BY <2>1, <1>1, <1>2, <1>4 DEF Joins
<1>9. \A i \in 1..Len(c) : s[Len(a) + Len(b) + i] = c[i]
  <2> TAKE i \in 1..Len(c)
  <2>1. Len(a) + Len(b) + i \in 1..Len(abc)
    BY <1>5, <1>6
  <2> QED
    BY <2>1, <1>6, <1>2, <1>4 DEF Joins
<1>10. \A i \in 1..Len(d) : s[Len(a) + Len(b) + Len(c) + i] = d[i]
  BY <1>4, <1>6 DEF Joins
<1> QED
  BY <1>6, <1>7, <1>8, <1>9, <1>10 DEF JoinsFour

LEMMA StepFields ==
    /\ \A s, k, l : s = Step(k, l) => s.kind = k /\ s.at = l
    /\ \A s : s.kind # "cache" => s # Step("cache", "")
    /\ \A s : s.kind # "ttl" => s # Step("ttl", "")
<1>1. \A s, k, l : s = Step(k, l) => s.kind = k /\ s.at = l
  BY DEF Step
<1> QED
  BY <1>1, Zenon

(* three resources, a table and a seed for each location, the cache, its ttl *)
LEMMA StepsShape ==
    LET n == Len(Metrics) + 2
    IN  /\ n \in Nat
        /\ Len(Steps) = 2 * n + 5 /\ DOMAIN Steps = 1..2 * n + 5
        /\ Steps[1] = Step("stream", "") /\ Steps[2] = Step("bucket", "")
        /\ Steps[3] = Step("database", "")
        /\ \A i \in 1..n : Steps[3 + i] = Step("table", Tables[i])
        /\ \A i \in 1..n : Steps[3 + n + i] = Step("seed", Tables[i])
        /\ Steps[2 * n + 4] = Step("cache", "") /\ Steps[2 * n + 5] = Step("ttl", "")
<1> DEFINE n == Len(Metrics) + 2
           S == {Step("table", l) : l \in Names} \cup {Step("seed", l) : l \in Names}
                \cup {Step(k, "") : k \in {"stream", "bucket", "database", "cache", "ttl"}}
           a == <<Step("stream", ""), Step("bucket", ""), Step("database", "")>>
           b == [i \in DOMAIN Tables |-> Step("table", Tables[i])]
           c == [i \in DOMAIN Tables |-> Step("seed", Tables[i])]
           d == <<Step("cache", ""), Step("ttl", "")>>
<1>1. n \in Nat /\ DOMAIN Tables = 1..n /\ \A i \in 1..n : Tables[i] \in Names
  BY TablesShape, MetricsShape
<1>2. /\ \A l \in Names : Step("table", l) \in S /\ Step("seed", l) \in S
      /\ Step("stream", "") \in S /\ Step("bucket", "") \in S /\ Step("database", "") \in S
      /\ Step("cache", "") \in S /\ Step("ttl", "") \in S
  OBVIOUS
<1> HIDE DEF S
<1>3. \A x, y, z \in S : LET s == <<x, y, z>> IN
        s \in Seq(S) /\ Len(s) = 3 /\ s[1] = x /\ s[2] = y /\ s[3] = z
  OBVIOUS
<1>4. a \in Seq(S) /\ Len(a) = 3
      /\ a[1] = Step("stream", "") /\ a[2] = Step("bucket", "") /\ a[3] = Step("database", "")
  BY <1>2, <1>3, Zenon
<1>5. b \in Seq(S) /\ Len(b) = n /\ \A i \in 1..n : b[i] = Step("table", Tables[i])
  <2>1. \A i \in 1..n : Step("table", Tables[i]) \in S
    BY <1>1, <1>2
  <2>2. b \in [1..n -> S] /\ \A i \in 1..n : b[i] = Step("table", Tables[i])
    BY <1>1, <2>1
  <2> HIDE DEF b, n
  <2> QED
    BY <1>1, <2>2
<1>6. c \in Seq(S) /\ Len(c) = n /\ \A i \in 1..n : c[i] = Step("seed", Tables[i])
  <2>1. \A i \in 1..n : Step("seed", Tables[i]) \in S
    BY <1>1, <1>2
  <2>2. c \in [1..n -> S] /\ \A i \in 1..n : c[i] = Step("seed", Tables[i])
    BY <1>1, <2>1
  <2> HIDE DEF c, n
  <2> QED
    BY <1>1, <2>2
<1>7. \A x, y \in S : LET s == <<x, y>> IN
        s \in Seq(S) /\ Len(s) = 2 /\ s[1] = x /\ s[2] = y
  OBVIOUS
<1>8. d \in Seq(S) /\ Len(d) = 2 /\ d[1] = Step("cache", "") /\ d[2] = Step("ttl", "")
  BY <1>2, <1>7, Zenon
<1>9. Steps = a \o b \o c \o d
  BY DEF Steps
<1> HIDE DEF a, b, c, d
<1>10. JoinsFour(Steps, a, b, c, d)
  BY <1>4, <1>5, <1>6, <1>8, <1>9, FourParts, Zenon
<1> HIDE DEF n
<1>11. Len(a) = 3 /\ Len(b) = n /\ Len(c) = n /\ Len(d) = 2
  BY <1>4, <1>5, <1>6, <1>8
<1>12. /\ Len(Steps) = 3 + n + n + 2 /\ DOMAIN Steps = 1..Len(Steps)
       /\ \A i \in 1..3 : Steps[i] = a[i]
       /\ \A i \in 1..n : Steps[3 + i] = b[i]
       /\ \A i \in 1..n : Steps[3 + n + i] = c[i]
       /\ \A i \in 1..2 : Steps[3 + n + n + i] = d[i]
  BY <1>10, <1>11, Zenon DEF JoinsFour
<1>13. Len(Steps) = 2 * n + 5 /\ DOMAIN Steps = 1..2 * n + 5
  BY <1>1, <1>12
<1>14. /\ Steps[1] = Step("stream", "") /\ Steps[2] = Step("bucket", "")
       /\ Steps[3] = Step("database", "")
  <2>1. Steps[1] = a[1] /\ Steps[2] = a[2] /\ Steps[3] = a[3]
    BY <1>12
  <2> QED
    BY <1>4, <2>1, Zenon
<1>15. \A i \in 1..n : Steps[3 + i] = Step("table", Tables[i])
  BY <1>5, <1>12, Zenon
<1>16. \A i \in 1..n : Steps[3 + n + i] = Step("seed", Tables[i])
  BY <1>6, <1>12, Zenon
<1>17. Steps[2 * n + 4] = Step("cache", "") /\ Steps[2 * n + 5] = Step("ttl", "")
  <2>1. Steps[3 + n + n + 1] = d[1] /\ Steps[3 + n + n + 2] = d[2]
    BY <1>12
  <2>2. 3 + n + n + 1 = 2 * n + 4 /\ 3 + n + n + 2 = 2 * n + 5
    BY <1>1
  <2> QED
    BY <2>1, <2>2, <1>8
<1> QED
  BY <1>1, <1>13, <1>14, <1>15, <1>16, <1>17 DEF n

LEMMA StepsLength ==
    /\ Len(Steps) \in Nat \ {0} /\ DOMAIN Steps = 1..Len(Steps)
    /\ \A i \in DOMAIN Steps : Steps[i] \in ToSet(Steps)
<1> DEFINE n == Len(Metrics) + 2
<1>1. n \in Nat /\ Len(Steps) = 2 * n + 5 /\ DOMAIN Steps = 1..2 * n + 5
  BY StepsShape
<1> HIDE DEF n
<1>2. Len(Steps) \in Nat \ {0} /\ DOMAIN Steps = 1..Len(Steps)
  BY <1>1
<1> QED
  BY <1>2 DEF ToSet

(* the kinds of the steps *)
LEMMA StepKinds ==
    LET n == Len(Metrics) + 2
    IN  \A i \in DOMAIN Steps :
          /\ Steps[i].kind = "seed" <=> i \in n + 4..2 * n + 3
          /\ Steps[i].kind = "cache" <=> i = 2 * n + 4
          /\ Steps[i].kind = "ttl" <=> i = 2 * n + 5
          /\ Steps[i] = Step("ttl", "") <=> i = 2 * n + 5
          /\ Steps[i] = Step("cache", "") <=> i = 2 * n + 4
          /\ Steps[i].kind = "seed" => Steps[i].at \in Locations
          /\ Steps[i].kind # "write"
<1> DEFINE n == Len(Metrics) + 2
<1>1. n \in Nat
  BY StepsShape
<1> SUFFICES ASSUME NEW i \in DOMAIN Steps, NEW s, s = Steps[i]
             PROVE  /\ s.kind = "seed" <=> i \in n + 4..2 * n + 3
                    /\ s.kind = "cache" <=> i = 2 * n + 4
                    /\ s.kind = "ttl" <=> i = 2 * n + 5
                    /\ s = Step("ttl", "") <=> i = 2 * n + 5
                    /\ s = Step("cache", "") <=> i = 2 * n + 4
                    /\ s.kind = "seed" => s.at \in Locations
                    /\ s.kind # "write"
  OBVIOUS
<1>2. \/ i \in 1..3 /\ \E k \in {"stream", "bucket", "database"} : Steps[i] = Step(k, "")
      \/ i \in 4..n + 3 /\ Steps[i] = Step("table", Tables[i - 3])
      \/ i \in n + 4..2 * n + 3 /\ Steps[i] = Step("seed", Tables[i - 3 - n])
      \/ i = 2 * n + 4 /\ Steps[i] = Step("cache", "")
      \/ i = 2 * n + 5 /\ Steps[i] = Step("ttl", "")
  <2> HIDE DEF n
  <2>1. i \in 1..2 * n + 5
    BY StepsShape DEF n
  <2>2. CASE i \in 1..3
    <3>1. i = 1 \/ i = 2 \/ i = 3
      BY <2>2
    <3> QED
      BY <2>2, <3>1, StepsShape, Zenon
  <2>3. CASE i \in 4..n + 3
    <3>1. i - 3 \in 1..n /\ 3 + (i - 3) = i
      BY <1>1, <2>3
    <3> QED
      BY <2>3, <3>1, StepsShape DEF n
  <2>4. CASE i \in n + 4..2 * n + 3
    <3>1. i - 3 - n \in 1..n /\ 3 + n + (i - 3 - n) = i
      BY <1>1, <2>4
    <3> QED
      BY <2>4, <3>1, StepsShape DEF n
  <2>5. CASE i = 2 * n + 4 \/ i = 2 * n + 5
    BY <2>5, StepsShape DEF n
  <2>6. \/ i \in 1..3 \/ i \in 4..n + 3 \/ i \in n + 4..2 * n + 3
        \/ i = 2 * n + 4 \/ i = 2 * n + 5
    BY <1>1, <2>1
  <2> QED
    BY <2>2, <2>3, <2>4, <2>5, <2>6, Zenon
<1>3. i \in n + 4..2 * n + 3 => Tables[i - 3 - n] \in Locations
  <2> HIDE DEF n
  <2>1. DOMAIN Tables = 1..n
    BY TablesShape DEF n
  <2> QED
    BY <1>1, <2>1 DEF Locations, ToSet
<1>4. /\ i \in 1..3 => i \notin n + 4..2 * n + 3 /\ i # 2 * n + 4 /\ i # 2 * n + 5
      /\ i \in 4..n + 3 => i \notin n + 4..2 * n + 3 /\ i # 2 * n + 4 /\ i # 2 * n + 5
      /\ i \in n + 4..2 * n + 3 => i # 2 * n + 4 /\ i # 2 * n + 5
      /\ 2 * n + 4 \notin n + 4..2 * n + 3 /\ 2 * n + 5 \notin n + 4..2 * n + 3
      /\ 2 * n + 4 # 2 * n + 5
  BY <1>1
<1> HIDE DEF n
<1>5. /\ \A k, l : s = Step(k, l) => s.kind = k /\ s.at = l
      /\ s.kind # "cache" => s # Step("cache", "")
      /\ s.kind # "ttl" => s # Step("ttl", "")
  BY StepFields
<1>6. CASE i \in 1..3 /\ \E k \in {"stream", "bucket", "database"} : s = Step(k, "")
  <2>1. s.kind \in {"stream", "bucket", "database"}
    BY <1>5, <1>6
  <2>2. s.kind \notin {"seed", "cache", "ttl", "write"} /\ s # Step("cache", "") /\ s # Step("ttl", "")
    BY <1>5, <2>1
  <2> QED
    BY <1>4, <1>6, <2>2, Zenon
<1>7. CASE i \in 4..n + 3 /\ s = Step("table", Tables[i - 3])
  <2>1. s.kind = "table"
    BY <1>5, <1>7, Zenon
  <2>2. s.kind \notin {"seed", "cache", "ttl", "write"} /\ s # Step("cache", "") /\ s # Step("ttl", "")
    BY <1>5, <2>1
  <2> QED
    BY <1>4, <1>7, <2>2, Zenon
<1>8. CASE i \in n + 4..2 * n + 3 /\ s = Step("seed", Tables[i - 3 - n])
  <2>1. s.kind = "seed" /\ s.at \in Locations
    BY <1>3, <1>5, <1>8, Zenon
  <2>2. s.kind \notin {"cache", "ttl", "write"} /\ s # Step("cache", "") /\ s # Step("ttl", "")
    BY <1>5, <2>1
  <2> QED
    BY <1>4, <1>8, <2>1, <2>2, Zenon
<1>9. CASE i = 2 * n + 4 /\ s = Step("cache", "")
  <2>1. s.kind = "cache"
    BY <1>5, <1>9, Zenon
  <2>2. s.kind \notin {"seed", "ttl", "write"} /\ s # Step("ttl", "")
    BY <1>5, <2>1
  <2> QED
    BY <1>4, <1>9, <2>1, <2>2, Zenon
<1>10. CASE i = 2 * n + 5 /\ s = Step("ttl", "")
  <2>1. s.kind = "ttl"
    BY <1>5, <1>10, Zenon
  <2>2. s.kind \notin {"seed", "cache", "write"} /\ s # Step("cache", "")
    BY <1>5, <2>1
  <2> QED
    BY <1>4, <1>10, <2>1, <2>2, Zenon
<1> QED
  BY <1>2, <1>6, <1>7, <1>8, <1>9, <1>10, Zenon

LEMMA LocationsShape ==
    /\ "bronze" \in Locations /\ "silver" \in Locations /\ MetricSet \subseteq Locations
    /\ Head(Metrics) \in MetricSet
<1>1. 1 \in DOMAIN Tables /\ 2 \in DOMAIN Tables
  BY TablesShape, MetricsShape
<1>2. "bronze" \in Locations /\ "silver" \in Locations
  BY <1>1, TablesShape, Zenon DEF Locations, ToSet
<1>3. ASSUME NEW m \in MetricSet PROVE m \in Locations
  <2>1. PICK i \in DOMAIN Metrics : m = Metrics[i]
    BY DEF MetricSet, ToSet
  <2>2. i + 2 \in DOMAIN Tables
    BY MetricsShape, TablesShape
  <2>3. m = Tables[i + 2]
    BY <2>1, TablesShape
  <2> QED
    BY <2>2, <2>3 DEF Locations, ToSet
<1>4. Head(Metrics) \in MetricSet
  <2>1. Head(Metrics) = Metrics[1] /\ 1 \in DOMAIN Metrics
    BY MetricsShape
  <2> QED
    BY <2>1 DEF MetricSet, ToSet
<1> QED
  BY <1>2, <1>3, <1>4

(* ... each once *)
LEMMA OutputsShape ==
    /\ Len(Outputs) \in Nat /\ DOMAIN Outputs = 1..Len(Outputs) /\ 1 \in DOMAIN Outputs
    /\ Outputs[1] = "silver"
    /\ \A i \in DOMAIN Outputs : Outputs[i] \in Locations /\ Outputs[i] # "bronze"
    /\ \A i \in DOMAIN Outputs : Outputs[i] = "silver" => i = 1
    /\ \A i, j \in DOMAIN Outputs : Outputs[i] = Outputs[j] => i = j
<1>1. /\ Len(Outputs) \in Nat /\ DOMAIN Outputs = 1..Len(Outputs) /\ 1 \in DOMAIN Outputs
      /\ Outputs[1] = "silver"
  BY OutputsList, MetricsShape
<1>2. \A i \in DOMAIN Outputs : i # 1 => i - 1 \in DOMAIN Metrics
  BY OutputsList, MetricsShape
<1>3. \A i \in DOMAIN Outputs : i # 1 => Outputs[i] = Metrics[i - 1]
  <2> TAKE i \in DOMAIN Outputs
  <2> HAVE i # 1
  <2>1. (i - 1) + 1 = i
    BY <1>1
  <2>2. Outputs[(i - 1) + 1] = Metrics[i - 1]
    BY <1>2, OutputsList
  <2> QED
    BY <2>1, <2>2
<1>4. \A i \in DOMAIN Outputs : i # 1 => Outputs[i] \in MetricSet
  BY <1>2, <1>3 DEF MetricSet, ToSet
<1>5. \A i \in DOMAIN Outputs : i # 1 => Outputs[i] \notin {"bronze", "silver"}
  BY <1>2, <1>3, MetricsShape
<1>6. \A i, j \in DOMAIN Outputs : Outputs[i] = Outputs[j] => i = j
  <2> SUFFICES ASSUME NEW i \in DOMAIN Outputs, NEW j \in DOMAIN Outputs,
                      Outputs[i] = Outputs[j]
               PROVE  i = j
    OBVIOUS
  <2>1. CASE i = 1 \/ j = 1
    BY <2>1, <1>1, <1>5
  <2>2. CASE i # 1 /\ j # 1
    <3>1. i - 1 = j - 1
      BY <2>2, <1>2, <1>3, MetricsAssumption, Zenon
    <3> QED
      BY <3>1, <1>1
  <2> QED
    BY <2>1, <2>2
<1>7. \A i \in DOMAIN Outputs : Outputs[i] \in Locations /\ Outputs[i] # "bronze"
  BY <1>1, <1>4, <1>5, LocationsShape
<1> QED
  BY <1>1, <1>5, <1>6, <1>7

(* Each location has the step that seeds it. *)
LEMMA SeedOf ==
    \A l \in Locations : \E j \in DOMAIN Steps : Steps[j].kind = "seed" /\ Steps[j].at = l
<1> TAKE l \in Locations
<1> DEFINE n == Len(Metrics) + 2
<1>1. PICK i \in DOMAIN Tables : l = Tables[i]
  BY DEF Locations, ToSet
<1>2. n \in Nat /\ DOMAIN Steps = 1..2 * n + 5
  BY StepsShape
<1>3. i \in 1..n
  BY TablesShape
<1>4. Steps[3 + n + i] = Step("seed", l)
  BY <1>1, <1>3, StepsShape
<1> HIDE DEF n
<1>5. 3 + n + i \in DOMAIN Steps
  BY <1>2, <1>3
<1> QED
  BY <1>4, <1>5, StepFields, Zenon

LEMMA PhasesShape ==
    /\ Len(Phases) = 3 /\ DOMAIN Phases = 1..3
    /\ \A p \in 1..3 : /\ (Phases[p] = "list" <=> p = 1)
                      /\ (Phases[p] = "delete" <=> p = 2)
                      /\ (Phases[p] = "write" <=> p = 3)
<1>1. /\ Len(Phases) = 3 /\ DOMAIN Phases = 1..3
      /\ Phases[1] = "list" /\ Phases[2] = "delete" /\ Phases[3] = "write"
  BY DEF Phases
<1> SUFFICES ASSUME NEW p \in 1..3, NEW s, s = Phases[p]
             PROVE  /\ (s = "list" <=> p = 1) /\ (s = "delete" <=> p = 2)
                    /\ (s = "write" <=> p = 3)
  BY <1>1
<1>2. p = 1 \/ p = 2 \/ p = 3
  OBVIOUS
<1>3. CASE p = 1
  BY <1>1, <1>3
<1>4. CASE p = 2
  BY <1>1, <1>4
<1>5. CASE p = 3
  BY <1>1, <1>5
<1> QED
  BY <1>2, <1>3, <1>4, <1>5

-----------------------------------------------------------------------------
(* The queue of the lock *)

Distinct(q) == \A i, j \in DOMAIN q : q[i] = q[j] => i = j

LEMMA Enqueued ==
    ASSUME NEW S, NEW q \in Seq(S), NEW r \in S, Distinct(q), r \notin ToSet(q)
    PROVE  /\ Append(q, r) \in Seq(S) /\ Distinct(Append(q, r))
           /\ ToSet(Append(q, r)) = ToSet(q) \cup {r}
<1> DEFINE t == Append(q, r)
<1>1. /\ t \in Seq(S) /\ Len(t) = Len(q) + 1 /\ Len(q) \in Nat /\ DOMAIN t = 1..Len(q) + 1
      /\ DOMAIN q = 1..Len(q)
      /\ \A i \in 1..Len(q) : t[i] = q[i]
      /\ t[Len(q) + 1] = r
  OBVIOUS
<1> HIDE DEF t
<1>2. \A i \in 1..Len(q) : q[i] # r
  BY <1>1 DEF ToSet
<1>3. \A i \in DOMAIN t : i \in 1..Len(q) \/ i = Len(q) + 1
  BY <1>1
<1>4. Distinct(t)
  BY <1>1, <1>2, <1>3 DEF Distinct
<1>5. ToSet(t) = ToSet(q) \cup {r}
  <2>1. ASSUME NEW x \in ToSet(t) PROVE x \in ToSet(q) \cup {r}
    BY <1>1, <1>3 DEF ToSet
  <2>2. ASSUME NEW x \in ToSet(q) PROVE x \in ToSet(t)
    BY <1>1 DEF ToSet
  <2>3. r \in ToSet(t)
    BY <1>1 DEF ToSet
  <2> QED
    BY <2>1, <2>2, <2>3
<1> QED
  BY <1>1, <1>4, <1>5 DEF t

LEMMA Dequeued ==
    ASSUME NEW S, NEW q \in Seq(S), q # <<>>, Distinct(q)
    PROVE  /\ Tail(q) \in Seq(S) /\ Distinct(Tail(q))
           /\ Head(q) \in ToSet(q) /\ ToSet(Tail(q)) = ToSet(q) \ {Head(q)}
<1> DEFINE t == Tail(q)
<1>1. /\ t \in Seq(S) /\ Len(q) \in Nat \ {0} /\ DOMAIN q = 1..Len(q)
      /\ DOMAIN t = 1..Len(q) - 1
      /\ \A i \in 1..Len(q) - 1 : t[i] = q[i + 1]
      /\ Head(q) = q[1]
  OBVIOUS
<1> HIDE DEF t
<1>2. Distinct(t)
  <2> SUFFICES ASSUME NEW i \in DOMAIN t, NEW j \in DOMAIN t, t[i] = t[j] PROVE i = j
    BY DEF Distinct
  <2>1. i + 1 \in DOMAIN q /\ j + 1 \in DOMAIN q /\ q[i + 1] = q[j + 1]
    BY <1>1
  <2>2. i + 1 = j + 1
    BY <2>1 DEF Distinct
  <2> QED
    BY <2>2, <1>1
<1>3. Head(q) \in ToSet(q)
  BY <1>1 DEF ToSet
<1>4. ASSUME NEW x \in ToSet(t) PROVE x \in ToSet(q) \ {Head(q)}
  <2>1. PICK i \in DOMAIN t : x = t[i]
    BY DEF ToSet
  <2>2. i + 1 \in DOMAIN q /\ 1 \in DOMAIN q /\ i + 1 # 1 /\ x = q[i + 1]
    BY <1>1, <2>1
  <2>3. q[i + 1] # q[1]
    BY <2>2 DEF Distinct
  <2> QED
    BY <1>1, <2>2, <2>3 DEF ToSet
<1>5. ASSUME NEW x \in ToSet(q), x # Head(q) PROVE x \in ToSet(t)
  <2>1. PICK i \in DOMAIN q : x = q[i]
    BY DEF ToSet
  <2>2. i - 1 \in DOMAIN t /\ (i - 1) + 1 = i
    BY <1>1, <1>5, <2>1
  <2>3. x = t[i - 1]
    BY <1>1, <2>1, <2>2
  <2> QED
    BY <2>2, <2>3 DEF ToSet
<1> QED
  BY <1>1, <1>2, <1>3, <1>4, <1>5 DEF t

-----------------------------------------------------------------------------
(* The invariant: types, the lock, and what a request may hold *)

ScriptOK == created \subseteq ToSet(Steps) /\ boot \in 0..Len(Steps) /\ ready \in BOOLEAN
LakeOK ==
    /\ objects \in [Locations -> SUBSET {"seed", "data"}]
    /\ content["bronze"] \in Versions /\ content \in [Locations -> 0..content["bronze"]]
HaltsOK ==
    /\ stops \in 0..MaxStops
    /\ owed \subseteq {Step("ttl", "")} \cup {Step("write", l) : l \in Locations}
RunnerOK ==
    /\ at \in 0..Len(Outputs) + 1 /\ phase \in DOMAIN Phases
    /\ listed \subseteq {"seed", "data"} /\ base \in Versions
EngineOK ==
    /\ queue \in Seq(Requests) /\ Distinct(queue)
    /\ holder \subseteq Requests /\ \A r, s \in holder : r = s
    /\ pc \in [Requests -> {"idle", "waiting", "glob", "read"}]
    /\ \A r \in Requests : pc[r] = "waiting" <=> r \in ToSet(queue)
    /\ \A r \in Requests : pc[r] \in {"glob", "read"} <=> r \in holder
    /\ metric \in [Requests -> MetricSet]
    /\ found \in [Requests -> SUBSET {"seed", "data"}]
Typing == ScriptOK /\ LakeOK /\ HaltsOK /\ RunnerOK /\ EngineOK

LEMMA TypingIsType == Typing => TypeOK
<1>1. EngineOK => \A r \in Requests : InFlight(r) <=> r \in ToSet(queue) \cup holder
  BY DEF EngineOK, InFlight
<1> QED
  BY <1>1 DEF Typing, ScriptOK, LakeOK, HaltsOK, RunnerOK, EngineOK, TypeOK

LEMMA Kept ==
    /\ ScriptOK /\ UNCHANGED script => ScriptOK'
    /\ LakeOK /\ UNCHANGED lake => LakeOK'
    /\ HaltsOK /\ UNCHANGED halts => HaltsOK'
    /\ RunnerOK /\ UNCHANGED runner => RunnerOK'
    /\ EngineOK /\ UNCHANGED engine => EngineOK'
<1>1. ScriptOK /\ UNCHANGED script => ScriptOK'
  BY DEF ScriptOK, script
<1>2. LakeOK /\ UNCHANGED lake => LakeOK'
  BY DEF LakeOK, lake
<1>3. HaltsOK /\ UNCHANGED halts => HaltsOK'
  BY DEF HaltsOK, halts
<1>4. RunnerOK /\ UNCHANGED runner => RunnerOK'
  BY DEF RunnerOK, runner
<1>5. EngineOK /\ UNCHANGED engine => EngineOK'
  BY DEF EngineOK, engine
<1> QED
  BY <1>1, <1>2, <1>3, <1>4, <1>5

LEMMA TypingInit == Init => Typing
<1> SUFFICES ASSUME Init PROVE Typing
  OBVIOUS
<1> USE DEF Init
<1>1. ScriptOK
  <2>1. Len(Steps) \in Nat
    BY StepsLength
  <2>2. created = {} /\ boot = 0 /\ ready = FALSE
    BY DEF Init
  <2> HIDE DEF Init
  <2>3. boot \in 0..Len(Steps)
    BY <2>1, <2>2
  <2>4. created \subseteq ToSet(Steps) /\ ready \in BOOLEAN
    BY <2>2
  <2> QED
    BY <2>3, <2>4 DEF ScriptOK
<1>2. LakeOK
  BY LocationsShape, BoundsAssumption DEF LakeOK, Versions
<1>3. HaltsOK
  BY BoundsAssumption DEF HaltsOK
<1>4. RunnerOK
  BY OutputsShape, PhasesShape, BoundsAssumption DEF RunnerOK, Versions
<1>5. EngineOK
  <2>1. queue \in Seq(Requests) /\ Distinct(queue) /\ ToSet(queue) = {}
    BY DEF Distinct, ToSet
  <2> QED
    BY <2>1, LocationsShape DEF EngineOK
<1> QED
  BY <1>1, <1>2, <1>3, <1>4, <1>5 DEF Typing

LEMMA BootTyping ==
    ASSUME Typing, BootStart \/ Create \/ Seed \/ BootStops
    PROVE  Typing'
<1> USE DEF Typing
<1>1. CASE BootStart
  <2>1. ScriptOK'
    BY <1>1, StepsLength DEF BootStart, ScriptOK
  <2> QED
    BY <1>1, <2>1, Kept DEF BootStart
<1>2. CASE Create
  <2>1. boot \in DOMAIN Steps /\ Steps[boot] \in ToSet(Steps)
    BY <1>2, StepsLength DEF Create, ScriptOK
  <2>2. AfterExisting(Steps[boot]) \in {boot + 1, boot + 2}
    BY DEF AfterExisting
  <2>3. PICK next \in {boot + 1, boot + 2} : GoesTo(next)
    BY <1>2, <2>2 DEF Create
  <2>4. boot' \in 0..Len(Steps) /\ ready' \in BOOLEAN
    BY <2>1, <2>3, StepsLength DEF GoesTo, ScriptOK
  <2>5. ScriptOK'
    BY <1>2, <2>1, <2>4 DEF Create, ScriptOK
  <2> QED
    BY <1>2, <2>5, Kept DEF Create
<1>3. CASE Seed
  <2>1. boot \in DOMAIN Steps
    BY <1>3, StepsLength DEF Seed, ScriptOK
  <2>2. boot' \in 0..Len(Steps) /\ ready' \in BOOLEAN
    BY <1>3, <2>1, StepsLength DEF Seed, GoesTo, ScriptOK
  <2>3. ScriptOK'
    BY <1>3, <2>2 DEF Seed, ScriptOK
  <2>4. LakeOK'
    BY <1>3 DEF Seed, LakeOK
  <2> QED
    BY <1>3, <2>3, <2>4, Kept DEF Seed
<1>4. CASE BootStops
  <2>1. ScriptOK'
    BY <1>4, StepsLength DEF BootStops, ScriptOK
  <2>2. boot \in DOMAIN Steps
    BY <1>4, StepsLength DEF BootStops, ScriptOK
  <2>3. {s \in {Steps[boot]} : s.kind = "ttl"} \subseteq {Step("ttl", "")}
    <3>1. Steps[boot].kind = "ttl" => Steps[boot] = Step("ttl", "")
      BY <2>2, StepKinds
    <3> QED
      BY <3>1
  <2>4. stops' \in 0..MaxStops
    <3>1. stops \in 0..MaxStops /\ stops < MaxStops /\ stops' = stops + 1
      BY <1>4, Zenon DEF BootStops, HaltsOK
    <3> QED
      BY <3>1, BoundsAssumption
  <2>5. HaltsOK'
    BY <1>4, <2>3, <2>4 DEF BootStops, HaltsOK
  <2> QED
    BY <1>4, <2>1, <2>5, Kept DEF BootStops
<1> QED
  BY <1>1, <1>2, <1>3, <1>4

LEMMA RunTyping ==
    ASSUME Typing, RunStart \/ List \/ Delete \/ Write \/ RunEnds \/ RunStops
    PROVE  Typing'
<1> USE DEF Typing
<1> USE PhasesShape
<1>1. CASE RunStart
  <2>1. RunnerOK'
    BY <1>1, OutputsShape DEF RunStart, RunnerOK, LakeOK, runner
  <2> QED
    BY <1>1, <2>1, Kept DEF RunStart
<1>2. CASE List
  <2>1. Matches(Outputs[at]) \subseteq {"seed", "data"}
    BY <1>2, OutputsShape DEF List, Matches, LakeOK
  <2>2. phase + 1 \in DOMAIN Phases
    BY <1>2 DEF List, RunnerOK
  <2>3. RunnerOK'
    BY <1>2, <2>1, <2>2 DEF List, RunnerOK
  <2> QED
    BY <1>2, <2>3, Kept DEF List
<1>3. ASSUME AfterPhase, at \in DOMAIN Outputs
      PROVE  at' \in 0..Len(Outputs) + 1 /\ phase' \in DOMAIN Phases
  BY <1>3, OutputsShape DEF AfterPhase, RunnerOK
<1>4. CASE Delete
  <2>1. RunnerOK'
    BY <1>3, <1>4 DEF Delete, RunnerOK
  <2>2. LakeOK'
    BY <1>4 DEF Delete, LakeOK
  <2> QED
    BY <1>4, <2>1, <2>2, Kept DEF Delete
<1>5. CASE Write
  <2>1. RunnerOK'
    BY <1>3, <1>5 DEF Write, RunnerOK
  <2>2. LakeOK'
    BY <1>5, OutputsShape, LocationsShape DEF Write, LakeOK, Versions
  <2>3. HaltsOK'
    BY <1>5 DEF Write, HaltsOK
  <2> QED
    BY <1>5, <2>1, <2>2, <2>3, Kept DEF Write
<1>6. CASE RunEnds
  <2>1. RunnerOK'
    BY <1>6, OutputsShape, BoundsAssumption DEF RunEnds, RunnerOK, Versions
  <2> QED
    BY <1>6, <2>1, Kept DEF RunEnds
<1>7. CASE RunStops
  <2>1. RunnerOK'
    BY <1>7, OutputsShape, BoundsAssumption DEF RunStops, RunnerOK, Versions
  <2>2. stops' \in 0..MaxStops
    <3>1. stops \in 0..MaxStops /\ stops < MaxStops /\ stops' = stops + 1
      BY <1>7, Zenon DEF RunStops, HaltsOK
    <3> QED
      BY <3>1, BoundsAssumption
  <2>3. HaltsOK'
    BY <1>7, <2>2 DEF RunStops, HaltsOK
  <2> QED
    BY <1>7, <2>1, <2>3, Kept DEF RunStops
<1> QED
  BY <1>1, <1>2, <1>4, <1>5, <1>6, <1>7

LEMMA QueryTyping ==
    ASSUME Typing, NEW r \in Requests, Arrive(r) \/ Acquire(r) \/ Query(r)
    PROVE  Typing'
<1> USE DEF Typing
<1>1. CASE Arrive(r)
  <2>1. r \notin ToSet(queue)
    BY <1>1 DEF Arrive, InFlight, EngineOK
  <2>2. /\ queue' \in Seq(Requests) /\ Distinct(queue')
        /\ ToSet(queue') = ToSet(queue) \cup {r}
    BY <1>1, <2>1, Enqueued DEF Arrive, EngineOK
  <2>3. EngineOK'
    BY <1>1, <2>1, <2>2 DEF Arrive, InFlight, EngineOK
  <2> QED
    BY <1>1, <2>3, Kept DEF Arrive
<1>2. CASE Acquire(r)
  <2>1. queue # <<>>
    BY <1>2 DEF Acquire, EngineOK, ToSet
  <2>2. /\ queue' \in Seq(Requests) /\ Distinct(queue')
        /\ ToSet(queue') = ToSet(queue) \ {r}
    BY <1>2, <2>1, Dequeued DEF Acquire, Grants, EngineOK
  <2>3. holder' = {r}
    BY <1>2 DEF Acquire, Grants
  <2>4. EngineOK'
    BY <1>2, <2>2, <2>3 DEF Acquire, Grants, EngineOK
  <2> QED
    BY <1>2, <2>4, Kept DEF Acquire
<1>3. CASE Glob(r)
  <2>1. objects[metric[r]] \subseteq {"seed", "data"}
    BY LocationsShape DEF EngineOK, LakeOK
  <2>2. EngineOK'
    BY <1>3, <2>1 DEF Glob, EngineOK
  <2> QED
    BY <1>3, <2>2, Kept DEF Glob
<1>4. CASE Read(r) \/ Raise(r)
  <2>1. pc[r] \in {"glob", "read"} /\ holder' = holder \ {r} /\ queue' = queue /\ Ends(r)
    BY <1>4 DEF Read, Raise, Released
  <2>2. EngineOK'
    BY <2>1, LocationsShape DEF Ends, EngineOK
  <2> QED
    BY <1>4, <2>2, Kept DEF Read, Raise
<1> QED
  BY <1>1, <1>2, <1>3, <1>4 DEF Query

LEMMA TypingStep == Typing /\ [Next]_vars => Typing'
<1> SUFFICES ASSUME Typing, [Next]_vars PROVE Typing'
  OBVIOUS
<1>1. CASE Land
  <2> USE DEF Typing, LakeOK
  <2> DEFINE c == content["bronze"]
  <2>1. c \in 0..MaxVersion /\ c < MaxVersion
    BY <1>1, Zenon DEF Land, Versions
  <2>2. content \in [Locations -> 0..c] /\ content' = [content EXCEPT !["bronze"] = c + 1]
    BY <1>1, Zenon DEF Land
  <2>3. content'["bronze"] = c + 1
    BY <2>2, LocationsShape
  <2> HIDE DEF c
  <2>4. c + 1 \in Versions /\ 0..c \subseteq 0..c + 1 /\ c + 1 \in 0..c + 1
    BY <2>1, BoundsAssumption DEF Versions
  <2>5. content' \in [Locations -> 0..c + 1]
    BY <2>2, <2>4
  <2>6. objects' \in [Locations -> SUBSET {"seed", "data"}]
    BY <1>1 DEF Land
  <2>7. LakeOK'
    BY <2>3, <2>4, <2>5, <2>6
  <2> QED
    BY <1>1, <2>7, Kept DEF Land
<1>2. CASE UNCHANGED vars
  BY <1>2, Kept DEF vars, Typing
<1> QED
  BY <1>1, <1>2, BootTyping, RunTyping, QueryTyping DEF Next

-----------------------------------------------------------------------------
(* A run: what is done before the location it is at *)

RunInv ==
    /\ base <= content["bronze"]
    /\ \A i \in DOMAIN Outputs :
         i < at => "data" \in objects[Outputs[i]] /\ content[Outputs[i]] = content["silver"]
    /\ at > 1 => content["silver"] >= base

LEMMA RunInvStep ==
    ASSUME Typing, RunInv, [Next]_vars
    PROVE  RunInv'
<1> USE OutputsShape, LocationsShape
<1>1. CASE Land
  <2>1. /\ at' = at /\ base' = base
        /\ \A i \in DOMAIN Outputs : "data" \in objects[Outputs[i]] => "data" \in objects'[Outputs[i]]
        /\ \A i \in DOMAIN Outputs : content'[Outputs[i]] = content[Outputs[i]]
        /\ content'["silver"] = content["silver"]
    BY <1>1 DEF Land, runner, Typing, LakeOK
  <2>2. base <= content'["bronze"]
    <3>1. content["bronze"] \in Nat /\ base \in Nat /\ base <= content["bronze"]
      BY BoundsAssumption DEF Typing, LakeOK, RunnerOK, Versions, RunInv
    <3>2. content'["bronze"] = content["bronze"] + 1
      BY <1>1 DEF Land, Typing, LakeOK
    <3> QED
      BY <3>1, <3>2
  <2> QED
    BY <2>1, <2>2 DEF RunInv
<1>2. CASE Seed
  <2>1. /\ UNCHANGED <<at, base, content>>
        /\ \A i \in DOMAIN Outputs : "data" \in objects[Outputs[i]] => "data" \in objects'[Outputs[i]]
    BY <1>2 DEF Seed, runner, Typing, LakeOK
  <2> QED
    BY <2>1 DEF RunInv
<1>3. CASE RunStart
  <2>1. at' = 1 /\ base' = content'["bronze"] /\ content'["bronze"] \in Nat
    BY <1>3, BoundsAssumption DEF RunStart, lake, Typing, LakeOK, Versions
  <2> QED
    BY <2>1 DEF RunInv
<1>4. CASE List
  BY <1>4 DEF List, lake, RunInv
<1>5. CASE Delete
  <2>1. /\ at \in DOMAIN Outputs /\ UNCHANGED <<base, content>>
        /\ \A l \in Locations : l # Outputs[at] => objects'[l] = objects[l]
    BY <1>5 DEF Delete, Typing, LakeOK
  <2>2. at' = at
    BY <1>5, PhasesShape DEF Delete, AfterPhase, Typing, RunnerOK
  <2>3. \A i \in DOMAIN Outputs : i < at => objects'[Outputs[i]] = objects[Outputs[i]]
    BY <2>1
  <2> QED
    BY <2>1, <2>2, <2>3 DEF RunInv
<1>6. CASE Write
  <2> DEFINE from == IF at = 1 THEN "bronze" ELSE "silver"
  <2>1. /\ at \in DOMAIN Outputs /\ base' = base
        /\ objects'[Outputs[at]] = objects[Outputs[at]] \cup {"data"}
        /\ \A l \in Locations : l # Outputs[at] => objects'[l] = objects[l]
        /\ content'[Outputs[at]] = content[from]
        /\ \A l \in Locations : l # Outputs[at] => content'[l] = content[l]
    BY <1>6 DEF Write, Typing, LakeOK
  <2>2. at' = at + 1
    BY <1>6, PhasesShape DEF Write, AfterPhase, Typing, RunnerOK
  <2>3. base \in Nat /\ content["bronze"] \in Nat /\ content["silver"] \in Nat /\ at \in Nat
    BY <2>1, BoundsAssumption DEF Typing, LakeOK, RunnerOK, Versions
  <2>4. CASE at = 1
    <3>1. content'["silver"] = content["bronze"] /\ content'["bronze"] = content["bronze"]
      BY <2>1, <2>4
    <3>2. \A i \in DOMAIN Outputs : i < at' => i = at /\ Outputs[i] = "silver"
      BY <2>2, <2>4
    <3> QED
      BY <2>1, <2>3, <2>4, <3>1, <3>2 DEF RunInv
  <2>5. CASE at # 1
    <3>1. Outputs[at] # "silver" /\ Outputs[at] # "bronze" /\ at > 1
      BY <2>1, <2>5
    <3>2. content'["silver"] = content["silver"] /\ content'["bronze"] = content["bronze"]
      BY <2>1, <3>1
    <3>3. content'["silver"] >= base' /\ base' <= content'["bronze"]
      BY <2>1, <3>1, <3>2 DEF RunInv
    <3>4. ASSUME NEW i \in DOMAIN Outputs, i < at'
          PROVE  "data" \in objects'[Outputs[i]] /\ content'[Outputs[i]] = content'["silver"]
      <4>1. CASE i = at
        BY <2>1, <2>5, <3>2, <4>1
      <4>2. CASE i # at
        <5>1. i < at
          BY <2>2, <2>3, <3>4, <4>2
        <5>2. Outputs[i] \in Locations /\ Outputs[i] # Outputs[at]
          BY <2>1, <4>2
        <5> QED
          BY <2>1, <3>2, <5>1, <5>2 DEF RunInv
      <4> QED
        BY <4>1, <4>2
    <3> QED
      BY <3>3, <3>4 DEF RunInv
  <2> QED
    BY <2>4, <2>5
<1>7. CASE RunEnds \/ RunStops
  <2>1. at' = 0 /\ base' = 0 /\ content'["bronze"] \in Nat
    BY <1>7, BoundsAssumption DEF RunEnds, RunStops, lake, Typing, LakeOK, Versions
  <2> QED
    BY <2>1 DEF RunInv
<1>8. CASE UNCHANGED <<lake, runner>>
  BY <1>8 DEF lake, runner, RunInv
<1>9. BootStart \/ Create \/ BootStops \/ UNCHANGED vars => UNCHANGED <<lake, runner>>
  BY DEF BootStart, Create, BootStops, vars
<1>10. ASSUME NEW r \in Requests, Arrive(r) \/ Acquire(r) \/ Query(r)
       PROVE  UNCHANGED <<lake, runner>>
  BY <1>10 DEF Arrive, Acquire, Query, Glob, Read, Raise
<1> QED
  BY <1>1, <1>2, <1>3, <1>4, <1>5, <1>6, <1>7, <1>8, <1>9, <1>10 DEF Next

-----------------------------------------------------------------------------
(* A bootstrap: what is done of the steps it has passed *)

Passed(i) == ready \/ i < boot
Held(l) == objects[l] # {} \/ Rewriting(l) \/ Step("write", l) \in owed
Done(s) == s \in created \cup owed
AtTtl == boot # 0 /\ Steps[boot] = Step("ttl", "")
BootInv ==
    /\ \A i \in DOMAIN Steps : Passed(i) /\ Steps[i].kind = "seed" => Held(Steps[i].at)
    /\ \A i \in DOMAIN Steps : Passed(i) /\ Steps[i].kind # "seed" => Done(Steps[i])
    /\ Step("cache", "") \in created => Done(Step("ttl", "")) \/ AtTtl

LEMMA NotWrite ==
    /\ \A s : s.kind # "write" => \A l : s # Step("write", l)
    /\ \A l : Step("ttl", "") # Step("write", l)
    /\ \A l, m : Step("write", l) = Step("write", m) => l = m
<1>1. \A l : Step("ttl", "") # Step("write", l)
  BY DEF Step
<1>2. \A l, m : Step("write", l) = Step("write", m) => l = m
  BY DEF Step
<1> QED
  BY <1>1, <1>2, StepFields

(* Nothing but a complete write pays what is owed. *)
LEMMA DoneStays ==
    ASSUME Typing, [Next]_vars, NEW s, \A l : s # Step("write", l), Done(s)
    PROVE  Done(s)'
<1>1. CASE Write
  BY <1>1 DEF Write, script, Done
<1>2. CASE Create
  BY <1>2 DEF Create, halts, Done
<1>3. CASE BootStops
  BY <1>3 DEF BootStops, Done
<1>4. CASE RunStops
  BY <1>4 DEF RunStops, script, Done
<1>5. CASE UNCHANGED <<created, owed>>
  BY <1>5 DEF Done
<1>6. /\ Land \/ BootStart \/ Seed \/ UNCHANGED vars => UNCHANGED <<created, owed>>
      /\ RunStart \/ List \/ Delete \/ RunEnds => UNCHANGED <<created, owed>>
  BY DEF Land, BootStart, Seed, RunStart, List, Delete, RunEnds, vars, script, halts
<1>7. ASSUME NEW r \in Requests, Arrive(r) \/ Acquire(r) \/ Query(r)
      PROVE  UNCHANGED <<created, owed>>
  BY <1>7 DEF Arrive, Acquire, Query, Glob, Read, Raise, script, halts
<1> QED
  BY <1>1, <1>2, <1>3, <1>4, <1>5, <1>6, <1>7 DEF Next

(* A location stays as full as it was, or the runner owes it a write. *)
LEMMA HeldStays ==
    ASSUME Typing, [Next]_vars, NEW l \in Locations, Held(l)
    PROVE  Held(l)'
<1>1. CASE Land
  <2>1. objects[l] \subseteq objects'[l] /\ UNCHANGED <<at, phase, owed>>
    BY <1>1 DEF Land, runner, halts, Typing, LakeOK
  <2> QED
    BY <2>1 DEF Held, Rewriting
<1>2. CASE Seed
  <2>1. objects[l] \subseteq objects'[l] /\ UNCHANGED <<at, phase, owed>>
    BY <1>2 DEF Seed, runner, halts, Typing, LakeOK
  <2> QED
    BY <2>1 DEF Held, Rewriting
<1>3. CASE RunStart
  <2>1. ~Rewriting(l) /\ UNCHANGED <<objects, owed>>
    BY <1>3, OutputsShape DEF RunStart, lake, halts, Rewriting
  <2> QED
    BY <2>1 DEF Held
<1>4. CASE List
  <2>1. ~Rewriting(l) /\ UNCHANGED <<objects, owed>>
    BY <1>4 DEF List, lake, halts, Rewriting
  <2> QED
    BY <2>1 DEF Held
<1>5. CASE Delete
  <2>1. ~Rewriting(l) /\ UNCHANGED owed
    BY <1>5 DEF Delete, halts, Rewriting
  <2>2. CASE l = Outputs[at]
    <3>1. at' = at /\ phase' = 3 /\ at \in DOMAIN Outputs
      BY <1>5, PhasesShape DEF Delete, AfterPhase, Typing, RunnerOK
    <3>2. Rewriting(l)'
      BY <2>2, <3>1, PhasesShape DEF Rewriting
    <3> QED
      BY <3>2 DEF Held
  <2>3. CASE l # Outputs[at]
    <3>1. objects'[l] = objects[l]
      BY <1>5, <2>3 DEF Delete, Typing, LakeOK
    <3> QED
      BY <2>1, <3>1 DEF Held
  <2> QED
    BY <2>2, <2>3
<1>6. CASE Write
  <2>1. CASE l = Outputs[at]
    BY <1>6, <2>1 DEF Write, Typing, LakeOK, Held
  <2>2. CASE l # Outputs[at]
    <3>1. objects'[l] = objects[l] /\ ~Rewriting(l)
      BY <1>6, <2>2 DEF Write, Rewriting, Typing, LakeOK
    <3>2. Step("write", l) # Step("write", Outputs[at])
      BY <2>2, NotWrite
    <3>3. Step("write", l) \in owed => Step("write", l) \in owed'
      BY <1>6, <3>2 DEF Write
    <3> QED
      BY <3>1, <3>3 DEF Held
  <2> QED
    BY <2>1, <2>2
<1>7. CASE RunEnds
  <2>1. ~Rewriting(l) /\ UNCHANGED <<objects, owed>>
    BY <1>7, OutputsShape DEF RunEnds, lake, halts, Rewriting, Typing, RunnerOK
  <2> QED
    BY <2>1 DEF Held
<1>8. CASE RunStops
  <2>1. objects' = objects /\ owed \subseteq owed'
    BY <1>8 DEF RunStops, lake
  <2>2. Rewriting(l) => Step("write", l) \in owed'
    BY <1>8 DEF RunStops
  <2> QED
    BY <2>1, <2>2 DEF Held
<1>9. CASE BootStops
  BY <1>9 DEF BootStops, lake, runner, Held, Rewriting
<1>10. CASE UNCHANGED <<lake, halts, runner>>
  BY <1>10 DEF lake, halts, runner, Held, Rewriting
<1>11. BootStart \/ Create \/ UNCHANGED vars => UNCHANGED <<lake, halts, runner>>
  BY DEF BootStart, Create, vars
<1>12. ASSUME NEW r \in Requests, Arrive(r) \/ Acquire(r) \/ Query(r)
       PROVE  UNCHANGED <<lake, halts, runner>>
  BY <1>12 DEF Arrive, Acquire, Query, Glob, Read, Raise
<1> QED
  BY <1>1, <1>2, <1>3, <1>4, <1>5, <1>6, <1>7, <1>8, <1>9, <1>10, <1>11, <1>12 DEF Next

(* The bootstrap passes what comes before where it goes. *)
LEMMA GoesPast ==
    ASSUME NEW next \in Nat, GoesTo(next), NEW i \in DOMAIN Steps, Passed(i)'
    PROVE  ready \/ i < next
<1> DEFINE last == Len(Steps)
<1>1. last \in Nat /\ i \in 1..last
  BY StepsLength
<1>2. /\ boot' = (IF next > last THEN 0 ELSE next)
      /\ ready' => ready \/ next > last
      /\ ready' \/ i < boot'
  BY DEF GoesTo, Passed
<1> HIDE DEF last
<1>3. CASE next > last
  BY <1>1, <1>3
<1>4. CASE ~(next > last)
  BY <1>1, <1>2, <1>4
<1> QED
  BY <1>3, <1>4

LEMMA BootInvStep ==
    ASSUME Typing, BootInv, [Next]_vars
    PROVE  BootInv'
<1>1. ASSUME NEW i \in DOMAIN Steps, Passed(i), Steps[i].kind = "seed"
      PROVE  Held(Steps[i].at)'
  BY <1>1, StepKinds, HeldStays DEF BootInv
<1>2. ASSUME NEW i \in DOMAIN Steps, Passed(i), Steps[i].kind # "seed"
      PROVE  Done(Steps[i])'
  <2>1. \A l : Steps[i] # Step("write", l)
    BY StepKinds, NotWrite
  <2> QED
    BY <1>2, <2>1, DoneStays DEF BootInv
<1>3. Done(Step("ttl", "")) => Done(Step("ttl", ""))'
  BY NotWrite, DoneStays
<1>4. boot # 0 => boot \in DOMAIN Steps
  BY StepsLength DEF Typing, ScriptOK
<1>5. CASE BootStart
  <2>1. \A i \in DOMAIN Steps : Passed(i)' => Passed(i)
    BY <1>5, StepsLength DEF BootStart, Passed
  <2>2. created' = created /\ ~AtTtl
    BY <1>5 DEF BootStart, AtTtl
  <2> QED
    BY <1>1, <1>2, <1>3, <2>1, <2>2 DEF BootInv
<1>6. CASE Create
  <2>1. PICK k \in DOMAIN Steps : k = boot
    BY <1>4, <1>6 DEF Create
  <2>2. k \in Nat /\ \A i \in DOMAIN Steps : i \in Nat /\ i <= Len(Steps)
    BY StepsLength
  <2> DEFINE s == Steps[k]
             again == s \in created
             next == IF again THEN AfterExisting(s) ELSE k + 1
  <2>3. s.kind # "seed" /\ GoesTo(next) /\ created' = created \cup {s}
        /\ (~AtTtl \/ s = Step("ttl", ""))
    BY <1>6, <2>1 DEF Create, AtTtl
  <2>4. next = k + 1 \/ (next = k + 2 /\ s.kind = "cache" /\ s \in created)
    BY <2>1 DEF AfterExisting
  <2>5. Done(s)'
    BY <2>3 DEF Done
  <2>6. s.kind = "cache" => s = Step("cache", "") /\ k + 1 \in DOMAIN Steps
                            /\ Steps[k + 1] = Step("ttl", "") /\ Steps[k + 1].kind # "seed"
    <3> DEFINE n == Len(Metrics) + 2
    <3> HAVE s.kind = "cache"
    <3>1. s = Step("cache", "")
      BY StepKinds
    <3>2. k = 2 * n + 4
      BY StepKinds
    <3>3. n \in Nat /\ DOMAIN Steps = 1..2 * n + 5
      BY StepsShape
    <3> HIDE DEF n
    <3>4. k + 1 = 2 * n + 5 /\ k + 1 \in DOMAIN Steps
      BY <3>2, <3>3
    <3>5. Steps[k + 1] = Step("ttl", "")
      BY <3>4, StepKinds DEF n
    <3>6. Steps[k + 1].kind = "ttl"
      BY <3>5, StepFields
    <3> QED
      BY <3>1, <3>4, <3>5, <3>6
  <2> HIDE DEF s, next, again
  <2>7. ASSUME NEW i \in DOMAIN Steps, Passed(i)'
        PROVE  Passed(i) \/ i = k \/ (i = k + 1 /\ s.kind = "cache" /\ s \in created)
    <3>1. ready \/ i < next
      <4>1. next \in Nat
        BY <2>2, <2>4
      <4> QED
        BY <2>3, <2>7, <4>1, GoesPast
    <3> QED
      BY <2>1, <2>2, <2>4, <3>1 DEF Passed
  <2>8. ASSUME s.kind = "cache", s \in created PROVE Done(Step("ttl", ""))
    <3>1. Step("cache", "") \in created /\ s # Step("ttl", "")
      BY <2>6, <2>8, StepFields
    <3> QED
      BY <2>3, <3>1 DEF BootInv
  <2>9. ASSUME NEW i \in DOMAIN Steps, Passed(i)', Steps[i].kind = "seed"
        PROVE  Held(Steps[i].at)'
    BY <1>1, <2>3, <2>6, <2>7, <2>9 DEF s
  <2>10. ASSUME NEW i \in DOMAIN Steps, Passed(i)', Steps[i].kind # "seed"
         PROVE  Done(Steps[i])'
    <3>1. CASE Passed(i)
      BY <1>2, <2>10, <3>1
    <3>2. CASE i = k
      BY <2>5, <3>2 DEF s
    <3>3. CASE i = k + 1 /\ s.kind = "cache" /\ s \in created
      BY <1>3, <2>6, <2>8, <3>3
    <3> QED
      BY <2>7, <2>10, <3>1, <3>2, <3>3
  <2>11. Step("cache", "") \in created' => (Done(Step("ttl", "")) \/ AtTtl)'
    <3>1. CASE Step("cache", "") \in created
      <4>1. Done(Step("ttl", "")) \/ s = Step("ttl", "")
        BY <2>3, <3>1 DEF BootInv
      <4> QED
        BY <1>3, <2>5, <4>1
    <3>2. CASE s = Step("cache", "") /\ s \notin created
      <4>1. s.kind = "cache" /\ next = k + 1
        BY <2>4, <3>2, StepFields
      <4>2. k + 1 <= Len(Steps) /\ k + 1 # 0 /\ Len(Steps) \in Nat
        <5>1. k + 1 \in DOMAIN Steps
          BY <2>6, <4>1, Zenon
        <5>2. k + 1 <= Len(Steps)
          BY <2>2, <5>1, Zenon
        <5> QED
          BY <2>2, <5>2, StepsLength
      <4>3. boot' = (IF next > Len(Steps) THEN 0 ELSE next)
        BY <2>3 DEF GoesTo
      <4>4. next = k + 1 /\ ~(next > Len(Steps))
        BY <2>2, <4>1, <4>2
      <4>5. boot' = k + 1
        BY <4>3, <4>4, Zenon
      <4> QED
        BY <2>6, <4>1, <4>2, <4>5 DEF AtTtl
    <3> QED
      BY <2>3, <3>1, <3>2
  <2> QED
    BY <2>9, <2>10, <2>11 DEF BootInv
<1>7. CASE Seed
  <2>1. PICK k \in DOMAIN Steps : k = boot
    BY <1>4, <1>7 DEF Seed
  <2>2. k \in Nat /\ \A i \in DOMAIN Steps : i \in Nat /\ i <= Len(Steps)
    BY StepsLength
  <2>3. Steps[k].kind = "seed" /\ GoesTo(k + 1) /\ created' = created
    BY <1>7, <2>1 DEF Seed
  <2>4. ASSUME NEW i \in DOMAIN Steps, Passed(i)' PROVE Passed(i) \/ i = k
    <3>1. ready \/ i < k + 1
      BY <2>2, <2>3, <2>4, GoesPast
    <3> QED
      BY <2>1, <2>2, <3>1 DEF Passed
  <2>5. Held(Steps[k].at)'
    <3>1. Steps[k].at \in Locations
      BY <2>3, StepKinds
    <3>2. "seed" \in objects'[Steps[k].at]
      BY <1>7, <2>1, <3>1 DEF Seed, Typing, LakeOK
    <3> QED
      BY <3>2 DEF Held
  <2>6. ~AtTtl
    BY <2>1, <2>3, StepFields DEF AtTtl
  <2>7. ASSUME NEW i \in DOMAIN Steps, Passed(i)', Steps[i].kind = "seed"
        PROVE  Held(Steps[i].at)'
    BY <1>1, <2>4, <2>5, <2>7
  <2>8. ASSUME NEW i \in DOMAIN Steps, Passed(i)', Steps[i].kind # "seed"
        PROVE  Done(Steps[i])'
    BY <1>2, <2>3, <2>4, <2>8
  <2>9. Step("cache", "") \in created' => Done(Step("ttl", ""))'
    BY <1>3, <2>3, <2>6 DEF BootInv
  <2> QED
    BY <2>7, <2>8, <2>9 DEF BootInv
<1>8. CASE BootStops
  <2>1. \A i \in DOMAIN Steps : Passed(i)' => Passed(i)
    BY <1>8, StepsLength DEF BootStops, Passed
  <2>2. AtTtl => Done(Step("ttl", ""))'
    <3>1. AtTtl => Steps[boot].kind = "ttl"
      BY StepFields DEF AtTtl
    <3> QED
      BY <1>8, <3>1 DEF BootStops, AtTtl, Done
  <2>3. created' = created
    BY <1>8 DEF BootStops
  <2> QED
    BY <1>1, <1>2, <1>3, <2>1, <2>2, <2>3 DEF BootInv
<1>9. CASE UNCHANGED script
  <2>1. /\ \A i : Passed(i)' = Passed(i)
        /\ AtTtl' = AtTtl /\ created' = created
    BY <1>9 DEF script, Passed, AtTtl
  <2> QED
    BY <1>1, <1>2, <1>3, <2>1 DEF BootInv
<1>10. /\ Land \/ RunStart \/ List \/ Delete \/ Write => UNCHANGED script
       /\ RunEnds \/ RunStops \/ UNCHANGED vars => UNCHANGED script
  BY DEF Land, RunStart, List, Delete, Write, RunEnds, RunStops, vars
<1>11. ASSUME NEW r \in Requests, Arrive(r) \/ Acquire(r) \/ Query(r)
       PROVE  UNCHANGED script
  BY <1>11 DEF Arrive, Acquire, Query, Glob, Read, Raise
<1> QED
  BY <1>5, <1>6, <1>7, <1>8, <1>9, <1>10, <1>11 DEF Next

-----------------------------------------------------------------------------
(* The theorems *)

Inv == Typing /\ RunInv /\ BootInv

LEMMA InvHolds == Spec => []Inv
<1>1. Init => Inv
  <2> SUFFICES ASSUME Init PROVE Inv
    OBVIOUS
  <2>1. Typing
    BY TypingInit
  <2>2. RunInv
    BY LocationsShape, OutputsShape DEF Init, RunInv
  <2>3. \A i \in DOMAIN Steps : ~Passed(i)
    BY StepsLength DEF Init, Passed
  <2>4. BootInv
    BY <2>3 DEF Init, BootInv
  <2> QED
    BY <2>1, <2>2, <2>4 DEF Inv
<1>2. Inv /\ [Next]_vars => Inv'
  BY TypingStep, RunInvStep, BootInvStep DEF Inv
<1> QED
  BY <1>1, <1>2, PTL DEF Spec

(* For any number of requests and metrics: every variable has its type, a  *)
(* request in flight waits for the engine's lock or holds it, and at most  *)
(* one holds it (duckdb.py).                                        *)
THEOREM TypeCorrect == Spec => []TypeOK
<1>1. Inv => TypeOK
  BY TypingIsType DEF Inv
<1> QED
  BY <1>1, InvHolds, PTL

(* A complete run of runner_local.py leaves every metric of the silver it  *)
(* refreshed, however many metrics there are and however often the scripts *)
(* were stopped.                                                           *)
THEOREM Consistent == Spec => []RunConsistent
<1>1. Inv => RunConsistent
  <2> SUFFICES ASSUME Inv, at > Len(Outputs) PROVE
               /\ \A i \in DOMAIN Outputs :
                    "data" \in objects[Outputs[i]] /\ content[Outputs[i]] = content["silver"]
               /\ content["silver"] >= base
    BY DEF RunConsistent
  <2>1. at > 1 /\ \A i \in DOMAIN Outputs : i < at
    BY OutputsShape DEF Inv, Typing, RunnerOK
  <2> QED
    BY <2>1 DEF Inv, RunInv
<1> QED
  BY <1>1, InvHolds, PTL

(* A completed bootstrap_local.py left out nothing but, at most, the       *)
(* cache's ttl, and no location is without objects from then on but while  *)
(* the runner is between its delete and its write there, or was stopped    *)
(* there.                                                                  *)
THEOREM BootsWhole == Spec => []BootstrapWhole
<1>1. Inv => BootstrapWhole
  <2> SUFFICES ASSUME Inv, ready PROVE
               /\ \A s \in ToSet(Steps) : s.kind # "seed" => s \in created \cup owed
               /\ \A l \in Locations :
                    objects[l] # {} \/ Rewriting(l) \/ Step("write", l) \in owed
    BY DEF BootstrapWhole
  <2>1. ASSUME NEW s \in ToSet(Steps), s.kind # "seed"
        PROVE  s \in created \cup owed
    <3>1. PICK i \in DOMAIN Steps : s = Steps[i]
      BY DEF ToSet
    <3> QED
      BY <2>1, <3>1 DEF Inv, BootInv, Passed, Done
  <2>2. ASSUME NEW l \in Locations
        PROVE  objects[l] # {} \/ Rewriting(l) \/ Step("write", l) \in owed
    <3>1. PICK i \in DOMAIN Steps : Steps[i].kind = "seed" /\ Steps[i].at = l
      BY SeedOf
    <3> QED
      BY <3>1 DEF Inv, BootInv, Passed, Held
  <2> QED
    BY <2>1, <2>2
<1> QED
  BY <1>1, InvHolds, PTL
=============================================================================
