---------------------------- MODULE AgentRoomProofs ----------------------------
(***************************************************************************)
(* The sessions and pipelines of a meeting, the reports of what has failed *)
(* and the texts that are relayed, for any number of participants,         *)
(* languages, slots and events, with proofs.                               *)
(*                                                                         *)
(* A session that no teardown has seen is in its dictionary until its      *)
(* stop() is called, or on the list of the stop_all that is to call it; of *)
(* the reports of a subject the last one counts, and the first one alone   *)
(* may have reached the meeting's row.                                     *)
(***************************************************************************)
EXTENDS AgentRoom, SequenceTheorems, FiniteSetTheorems, WellFoundedInduction, TLAPS

-----------------------------------------------------------------------------
(* What the helpers are.                                                   *)

LEMMA LeastElement ==
  ASSUME NEW T, T \subseteq Nat, T # {}
  PROVE  Min(T) \in T
<1>1. PICK x \in T : \A y \in T : <<y, x>> \notin OpToRel(<, Nat)
  BY NatLessThanWellFounded, WFMin
<1>2. \A y \in T : ~(y < x)
  BY <1>1 DEF OpToRel
<1>3. \A y \in T : x <= y
  BY <1>2
<1> QED
  BY <1>3 DEF Min

LEMMA MinOfTwo ==
  ASSUME NEW a \in Nat, NEW b \in Nat
  PROVE  Min({a, b}) = IF a <= b THEN a ELSE b
<1> DEFINE m == Min({a, b})
<1>1. \E x \in {a, b} : \A y \in {a, b} : x <= y
  OBVIOUS
<1>2. m \in {a, b} /\ m <= a /\ m <= b
  BY <1>1 DEF Min
<1> HIDE DEF m
<1>3. m = IF a <= b THEN a ELSE b
  BY <1>2
<1> QED
  BY <1>3 DEF m

\* An order of a set of keys: each of them at one place.
LEMMA OrderIs ==
  ASSUME NEW K, K \subseteq Keys
  PROVE  /\ SetToSeq(K) \in Seq(K)
         /\ \A n, m \in DOMAIN SetToSeq(K) : SetToSeq(K)[n] = SetToSeq(K)[m] => n = m
         /\ \A k \in K : \E n \in DOMAIN SetToSeq(K) : SetToSeq(K)[n] = k
<1> DEFINE c == Cardinality(K)
           f == SetToSeq(K)
<1>1. IsFiniteSet(K) /\ c \in Nat /\ ExistsBijection(1..c, K)
  BY FS_Subset, FS_CardinalityType, AgentRoomAssumption
<1>2. \E g \in [1..c -> K] : IsInjective(g)
  BY <1>1 DEF ExistsBijection, Bijection, Injection
<1>3. f \in [1..c -> K] /\ IsInjective(f)
  BY <1>2 DEF SetToSeq
<1> HIDE DEF f
<1>4. f \in Injection(1..c, K)
  BY <1>3 DEF Injection
<1>5. Cardinality(1..c) = c
  BY <1>1, FS_Interval
<1>6. f \in Surjection(1..c, K)
  <2> HIDE DEF c
  <2> QED
    BY <1>1, <1>4, <1>5, FS_Injection DEF c
<1>7. \A k \in K : \E n \in DOMAIN f : f[n] = k
  BY <1>3, <1>6 DEF Surjection
<1>8. f \in Seq(K)
  <2> HIDE DEF c
  <2> QED
    BY <1>1, <1>3, SeqDef
<1> QED
  BY <1>3, <1>7, <1>8 DEF f, IsInjective

LEMMA RemovedAt ==
  ASSUME NEW S, NEW s \in Seq(S), NEW n \in 1..Len(s)
  PROVE  /\ RemoveAt(s, n) \in Seq(S)
         /\ Len(RemoveAt(s, n)) = Len(s) - 1
         /\ \A i \in 1..Len(s) - 1 : RemoveAt(s, n)[i] = IF i < n THEN s[i] ELSE s[i + 1]
<1> DEFINE a == SubSeq(s, 1, n - 1)
           b == SubSeq(s, n + 1, Len(s))
           t == RemoveAt(s, n)
<1>1. Len(s) \in Nat /\ n \in Int /\ 1 <= n /\ n <= Len(s)
  BY LenProperties
<1>2. \A i \in 1..Len(s) : s[i] \in S
  BY ElementOfSeq
<1>3. /\ a \in Seq(S) /\ Len(a) = n - 1
      /\ \A i \in 1..n - 1 : a[i] = s[i]
  <2>1. \A i \in 1..n - 1 : s[i] \in S
    BY <1>1, <1>2
  <2>2. /\ a \in Seq(S) /\ Len(a) = IF 1 <= n - 1 THEN n - 1 - 1 + 1 ELSE 0
        /\ \A i \in 1..(n - 1) - 1 + 1 : a[i] = s[1 + i - 1]
    BY <1>1, <2>1, SubSeqProperties
  <2> QED
    BY <1>1, <2>2
<1>4. /\ b \in Seq(S) /\ Len(b) = Len(s) - n
      /\ \A i \in 1..Len(s) - n : b[i] = s[n + i]
  <2>1. \A i \in n + 1..Len(s) : s[i] \in S
    BY <1>1, <1>2
  <2>2. /\ b \in Seq(S) /\ Len(b) = IF n + 1 <= Len(s) THEN Len(s) - (n + 1) + 1 ELSE 0
        /\ \A i \in 1..Len(s) - (n + 1) + 1 : b[i] = s[(n + 1) + i - 1]
    BY <1>1, <2>1, SubSeqProperties
  <2> QED
    BY <1>1, <2>2
<1>5. t = a \o b
  BY DEF RemoveAt
<1> HIDE DEF a, b, t
<1>6. /\ t \in Seq(S) /\ Len(t) = Len(s) - 1
      /\ \A i \in 1..Len(a) + Len(b) : t[i] = IF i <= Len(a) THEN a[i] ELSE b[i - Len(a)]
  <2>1. /\ t \in Seq(S) /\ Len(t) = Len(a) + Len(b)
        /\ \A i \in 1..Len(a) + Len(b) : t[i] = IF i <= Len(a) THEN a[i] ELSE b[i - Len(a)]
    BY <1>3, <1>4, <1>5, ConcatProperties
  <2>2. Len(a) + Len(b) = Len(s) - 1
    BY <1>1, <1>3, <1>4
  <2> QED
    BY <2>1, <2>2
<1>7. ASSUME NEW i \in 1..Len(s) - 1 PROVE t[i] = IF i < n THEN s[i] ELSE s[i + 1]
  <2>1. t[i] = IF i <= n - 1 THEN a[i] ELSE b[i - (n - 1)]
    BY <1>1, <1>3, <1>4, <1>6
  <2>2. CASE i < n
    BY <1>1, <1>3, <2>1, <2>2
  <2>3. CASE ~(i < n)
    <3>1. i - (n - 1) \in 1..Len(s) - n /\ n + (i - (n - 1)) = i + 1
      BY <1>1, <2>3
    <3> QED
      BY <1>1, <1>4, <2>1, <2>3, <3>1
  <2> QED
    BY <2>2, <2>3
<1> QED
  BY <1>6, <1>7 DEF t

-----------------------------------------------------------------------------
(* The sessions and pipelines, as the callbacks of the room leave them.    *)

Points == {"launched", "refused", "mute", "waiting", "publishing", "trying", "open", "closed"}

\* A session is of a participant, a pipeline of a language.
Work ==
  {w \in [kind : {"stt", "dub"}, key : Keys, lang : Languages, pc : Points, slot : BOOLEAN, fails : Nat,
          late : BOOLEAN, misled : BOOLEAN] : (w.kind = "stt") <=> (w.key \in People)}

AgentType(a) ==
  /\ a \in [works : Seq(Work), current : [Keys -> Nat], stops : SUBSET Nat]
  /\ a.stops \subseteq DOMAIN a.works

\* What the dictionaries hold is theirs; what they do not hold is being stopped,
\* unless it was added during the teardown; what has ended was stopped.
AgentInv(a) ==
  /\ AgentType(a)
  /\ \A k \in Keys : a.current[k] # 0 => a.current[k] \in DOMAIN a.works /\ a.works[a.current[k]].key = k
  /\ \A i \in DOMAIN a.works : ~a.works[i].late /\ i \notin a.stops => a.current[a.works[i].key] = i
  /\ \A i \in DOMAIN a.works : a.works[i].pc = "closed" => i \in a.stops

SameWork(v, w) ==
  /\ w.kind = v.kind /\ w.key = v.key /\ w.lang = v.lang /\ w.pc = v.pc /\ w.fails = v.fails /\ w.late = v.late
  /\ v.misled => w.misled

\* What a callback makes of the agent.
Grows(a, b) ==
  /\ DOMAIN a.works \subseteq DOMAIN b.works
  /\ \A i \in DOMAIN a.works : SameWork(a.works[i], b.works[i])
  /\ \A i \in DOMAIN b.works \ DOMAIN a.works :
       b.works[i].pc = "launched" /\ b.works[i].fails = 0 /\ (b.works[i].late <=> phase \notin {"connecting", "on"})
  /\ a.stops \subseteq b.stops
  /\ \A k \in Keys : b.current[k] \in {0, a.current[k]} \cup (DOMAIN b.works \ DOMAIN a.works)

LEMMA GrowsOn ==
  ASSUME NEW a, NEW b, NEW c, Grows(a, b), Grows(b, c), AgentType(a), AgentType(b)
  PROVE  Grows(a, c)
<1>1. /\ DOMAIN a.works \subseteq DOMAIN b.works /\ DOMAIN b.works \subseteq DOMAIN c.works
      /\ a.stops \subseteq b.stops /\ b.stops \subseteq c.stops
  BY DEF Grows
<1>2. \A i \in DOMAIN a.works : SameWork(a.works[i], c.works[i])
  BY <1>1 DEF Grows, SameWork
<1>3. \A i \in DOMAIN c.works \ DOMAIN a.works :
        c.works[i].pc = "launched" /\ c.works[i].fails = 0 /\ (c.works[i].late <=> phase \notin {"connecting", "on"})
  BY <1>1 DEF Grows, SameWork
<1>4. \A k \in Keys : c.current[k] \in {0, a.current[k]} \cup (DOMAIN c.works \ DOMAIN a.works)
  BY <1>1 DEF Grows
<1> QED
  BY <1>1, <1>2, <1>3, <1>4 DEF Grows

LEMMA NewWorkIs ==
  ASSUME NEW kind, NEW k, NEW l
  PROVE  LET w == NewWork(kind, k, l) IN
         /\ w.kind = kind /\ w.key = k /\ w.lang = l /\ w.pc = "launched" /\ w.fails = 0
         /\ w.late <=> phase \notin {"connecting", "on"}
<1>1. LET w == NewWork(kind, k, l) IN w.kind = kind /\ w.key = k /\ w.lang = l /\ w.pc = "launched" /\ w.fails = 0
  BY DEF NewWork
<1>2. NewWork(kind, k, l).late <=> phase \notin {"connecting", "on"}
  BY Zenon DEF NewWork
<1> QED
  BY <1>1, <1>2

LEMMA KeysApart ==
  /\ \A k \in Keys : (k \in People) <=> (k \notin Languages)
  /\ People \subseteq Keys /\ Languages \subseteq Keys
BY AgentRoomAssumption DEF Keys

LEMMA DropIs ==
  ASSUME NEW a, AgentInv(a), NEW K, K \subseteq Keys
  PROVE  LET b == Drop(a, K) IN
         /\ AgentInv(b) /\ Grows(a, b) /\ b.works = a.works
         /\ b.stops = a.stops \cup ({a.current[k] : k \in K} \ {0})
         /\ \A k \in Keys : b.current[k] = IF k \in K THEN 0 ELSE a.current[k]
<1> DEFINE b == Drop(a, K)
<1>1. /\ b.works = a.works
      /\ b.stops = a.stops \cup ({a.current[k] : k \in K} \ {0})
      /\ b.current = [k \in Keys |-> IF k \in K THEN 0 ELSE a.current[k]]
  BY DEF Drop, AgentInv, AgentType
<1> HIDE DEF b
<1>2. AgentType(b)
  <2>1. b.current \in [Keys -> Nat]
    BY <1>1 DEF AgentInv, AgentType
  <2>2. {a.current[k] : k \in K} \ {0} \subseteq DOMAIN a.works
    BY DEF AgentInv
  <2>3. b.stops \subseteq DOMAIN b.works /\ b.stops \subseteq Nat
    BY <1>1, <2>2 DEF AgentInv, AgentType
  <2> DEFINE cu == [k \in Keys |-> IF k \in K THEN 0 ELSE a.current[k]]
             st == a.stops \cup ({a.current[k] : k \in K} \ {0})
  <2>4. cu \in [Keys -> Nat] /\ st \in SUBSET Nat
    BY <1>1, <2>1, <2>3
  <2>5. b = [a EXCEPT !.stops = st, !.current = cu]
    BY DEF b, Drop
  <2> HIDE DEF cu, st
  <2>6. b \in [works : Seq(Work), current : [Keys -> Nat], stops : SUBSET Nat]
    BY <2>4, <2>5 DEF AgentInv, AgentType
  <2> QED
    BY <2>3, <2>6 DEF AgentType
<1>3. AgentInv(b)
  <2>1. ASSUME NEW i \in DOMAIN b.works, ~b.works[i].late, i \notin b.stops
        PROVE  b.current[b.works[i].key] = i
    <3>1. a.current[a.works[i].key] = i /\ i \notin a.stops /\ i \in DOMAIN a.works
      BY <1>1, <2>1 DEF AgentInv
    <3>2. a.works[i].key \in Keys /\ i # 0
      <4>1. i \in 1..Len(a.works) /\ a.works[i] \in Work
        BY <3>1, ElementOfSeq, LenProperties DEF AgentInv, AgentType
      <4> QED
        BY <4>1 DEF Work
    <3>3. a.works[i].key \notin K
      BY <1>1, <2>1, <3>1, <3>2
    <3> QED
      BY <1>1, <3>1, <3>2, <3>3
  <2> QED
    BY <1>1, <1>2, <2>1 DEF AgentInv
<1>4. Grows(a, b)
  BY <1>1 DEF Grows, SameWork, AgentInv, AgentType
<1> QED
  BY <1>1, <1>3, <1>4 DEF b

\* What Launch takes.
Startable(a, kind, K, lang) ==
  /\ K \subseteq Keys /\ \A k \in K : lang[k] \in Languages /\ a.current[k] = 0
  /\ (kind = "stt" /\ K \subseteq People) \/ (kind = "dub" /\ K \subseteq Languages)

LEMMA LaunchIs ==
  ASSUME NEW a, AgentInv(a), NEW kind, NEW K, NEW lang, Startable(a, kind, K, lang)
  PROVE  LET b == Launch(a, kind, K, lang) IN
         /\ AgentInv(b) /\ Grows(a, b)
         /\ b.stops = a.stops /\ \A i \in DOMAIN a.works : b.works[i] = a.works[i]
         /\ \A k \in K : b.current[k] \in DOMAIN b.works \ DOMAIN a.works /\ b.works[b.current[k]].lang = lang[k]
         /\ \A k \in Keys \ K : b.current[k] = a.current[k]
<1> DEFINE b == Launch(a, kind, K, lang)
           order == SetToSeq(K)
           Place(k) == CHOOSE n \in DOMAIN order : order[n] = k
           new == [n \in DOMAIN order |-> NewWork(kind, order[n], lang[order[n]])]
           la == Len(a.works)
           lo == Len(order)
<1>0. /\ K \subseteq Keys /\ \A k \in K : lang[k] \in Languages /\ a.current[k] = 0
      /\ (kind = "stt" /\ K \subseteq People) \/ (kind = "dub" /\ K \subseteq Languages)
  BY DEF Startable
<1> USE <1>0
<1>1. /\ b.works = a.works \o new /\ b.stops = a.stops
      /\ b.current = [k \in Keys |-> IF k \in K THEN la + Place(k) ELSE a.current[k]]
  BY DEF Launch, AgentInv, AgentType
<1>2. /\ order \in Seq(K) /\ DOMAIN order = 1..lo /\ lo \in Nat
      /\ \A n \in 1..lo : order[n] \in K
      /\ \A n, m \in 1..lo : order[n] = order[m] => n = m
      /\ \A k \in K : \E n \in 1..lo : order[n] = k
  BY OrderIs, LenProperties, ElementOfSeq
<1> HIDE DEF order
<1>3. \A k \in K : Place(k) \in 1..lo /\ order[Place(k)] = k
  BY <1>2
<1>4. \A n \in 1..lo : Place(order[n]) = n
  BY <1>2
<1> HIDE DEF Place, b, lo
<1>5. new \in Seq(Work) /\ Len(new) = lo /\ \A n \in 1..lo : new[n] = NewWork(kind, order[n], lang[order[n]])
  <2>1. ASSUME NEW n \in 1..lo PROVE NewWork(kind, order[n], lang[order[n]]) \in Work
    <3> DEFINE k == order[n]
    <3>1. k \in K /\ k \in Keys /\ lang[k] \in Languages
      BY <1>2
    <3>2. (kind = "stt") <=> (k \in People)
      BY <3>1, KeysApart
    <3> HIDE DEF k
    <3>3. (phase \notin {"connecting", "on"}) \in BOOLEAN
      BY Zenon
    <3>4. NewWork(kind, k, lang[k]) \in Work
      BY <3>1, <3>2, <3>3 DEF NewWork, Work, Points
    <3> QED
      BY <3>4 DEF k
  <2>2. new \in [1..lo -> Work]
    BY <1>2, <2>1
  <2>3. new \in Seq(Work) /\ DOMAIN new = 1..lo
    BY <1>2, <2>2, SeqDef
  <2>4. Len(new) = lo
    BY <1>2, <2>3, LenProperties
  <2> QED
    BY <1>2, <2>3, <2>4
<1> HIDE DEF new
<1>6. /\ a.works \in Seq(Work) /\ la \in Nat /\ DOMAIN a.works = 1..la
      /\ a.current \in [Keys -> Nat] /\ a.stops \subseteq 1..la
      /\ \A i \in 1..la : a.works[i] \in Work /\ a.works[i].key \in Keys
  BY LenProperties, ElementOfSeq DEF AgentInv, AgentType, Work
<1> HIDE DEF la
<1>7. /\ b.works \in Seq(Work) /\ DOMAIN b.works = 1..la + lo
      /\ \A i \in 1..la : b.works[i] = a.works[i]
      /\ \A n \in 1..lo : b.works[la + n] = NewWork(kind, order[n], lang[order[n]])
  <2>1. /\ b.works \in Seq(Work) /\ Len(b.works) = la + lo
        /\ \A i \in 1..la + lo : b.works[i] = IF i <= la THEN a.works[i] ELSE new[i - la]
    <3>1. /\ a.works \o new \in Seq(Work) /\ Len(a.works \o new) = la + Len(new)
          /\ \A i \in 1..la + Len(new) : (a.works \o new)[i] = IF i <= la THEN a.works[i] ELSE new[i - la]
      BY <1>5, <1>6, ConcatProperties DEF la
    <3> QED
      BY <1>1, <1>5, <3>1
  <2>2. DOMAIN b.works = 1..la + lo
    BY <2>1, LenProperties
  <2>3. \A i \in 1..la : b.works[i] = a.works[i]
    BY <1>2, <1>6, <2>1
  <2>4. ASSUME NEW n \in 1..lo PROVE b.works[la + n] = new[n]
    <3>1. la + n \in 1..la + lo /\ ~(la + n <= la) /\ (la + n) - la = n
      BY <1>2, <1>6
    <3> QED
      BY <2>1, <3>1
  <2> QED
    BY <1>5, <2>1, <2>2, <2>3, <2>4
<1>8. \A i \in (1..la + lo) \ (1..la) : i - la \in 1..lo /\ la + (i - la) = i
  BY <1>2, <1>6
<1>9. \A k \in K : /\ b.current[k] = la + Place(k)
                   /\ b.current[k] \in (1..la + lo) \ (1..la)
                   /\ b.works[b.current[k]] = NewWork(kind, k, lang[k])
  <2> TAKE k \in K
  <2>1. b.current[k] = la + Place(k) /\ Place(k) \in 1..lo /\ order[Place(k)] = k
    BY <1>1, <1>3
  <2>2. la + Place(k) \in (1..la + lo) \ (1..la)
    BY <1>2, <1>6, <2>1
  <2> QED
    BY <1>7, <2>1, <2>2
<1>10. \A k \in Keys \ K : b.current[k] = a.current[k]
  BY <1>1
<1>11. AgentType(b)
  <2>1. b.current \in [Keys -> Nat]
    <3>1. \A k \in Keys : b.current[k] \in Nat
      BY <1>2, <1>6, <1>9, <1>10
    <3> QED
      BY <1>1, <3>1
  <2>2. b.stops \subseteq 1..la + lo /\ b.stops \subseteq Nat
    BY <1>1, <1>2, <1>6
  <2> DEFINE cu == [k \in Keys |-> IF k \in K THEN la + Place(k) ELSE a.current[k]]
             wo == a.works \o new
  <2>3. cu \in [Keys -> Nat] /\ wo \in Seq(Work)
    BY <1>1, <1>7, <2>1
  <2>4. b = [a EXCEPT !.works = wo, !.current = cu]
    BY DEF b, Launch, la, Place, order, new
  <2> HIDE DEF cu, wo
  <2>5. b \in [works : Seq(Work), current : [Keys -> Nat], stops : SUBSET Nat]
    BY <2>3, <2>4 DEF AgentInv, AgentType
  <2> QED
    BY <1>7, <2>2, <2>5 DEF AgentType
<1>12. AgentInv(b)
  <2>1. ASSUME NEW k \in Keys, b.current[k] # 0
        PROVE  b.current[k] \in DOMAIN b.works /\ b.works[b.current[k]].key = k
    <3>1. CASE k \in K
      BY <1>7, <1>9, <3>1, NewWorkIs
    <3>2. CASE k \notin K
      <4>1. a.current[k] \in 1..la /\ a.works[a.current[k]].key = k
        BY <1>6, <1>10, <2>1, <3>2 DEF AgentInv
      <4>2. a.current[k] \in 1..la + lo
        BY <1>2, <1>6, <4>1
      <4> QED
        BY <1>7, <1>10, <3>2, <4>1, <4>2
    <3> QED
      BY <3>1, <3>2
  <2>2. ASSUME NEW i \in DOMAIN b.works, ~b.works[i].late, i \notin b.stops
        PROVE  b.current[b.works[i].key] = i
    <3>1. CASE i \in 1..la
      <4>1. a.current[a.works[i].key] = i /\ b.works[i] = a.works[i] /\ a.works[i].key \in Keys
        BY <1>1, <1>6, <1>7, <2>2, <3>1 DEF AgentInv
      <4>2. a.works[i].key \notin K
        BY <1>6, <3>1, <4>1
      <4> QED
        BY <1>10, <4>1, <4>2
    <3>2. CASE i \notin 1..la
      <4> DEFINE n == i - la
      <4>1. n \in 1..lo /\ la + n = i
        BY <1>7, <1>8, <2>2, <3>2
      <4> HIDE DEF n
      <4>2. b.works[i].key = order[n] /\ order[n] \in K /\ Place(order[n]) = n
        BY <1>2, <1>4, <1>7, <4>1, NewWorkIs
      <4> QED
        BY <1>9, <4>1, <4>2
    <3> QED
      BY <3>1, <3>2
  <2>3. ASSUME NEW i \in DOMAIN b.works, b.works[i].pc = "closed" PROVE i \in b.stops
    <3>1. CASE i \in 1..la
      BY <1>1, <1>6, <1>7, <2>3, <3>1 DEF AgentInv
    <3>2. CASE i \notin 1..la
      BY <1>7, <1>8, <2>3, <3>2, NewWorkIs
    <3> QED
      BY <3>1, <3>2
  <2> QED
    BY <1>11, <2>1, <2>2, <2>3 DEF AgentInv
<1>13. Grows(a, b)
  <2>1. ASSUME NEW i \in DOMAIN b.works \ DOMAIN a.works
        PROVE  b.works[i].pc = "launched" /\ b.works[i].fails = 0
               /\ (b.works[i].late <=> phase \notin {"connecting", "on"})
    BY <1>6, <1>7, <1>8, <2>1, NewWorkIs
  <2>2. 1..la \subseteq 1..la + lo
    BY <1>2, <1>6
  <2>3. \A k \in Keys : b.current[k] \in {0, a.current[k]} \cup (DOMAIN b.works \ DOMAIN a.works)
    BY <1>6, <1>7, <1>9, <1>10
  <2> QED
    BY <1>1, <1>6, <1>7, <2>1, <2>2, <2>3 DEF Grows, SameWork
<1>14. \A k \in K : b.works[b.current[k]].lang = lang[k]
  BY <1>9, NewWorkIs
<1>15. \A k \in K : b.current[k] \in DOMAIN b.works \ DOMAIN a.works
  BY <1>6, <1>7, <1>9
<1>16. b.stops = a.stops /\ \A i \in DOMAIN a.works : b.works[i] = a.works[i]
  BY <1>1, <1>6, <1>7
<1> QED
  BY <1>10, <1>12, <1>13, <1>14, <1>15, <1>16 DEF b

-----------------------------------------------------------------------------
(* Sessions follow their speakers, and pipelines the languages.            *)

PersonFollows(who, a, p) ==
  /\ who[p].at = "out" => a.current[p] = 0
  /\ a.current[p] # 0 => a.works[a.current[p]].lang = who[p].spoken /\ a.current[p] \notin a.stops
  /\ who[p].at = "mic" /\ a.current[p] = 0 => \E i \in DOMAIN a.works : a.works[i].key = p /\ a.works[i].misled

LanguagesFollow(who, a) == {l \in Languages : a.current[l] # 0} = DubbedLanguages(who)

AllFollow(who, a) == (\A p \in People : PersonFollows(who, a, p)) /\ LanguagesFollow(who, a)

LEMMA DropSpares ==
  ASSUME NEW a, AgentInv(a), NEW K, K \subseteq Keys, NEW who, NEW p \in People, p \notin K, PersonFollows(who, a, p)
  PROVE  PersonFollows(who, Drop(a, K), p)
<1> DEFINE b == Drop(a, K)
<1>1. /\ b.works = a.works /\ b.current[p] = a.current[p] /\ p \in Keys
      /\ b.stops = a.stops \cup ({a.current[k] : k \in K} \ {0})
  BY DropIs, KeysApart
<1> HIDE DEF b
<1>2. a.current[p] # 0 => a.current[p] \notin {a.current[k] : k \in K}
  BY <1>1 DEF AgentInv
<1> QED
  BY <1>1, <1>2 DEF PersonFollows, b

LEMMA DropSettles ==
  ASSUME NEW a, AgentInv(a), NEW K, K \subseteq Keys, NEW who, NEW p \in People, p \in K, who[p].at # "mic"
  PROVE  PersonFollows(who, Drop(a, K), p)
BY DropIs, KeysApart DEF PersonFollows

LEMMA LaunchFollows ==
  ASSUME NEW a, AgentInv(a), NEW kind, NEW K, NEW lang, Startable(a, kind, K, lang), NEW who, NEW p \in People,
         IF p \in K THEN who[p].at # "out" /\ who[p].spoken = lang[p] ELSE PersonFollows(who, a, p)
  PROVE  PersonFollows(who, Launch(a, kind, K, lang), p)
<1> DEFINE b == Launch(a, kind, K, lang)
<1>1. /\ AgentInv(b) /\ Grows(a, b) /\ p \in Keys /\ b.stops = a.stops
      /\ \A i \in DOMAIN a.works : b.works[i] = a.works[i]
      /\ p \in K => b.current[p] \in DOMAIN b.works \ DOMAIN a.works /\ b.works[b.current[p]].lang = lang[p]
      /\ p \notin K => b.current[p] = a.current[p]
  BY LaunchIs, KeysApart
<1> HIDE DEF b
<1>2. a.stops \subseteq DOMAIN a.works /\ DOMAIN a.works \subseteq DOMAIN b.works /\ 0 \notin DOMAIN b.works
  BY <1>1, LenProperties DEF AgentInv, AgentType, Grows
<1>3. CASE p \in K
  BY <1>1, <1>2, <1>3 DEF PersonFollows, b
<1>4. CASE p \notin K
  <2>1. a.current[p] # 0 => a.current[p] \in DOMAIN a.works
    BY <1>1 DEF AgentInv
  <2> QED
    BY <1>1, <1>2, <1>4, <2>1 DEF PersonFollows, b
<1> QED
  BY <1>3, <1>4

LEMMA DubbedAreLanguages ==
  ASSUME NEW who \in [People -> Person]
  PROVE  DubbedLanguages(who) \subseteq Languages
BY DEF DubbedLanguages, Here, Person

LEMMA SyncIs ==
  ASSUME NEW a, AgentInv(a), NEW who \in [People -> Person]
  PROVE  LET b == Sync(a, who) IN
         /\ AgentInv(b) /\ Grows(a, b) /\ LanguagesFollow(who, b)
         /\ \A p \in People : PersonFollows(who, a, p) => PersonFollows(who, b, p)
<1> DEFINE needed == DubbedLanguages(who)
           active == {l \in Languages : a.current[l] # 0}
           lang == [l \in Languages |-> l]
           b == Launch(a, "dub", needed \ active, lang)
           c == Drop(b, active \ needed)
<1>1. c = Sync(a, who)
  BY DEF Sync
<1>2. Startable(a, "dub", needed \ active, lang) /\ needed \subseteq Languages /\ active \subseteq Keys
      /\ Languages \subseteq Keys
  BY DubbedAreLanguages, KeysApart DEF Startable
<1> HIDE DEF needed, lang
<1>3. /\ AgentInv(b) /\ Grows(a, b)
      /\ \A l \in needed \ active : b.current[l] \in DOMAIN b.works \ DOMAIN a.works
      /\ \A k \in Keys \ (needed \ active) : b.current[k] = a.current[k]
  BY <1>2, LaunchIs
<1>4. ASSUME NEW p \in People, PersonFollows(who, a, p) PROVE PersonFollows(who, b, p)
  BY <1>2, <1>4, LaunchFollows, KeysApart
<1> HIDE DEF b
<1>5. /\ AgentInv(c) /\ Grows(b, c)
      /\ \A k \in Keys : c.current[k] = IF k \in active \ needed THEN 0 ELSE b.current[k]
  BY <1>2, <1>3, DropIs
<1>6. ASSUME NEW p \in People, PersonFollows(who, b, p) PROVE PersonFollows(who, c, p)
  BY <1>2, <1>3, <1>6, DropSpares, KeysApart
<1> HIDE DEF c
<1>7. \A l \in Languages : c.current[l] # 0 <=> l \in needed
  <2>1. 0 \notin DOMAIN b.works
    BY <1>3, LenProperties DEF AgentInv, AgentType
  <2> QED
    BY <1>2, <1>3, <1>5, <2>1
<1>8. LanguagesFollow(who, c)
  BY <1>2, <1>7 DEF LanguagesFollow, needed
<1>9. Grows(a, c)
  BY <1>3, <1>5, GrowsOn DEF AgentInv
<1> QED
  BY <1>1, <1>4, <1>5, <1>6, <1>8, <1>9

\* An operation on the session of p, whatever its attributes are.
Touches(a, b, p) ==
  /\ AgentInv(b) /\ Grows(a, b)
  /\ \A l \in Languages : b.current[l] = a.current[l]
  /\ \A who \in [People -> Person], q \in People \ {p} : PersonFollows(who, a, q) => PersonFollows(who, b, q)

LEMMA TouchesOn ==
  ASSUME NEW a, NEW b, NEW c, NEW p, AgentInv(a), Touches(a, b, p), Touches(b, c, p)
  PROVE  Touches(a, c, p)
<1>1. Grows(a, c)
  BY GrowsOn DEF Touches, AgentInv
<1> QED
  BY <1>1 DEF Touches

LEMMA DropTouches ==
  ASSUME NEW a, AgentInv(a), NEW p \in People
  PROVE  /\ Touches(a, Drop(a, {p}), p) /\ Drop(a, {p}).current[p] = 0
         /\ \A who : who[p].at # "mic" => PersonFollows(who, Drop(a, {p}), p)
<1> DEFINE b == Drop(a, {p})
<1>1. {p} \subseteq Keys /\ p \notin Languages /\ Languages \subseteq Keys
  BY KeysApart
<1>2. AgentInv(b) /\ Grows(a, b) /\ \A k \in Keys : b.current[k] = IF k \in {p} THEN 0 ELSE a.current[k]
  BY <1>1, DropIs
<1>3. \A who : \A q \in People \ {p} : PersonFollows(who, a, q) => PersonFollows(who, b, q)
  BY <1>1, DropSpares
<1>4. \A who : who[p].at # "mic" => PersonFollows(who, b, p)
  BY <1>1, DropSettles
<1> HIDE DEF b
<1>5. \A l \in Languages : b.current[l] = a.current[l]
  BY <1>1, <1>2
<1>6. Touches(a, b, p)
  BY Zenon, <1>2, <1>3, <1>5 DEF Touches
<1> QED
  BY <1>1, <1>2, <1>4, <1>6 DEF b

LEMMA AddTouches ==
  ASSUME NEW a, AgentInv(a), NEW p \in People, NEW who \in [People -> Person], who[p].at # "out",
         a.current[p] # 0 => PersonFollows(who, a, p)
  PROVE  Touches(a, AddSpeaker(a, who, p), p) /\ PersonFollows(who, AddSpeaker(a, who, p), p)
<1> DEFINE b == Launch(a, "stt", {p}, Spoken(who))
<1>1. CASE a.current[p] # 0
  <2>1. AddSpeaker(a, who, p) = a
    BY <1>1 DEF AddSpeaker
  <2>2. Touches(a, a, p)
    BY DEF Touches, Grows, SameWork
  <2> QED
    BY <1>1, <2>1, <2>2
<1>2. CASE a.current[p] = 0
  <2>1. AddSpeaker(a, who, p) = b
    BY <1>2 DEF AddSpeaker
  <2>2. Startable(a, "stt", {p}, Spoken(who)) /\ Spoken(who)[p] = who[p].spoken
    <3>1. Spoken(who)[p] = who[p].spoken
      BY DEF Spoken
    <3>2. who[p].spoken \in Languages
      BY DEF Person
    <3> QED
      BY <1>2, <3>1, <3>2, KeysApart DEF Startable
  <2>3. AgentInv(b) /\ Grows(a, b) /\ \A k \in Keys \ {p} : b.current[k] = a.current[k]
    BY <2>2, LaunchIs
  <2>4. \A v : \A q \in People \ {p} : PersonFollows(v, a, q) => PersonFollows(v, b, q)
    BY <2>2, LaunchFollows
  <2>5. PersonFollows(who, b, p)
    BY <2>2, LaunchFollows
  <2> HIDE DEF b
  <2>6. \A l \in Languages : b.current[l] = a.current[l]
    BY <2>3, KeysApart
  <2>7. Touches(a, b, p)
    BY Zenon, <2>3, <2>4, <2>6 DEF Touches
  <2> QED
    BY <2>1, <2>5, <2>7 DEF b
<1> QED
  BY <1>1, <1>2

\* What a callback has to make of the agent, when who is there is known.
Answers(who, b) ==
  /\ who \in [People -> Person] /\ AgentInv(b) /\ Grows(Agent, b)
  /\ AllFollow(people, Agent) => AllFollow(who, b)

RoomOk == people \in [People -> Person] /\ AgentInv(Agent)

LEMMA GrowsItself ==
  ASSUME NEW a
  PROVE  Grows(a, a)
BY DEF Grows, SameWork

LEMMA SameDubbed ==
  ASSUME NEW v, NEW w,
         \A q \in People : /\ (v[q].at # "out" /\ v[q].dubbed) <=> (w[q].at # "out" /\ w[q].dubbed)
                           /\ v[q].at # "out" /\ v[q].dubbed => w[q].reads = v[q].reads
  PROVE  DubbedLanguages(v) = DubbedLanguages(w)
BY DEF DubbedLanguages, Here

\* A participant changes, and of the sessions that one's alone.
LEMMA OneAnswers ==
  ASSUME RoomOk, NEW p \in People, NEW x \in Person, NEW b, Touches(Agent, b, p),
         AllFollow(people, Agent) => PersonFollows([people EXCEPT ![p] = x], b, p)
  PROVE  LET who == [people EXCEPT ![p] = x] IN
         /\ who \in [People -> Person] /\ who[p] = x /\ AgentInv(b) /\ Grows(Agent, b)
         /\ AllFollow(people, Agent) => \A q \in People : PersonFollows(who, b, q)
         /\ Answers(who, Sync(b, who))
         /\ DubbedLanguages(who) = DubbedLanguages(people) => Answers(who, b)
<1> DEFINE who == [people EXCEPT ![p] = x]
<1>1. who \in [People -> Person] /\ who[p] = x /\ \A q \in People \ {p} : who[q] = people[q]
  BY DEF RoomOk
<1>2. AgentInv(b) /\ Grows(Agent, b)
  BY DEF Touches
<1>3. ASSUME AllFollow(people, Agent), NEW q \in People PROVE PersonFollows(who, b, q)
  <2>1. CASE q = p
    BY <1>3, <2>1
  <2>2. CASE q # p
    <3>1. PersonFollows(people, b, q)
      BY <1>3, <2>2 DEF AllFollow, Touches, RoomOk
    <3> QED
      BY <1>1, <2>2, <3>1 DEF PersonFollows
  <2> QED
    BY <2>1, <2>2
<1> HIDE DEF who
<1>4. Answers(who, Sync(b, who))
  <2> DEFINE c == Sync(b, who)
  <2>1. /\ AgentInv(c) /\ Grows(b, c) /\ LanguagesFollow(who, c)
        /\ \A q \in People : PersonFollows(who, b, q) => PersonFollows(who, c, q)
    BY <1>1, <1>2, SyncIs
  <2> HIDE DEF c
  <2>2. Grows(Agent, c)
    BY <1>2, <2>1, GrowsOn DEF AgentInv, RoomOk
  <2>3. AllFollow(people, Agent) => AllFollow(who, c)
    BY <1>3, <2>1 DEF AllFollow
  <2> QED
    BY <1>1, <2>1, <2>2, <2>3 DEF Answers, c
<1>5. ASSUME DubbedLanguages(who) = DubbedLanguages(people) PROVE Answers(who, b)
  <2>1. ASSUME AllFollow(people, Agent) PROVE LanguagesFollow(who, b)
    <3>1. {l \in Languages : Agent.current[l] # 0} = DubbedLanguages(who)
      BY <1>5, <2>1 DEF AllFollow, LanguagesFollow
    <3>2. {l \in Languages : b.current[l] # 0} = {l \in Languages : Agent.current[l] # 0}
      BY DEF Touches
    <3> QED
      BY <3>1, <3>2 DEF LanguagesFollow
  <2> QED
    BY <1>1, <1>2, <1>3, <2>1 DEF Answers, AllFollow
<1> QED
  BY <1>1, <1>2, <1>3, <1>4, <1>5 DEF who

LEMMA AgentTouched ==
  ASSUME NEW a, AgentInv(a), NEW p
  PROVE  Touches(a, a, p)
BY GrowsItself DEF Touches

LEMMA NewcomerIs ==
  ASSUME NEW at \in {"out", "in", "published", "mic"}
  PROVE  /\ Newcomer(at) \in Person /\ Newcomer(at).at = at /\ ~Newcomer(at).dubbed
BY AgentRoomAssumption DEF Newcomer, Person

\* The event, who is there after it, and what the agent makes of it.
LEMMA ConnectedAnswers ==
  ASSUME RoomOk, NEW p \in People, Connected(p)
  PROVE  Answers(people', Agent')
<1> DEFINE x == Newcomer("in")
           who == [people EXCEPT ![p] = x]
<1>1. x \in Person /\ x.at = "in" /\ ~x.dubbed
  BY NewcomerIs
<1> HIDE DEF x
<1>2. people[p].at = "out" /\ people' = who /\ Agent' = Agent
  BY DEF Connected, Happens, Becomes, Agent, x
<1>3. AllFollow(people, Agent) => PersonFollows(who, Agent, p)
  BY <1>1, <1>2 DEF AllFollow, PersonFollows, RoomOk
<1>4. DubbedLanguages(who) = DubbedLanguages(people)
  BY <1>1, <1>2, SameDubbed DEF RoomOk
<1> HIDE DEF who
<1>5. Answers(who, Agent)
  BY <1>1, <1>3, <1>4, AgentTouched, OneAnswers DEF who, RoomOk
<1> QED
  BY <1>2, <1>5

LEMMA DisconnectedAnswers ==
  ASSUME RoomOk, NEW p \in People, Disconnected(p)
  PROVE  Answers(people', Agent')
<1> DEFINE x == Newcomer("out")
           who == [people EXCEPT ![p] = x]
           b == Drop(Agent, {p})
<1>1. x \in Person /\ x.at = "out"
  BY NewcomerIs
<1> HIDE DEF x
<1>2. Touches(Agent, b, p) /\ PersonFollows(who, b, p)
  BY <1>1, DropTouches DEF RoomOk
<1>3. people' = who /\ Agent' = Sync(b, who)
  <2>1. people' = who /\ Becomes(Sync(b, who))
    BY DEF Disconnected, Happens, x
  <2>2. AgentInv(Sync(b, who)) /\ who \in [People -> Person]
    BY <1>1, <1>2, SyncIs DEF Touches, RoomOk
  <2> HIDE DEF b, who
  <2> QED
    BY <2>1, <2>2 DEF Becomes, Agent, AgentInv, AgentType
<1> HIDE DEF b
<1>4. Answers(who, Sync(b, who))
  BY <1>1, <1>2, OneAnswers
<1> QED
  BY <1>3, <1>4

LEMMA BecomesIs ==
  ASSUME NEW a, AgentInv(a), Becomes(a)
  PROVE  Agent' = a
BY DEF Becomes, Agent, AgentInv, AgentType

LEMMA SubscribedAnswers ==
  ASSUME RoomOk, NEW p \in People, Subscribed(p)
  PROVE  Answers(people', Agent')
<1> DEFINE x == [people[p] EXCEPT !.at = "mic"]
           who == [people EXCEPT ![p].at = "mic"]
           b == AddSpeaker(Agent, who, p)
<1>1. people[p].at # "out" /\ people' = who /\ Becomes(Sync(b, who)) /\ people[p] \in Person
  BY DEF Subscribed, Happens, RoomOk
<1>2. x \in Person /\ x.at = "mic" /\ x.spoken = people[p].spoken
  BY <1>1 DEF Person
<1>3. who = [people EXCEPT ![p] = x]
  BY DEF RoomOk
<1> HIDE DEF x, who
<1>4. who \in [People -> Person] /\ who[p] = x
  BY <1>2, <1>3 DEF RoomOk
<1>5. Touches(Agent, b, p) /\ (AllFollow(people, Agent) => PersonFollows(who, b, p))
  <2>1. CASE Agent.current[p] = 0
    BY <1>2, <1>4, <2>1, AddTouches DEF RoomOk
  <2>2. CASE Agent.current[p] # 0
    <3>1. b = Agent
      BY <2>2 DEF AddSpeaker
    <3>2. AllFollow(people, Agent) => PersonFollows(who, Agent, p)
      BY <1>2, <1>4, <2>2 DEF AllFollow, PersonFollows
    <3> QED
      BY <3>1, <3>2, AgentTouched DEF RoomOk
  <2> QED
    BY <2>1, <2>2
<1> HIDE DEF b
<1>6. Answers(who, Sync(b, who))
  BY <1>2, <1>3, <1>5, OneAnswers
<1>7. Agent' = Sync(b, who)
  BY <1>1, <1>6, BecomesIs DEF Answers
<1> QED
  BY <1>1, <1>6, <1>7

LEMMA UnsubscribedAnswers ==
  ASSUME RoomOk, NEW p \in People, Unsubscribed(p)
  PROVE  Answers(people', Agent')
<1> DEFINE x == [people[p] EXCEPT !.at = "in"]
           who == [people EXCEPT ![p].at = "in"]
           b == Drop(Agent, {p})
<1>1. people[p].at = "mic" /\ people' = who /\ Becomes(b) /\ people[p] \in Person
  BY DEF Unsubscribed, Happens, RoomOk
<1>2. x \in Person /\ x.at = "in" /\ x.dubbed = people[p].dubbed /\ x.reads = people[p].reads
  BY <1>1 DEF Person
<1>3. who = [people EXCEPT ![p] = x]
  BY DEF RoomOk
<1> HIDE DEF x, who
<1>4. who \in [People -> Person] /\ who[p] = x /\ \A q \in People \ {p} : who[q] = people[q]
  BY <1>2, <1>3 DEF RoomOk
<1>5. Touches(Agent, b, p) /\ PersonFollows(who, b, p)
  BY <1>2, <1>4, DropTouches DEF RoomOk
<1>6. DubbedLanguages(people) = DubbedLanguages(who)
  <2>1. ASSUME NEW q \in People
        PROVE  /\ (people[q].at # "out" /\ people[q].dubbed) <=> (who[q].at # "out" /\ who[q].dubbed)
               /\ people[q].at # "out" /\ people[q].dubbed => who[q].reads = people[q].reads
    BY <1>1, <1>2, <1>4
  <2> QED
    BY <2>1, SameDubbed
<1> HIDE DEF b
<1>7. Answers(who, b)
  BY <1>2, <1>3, <1>5, <1>6, OneAnswers
<1>8. Agent' = b
  BY <1>1, <1>7, BecomesIs DEF Answers
<1> QED
  BY <1>1, <1>7, <1>8

LEMMA OtherUnsubscribedAnswers ==
  ASSUME RoomOk, NEW p \in People, OtherUnsubscribed(p)
  PROVE  Answers(people', Agent')
<1> DEFINE b == Drop(Agent, {p})
           i == current[p]
           c == [b EXCEPT !.works[i].misled = TRUE]
           w == [b.works[i] EXCEPT !.misled = TRUE]
<1>1. people[p].at = "mic" /\ i # 0 /\ people' = people /\ Becomes(c)
  BY DEF OtherUnsubscribed, Happens
<1>2. /\ Touches(Agent, b, p) /\ b.works = works /\ AgentInv(b) /\ Agent.works = works /\ p \in Keys
      /\ b.current[p] = 0
  BY DropTouches, DropIs, KeysApart DEF RoomOk, Agent, Touches
<1>3. i \in DOMAIN works /\ works[i].key = p /\ i \in 1..Len(works) /\ works[i] \in Work /\ works \in Seq(Work)
  <2>1. i \in DOMAIN works /\ works[i].key = p /\ works \in Seq(Work)
    BY <1>1, <1>2 DEF RoomOk, AgentInv, AgentType, Agent
  <2> QED
    BY <2>1, LenProperties, ElementOfSeq
<1>4. w \in Work /\ SameWork(works[i], w) /\ w.misled /\ w.key = p
  BY <1>2, <1>3 DEF Work, SameWork
<1>5. /\ c.current = b.current /\ c.stops = b.stops
      /\ c.works = [works EXCEPT ![i] = w]
      /\ c = [b EXCEPT !.works = [works EXCEPT ![i] = w]]
  BY <1>2 DEF AgentInv, AgentType
<1> HIDE DEF b, w, i, c
<1>6. /\ c.works \in Seq(Work) /\ DOMAIN c.works = DOMAIN works /\ c.works[i] = w
      /\ \A j \in DOMAIN works \ {i} : c.works[j] = works[j]
  <2>1. c.works \in Seq(Work)
    BY <1>3, <1>4, <1>5, ExceptSeq
  <2> QED
    BY <1>3, <1>5, <2>1
<1>7. \A j \in DOMAIN works : SameWork(works[j], c.works[j]) /\ c.works[j].key = works[j].key
  BY <1>4, <1>6 DEF SameWork
<1>8. AgentInv(c)
  <2>1. AgentType(c)
    BY <1>2, <1>5, <1>6 DEF AgentType, AgentInv
  <2>2. \A j \in DOMAIN works : c.works[j].late = works[j].late /\ c.works[j].pc = works[j].pc
    BY <1>7 DEF SameWork
  <2> QED
    BY <1>2, <1>5, <1>6, <1>7, <2>1, <2>2 DEF AgentInv
<1>9. Grows(b, c)
  BY <1>2, <1>5, <1>6, <1>7 DEF Grows
<1>10. \A who \in [People -> Person], q \in People \ {p} : PersonFollows(who, b, q) => PersonFollows(who, c, q)
  <2> TAKE who \in [People -> Person], q \in People \ {p}
  <2> HAVE PersonFollows(who, b, q)
  <2>1. q \in Keys /\ (b.current[q] # 0 => b.current[q] \in DOMAIN works)
    BY <1>2, KeysApart DEF AgentInv
  <2>2. \A j \in DOMAIN works : c.works[j].lang = works[j].lang /\ (works[j].misled => c.works[j].misled)
    BY <1>7 DEF SameWork
  <2> QED
    BY <1>2, <1>5, <1>6, <1>7, <2>1, <2>2 DEF PersonFollows
<1>11. Touches(b, c, p)
  BY <1>5, <1>8, <1>9, <1>10 DEF Touches
<1>12. Touches(Agent, c, p)
  BY <1>2, <1>11, TouchesOn DEF RoomOk
<1>13. PersonFollows(people, c, p)
  BY <1>1, <1>2, <1>3, <1>4, <1>5, <1>6 DEF PersonFollows
<1>14. people = [people EXCEPT ![p] = people[p]] /\ people[p] \in Person
  BY DEF RoomOk
<1>15. Answers(people, c)
  BY <1>12, <1>13, <1>14, OneAnswers
<1>16. Agent' = c
  BY <1>1, <1>8, BecomesIs
<1> QED
  BY <1>1, <1>15, <1>16

LEMMA RestartTouches ==
  ASSUME RoomOk, NEW p \in People, NEW who \in [People -> Person], who[p].at # "out",
         PersonFollows(people, Agent, p) => (Agent.current[p] = 0 => PersonFollows(who, Agent, p))
  PROVE  LET b == RestartSpeaker(Agent, who, p) IN
         Touches(Agent, b, p) /\ (PersonFollows(people, Agent, p) => PersonFollows(who, b, p))
<1> DEFINE b == Drop(Agent, {p})
           c == AddSpeaker(b, who, p)
<1>1. CASE Agent.current[p] = 0
  <2>1. RestartSpeaker(Agent, who, p) = Agent
    BY <1>1 DEF RestartSpeaker
  <2> QED
    BY <1>1, <2>1, AgentTouched DEF RoomOk
<1>2. CASE Agent.current[p] # 0
  <2>1. /\ Touches(Agent, b, p) /\ b.current[p] = 0 /\ AgentInv(b)
        /\ who[p].at # "mic" => PersonFollows(who, b, p)
    BY DropTouches DEF RoomOk, Touches
  <2> HIDE DEF b
  <2>2. CASE who[p].at \in {"published", "mic"}
    <3>1. RestartSpeaker(Agent, who, p) = c
      BY <1>2, <2>2 DEF RestartSpeaker, b
    <3>2. Touches(b, c, p) /\ PersonFollows(who, c, p)
      BY <2>1, AddTouches
    <3> HIDE DEF c
    <3> QED
      BY <2>1, <3>1, <3>2, TouchesOn DEF RoomOk
  <2>3. CASE who[p].at \notin {"published", "mic"}
    <3>1. RestartSpeaker(Agent, who, p) = b
      BY <1>2, <2>3 DEF RestartSpeaker, b
    <3> QED
      BY <2>1, <2>3, <3>1
  <2> QED
    BY <2>2, <2>3
<1> QED
  BY <1>1, <1>2

LEMMA AttributesAnswer ==
  ASSUME RoomOk, NEW p \in People, AttributesChanged(p)
  PROVE  Answers(people', Agent')
<1>1. PICK spoken \in Languages, reads \in Languages, dubbed \in BOOLEAN, said \in BOOLEAN :
        LET who == [people EXCEPT ![p].spoken = spoken, ![p].reads = reads, ![p].dubbed = dubbed]
            a == IF said THEN RestartSpeaker(Agent, who, p) ELSE Agent
            b == IF reads # people[p].reads \/ dubbed # people[p].dubbed THEN Sync(a, who) ELSE a
        IN  /\ people[p].at # "out"
            /\ spoken = people[p].spoken => (spoken = Default \/ ~said)
            /\ spoken # people[p].spoken => said
            /\ said \/ who # people
            /\ Happens(who, b)
  BY Zenon DEF AttributesChanged
<1> DEFINE x == [people[p] EXCEPT !.spoken = spoken, !.reads = reads, !.dubbed = dubbed]
           who == [people EXCEPT ![p] = x]
           a == IF said THEN RestartSpeaker(Agent, who, p) ELSE Agent
           b == IF reads # people[p].reads \/ dubbed # people[p].dubbed THEN Sync(a, who) ELSE a
<1>2. who = [people EXCEPT ![p].spoken = spoken, ![p].reads = reads, ![p].dubbed = dubbed]
  BY DEF RoomOk
<1>3. people[p].at # "out" /\ people' = who /\ Becomes(b)
  <2>1. people[p].at # "out" /\ Happens(who, b)
    BY <1>1, <1>2
  <2> HIDE DEF who, b
  <2> QED
    BY <2>1 DEF Happens
<1>4. people[p] \in Person
  BY DEF RoomOk
<1>5. x \in Person /\ x.at = people[p].at /\ x.spoken = spoken /\ x.reads = reads /\ x.dubbed = dubbed
  BY <1>4 DEF Person
<1> HIDE DEF x
<1>6. who \in [People -> Person] /\ who[p] = x /\ \A q \in People \ {p} : who[q] = people[q]
  BY <1>5 DEF RoomOk
<1> HIDE DEF who
<1>7. Touches(Agent, a, p) /\ (AllFollow(people, Agent) => PersonFollows(who, a, p))
  <2>1. CASE said
    <3>1. PersonFollows(people, Agent, p) => (Agent.current[p] = 0 => PersonFollows(who, Agent, p))
      BY <1>3, <1>5, <1>6 DEF PersonFollows
    <3> QED
      BY <1>3, <1>5, <1>6, <2>1, <3>1, RestartTouches DEF AllFollow
  <2>2. CASE ~said
    <3>0. spoken = people[p].spoken
      BY <1>1, <2>2
    <3>1. PersonFollows(people, Agent, p) => PersonFollows(who, Agent, p)
      BY <1>3, <1>5, <1>6, <3>0 DEF PersonFollows
    <3> QED
      BY <2>2, <3>1, AgentTouched DEF AllFollow, RoomOk
  <2> QED
    BY <2>1, <2>2
<1> HIDE DEF a
<1>8. Answers(who, b)
  <2>1. CASE reads # people[p].reads \/ dubbed # people[p].dubbed
    BY <1>5, <1>7, <2>1, OneAnswers DEF who
  <2>2. CASE ~(reads # people[p].reads \/ dubbed # people[p].dubbed)
    <3>1. DubbedLanguages(people) = DubbedLanguages(who)
      BY <1>5, <1>6, <2>2, SameDubbed
    <3> QED
      BY <1>5, <1>7, <2>2, <3>1, OneAnswers DEF who
  <2> QED
    BY <2>1, <2>2
<1>9. Agent' = b
  <2> HIDE DEF b
  <2> QED
    BY <1>3, <1>8, BecomesIs DEF Answers
<1> QED
  BY <1>3, <1>8, <1>9

\* run() finds the room with nobody heard yet.
LEMMA ConnectAnswers ==
  ASSUME RoomOk, Connect, \A k \in Keys : current[k] = 0, \A p \in People : people[p].at \in {"out", "published"}
  PROVE  AgentInv(Agent') /\ Grows(Agent, Agent') /\ AllFollow(people, Agent')
<1> DEFINE there == {p \in People : people[p].at = "published"}
           b == Launch(Agent, "stt", there, Spoken(people))
           c == Sync(b, people)
<1>1. Becomes(c)
  BY DEF Connect
<1>2. Startable(Agent, "stt", there, Spoken(people)) /\ \A p \in People : Spoken(people)[p] = people[p].spoken
  <2>1. \A p \in People : Spoken(people)[p] = people[p].spoken /\ people[p].spoken \in Languages
    BY DEF Spoken, Person, RoomOk
  <2>2. \A k \in Keys : Agent.current[k] = 0
    BY DEF Agent
  <2> QED
    BY <2>1, <2>2, KeysApart DEF Startable
<1>3. AgentInv(b) /\ Grows(Agent, b)
  BY <1>2, LaunchIs DEF RoomOk
<1>4. ASSUME NEW p \in People PROVE PersonFollows(people, b, p)
  <2>1. CASE p \in there
    BY <1>2, <2>1, LaunchFollows DEF RoomOk
  <2>2. CASE p \notin there
    <3>1. PersonFollows(people, Agent, p)
      BY <2>2, KeysApart DEF PersonFollows, Agent
    <3> QED
      BY <1>2, <2>2, <3>1, LaunchFollows DEF RoomOk
  <2> QED
    BY <2>1, <2>2
<1> HIDE DEF b
<1>5. AgentInv(c) /\ Grows(b, c) /\ LanguagesFollow(people, c) /\ \A p \in People : PersonFollows(people, c, p)
  BY <1>3, <1>4, SyncIs DEF RoomOk
<1> HIDE DEF c
<1>6. Grows(Agent, c)
  BY <1>3, <1>5, GrowsOn DEF AgentInv, RoomOk
<1>7. Agent' = c
  BY <1>1, <1>5, BecomesIs
<1> QED
  BY <1>5, <1>6, <1>7 DEF AllFollow

-----------------------------------------------------------------------------
(* The life of one session or pipeline.                                    *)

Down(w) == w.pc = "refused" \/ w.fails >= Threshold

Remains(v, w) == w.kind = v.kind /\ w.key = v.key /\ w.lang = v.lang /\ w.late = v.late /\ w.misled = v.misled

\* It ends when it is told to, and says so when it goes down or comes up.
Lives(i, w, report) ==
  /\ w \in Work /\ Remains(works[i], w) /\ (w.pc = "closed" => i \in stops)
  /\ \/ report = <<>> /\ (Down(works[i]) => (Down(w) \/ w.pc = "closed")) /\ (Down(w) => Down(works[i]))
     \/ report = Fault(i) /\ Down(w)
     \/ report = Recovery(i) /\ ~Down(w)

To(v, pc, slot, fails) == [v EXCEPT !.pc = pc, !.slot = slot, !.fails = fails]

LEMMA ChangedWork ==
  ASSUME NEW v \in Work
  PROVE  \A pc \in Points : \A slot \in BOOLEAN : \A fails \in Nat :
           /\ To(v, pc, slot, fails) \in Work /\ Remains(v, To(v, pc, slot, fails))
           /\ To(v, pc, slot, fails).pc = pc /\ To(v, pc, slot, fails).fails = fails
BY DEF Work, Remains, To

LEMMA WorkIs ==
  ASSUME NEW v \in Work
  PROVE  /\ v.pc \in Points /\ v.slot \in BOOLEAN /\ v.fails \in Nat
         /\ \A pc : [v EXCEPT !.pc = pc] = To(v, pc, v.slot, v.fails)
         /\ \A pc, slot : [v EXCEPT !.pc = pc, !.slot = slot] = To(v, pc, slot, v.fails)
         /\ \A pc, fails : [v EXCEPT !.pc = pc, !.fails = fails] = To(v, pc, v.slot, fails)
BY DEF Work, To

LEMMA LiveIs ==
  ASSUME RoomOk, NEW i \in DOMAIN works, Live(i)
  PROVE  \E w, report : Goes(i, w, report) /\ Lives(i, w, report)
<1> DEFINE v == works[i]
<1>1. v \in Work
  BY LenProperties, ElementOfSeq DEF RoomOk, AgentInv, AgentType, Agent
<1>0. v.pc \in Points /\ v.slot \in BOOLEAN /\ v.fails \in Nat
  BY <1>1, WorkIs
<1>2. /\ v.pc \in Points /\ v.slot \in BOOLEAN /\ v.fails \in Nat
      /\ \A pc : [v EXCEPT !.pc = pc] = To(v, pc, v.slot, v.fails)
      /\ \A pc, slot : [v EXCEPT !.pc = pc, !.slot = slot] = To(v, pc, slot, v.fails)
      /\ \A pc, fails : [v EXCEPT !.pc = pc, !.fails = fails] = To(v, pc, v.slot, fails)
  BY <1>1, WorkIs
<1>3. Threshold \in Nat \ {0}
  BY AgentRoomAssumption
<1>4. \A pc \in Points : \A slot \in BOOLEAN : \A fails \in Nat :
        /\ To(v, pc, slot, fails) \in Work /\ Remains(v, To(v, pc, slot, fails))
        /\ To(v, pc, slot, fails).pc = pc /\ To(v, pc, slot, fails).fails = fails
  BY <1>1, ChangedWork
\* What a step that reports nothing has to leave.
<1>5. ASSUME NEW pc \in Points \ {"refused", "closed"}, NEW slot \in BOOLEAN,
             Goes(i, To(v, pc, slot, v.fails), <<>>), v.pc # "refused"
      PROVE  \E w, report : Goes(i, w, report) /\ Lives(i, w, report)
  <2> DEFINE w == To(v, pc, slot, v.fails)
  <2>1. w \in Work /\ Remains(v, w) /\ w.pc = pc /\ w.fails = v.fails
    BY <1>0, <1>4, <1>5
  <2> HIDE DEF w
  <2>2. Lives(i, w, <<>>)
    BY <1>5, <2>1 DEF Lives, Down
  <2> QED
    BY <1>5, <2>2 DEF w
<1>6. ASSUME NEW slot \in BOOLEAN, Goes(i, To(v, "refused", slot, v.fails), Fault(i))
      PROVE  \E w, report : Goes(i, w, report) /\ Lives(i, w, report)
  <2> DEFINE w == To(v, "refused", slot, v.fails)
  <2>1. w \in Work /\ Remains(v, w) /\ w.pc = "refused"
    <3>1. "refused" \in Points
      BY DEF Points
    <3> QED
      BY <1>0, <1>4, <1>6, <3>1
  <2> HIDE DEF w
  <2>2. Lives(i, w, Fault(i))
    BY <2>1 DEF Lives, Down
  <2> QED
    BY <1>6, <2>2 DEF w
<1>7. ASSUME Goes(i, To(v, "closed", FALSE, 0), <<>>), i \in stops
      PROVE  \E w, report : Goes(i, w, report) /\ Lives(i, w, report)
  <2> DEFINE w == To(v, "closed", FALSE, 0)
  <2>1. w \in Work /\ Remains(v, w) /\ w.pc = "closed" /\ w.fails = 0
    BY <1>4 DEF Points
  <2> HIDE DEF w
  <2>2. ~Down(w)
    BY <1>3, <2>1 DEF Down
  <2>3. Lives(i, w, <<>>)
    BY <1>7, <2>1, <2>2 DEF Lives
  <2> QED
    BY <1>7, <2>3 DEF w
<1> DEFINE Answer == \E w, report : Goes(i, w, report) /\ Lives(i, w, report)
<1> HIDE DEF Answer
<1>8. ASSUME StartSession(i) PROVE Answer
  <2>1. v.pc = "launched"
    BY <1>8 DEF StartSession, Eldest
  <2>2. \/ Goes(i, To(v, "refused", v.slot, v.fails), Fault(i))
        \/ Goes(i, To(v, "mute", v.slot, v.fails), <<>>)
        \/ Goes(i, To(v, "waiting", v.slot, v.fails), <<>>)
    BY <1>2, <1>8 DEF StartSession
  <2> QED
    BY <1>2, <1>5, <1>6, <2>1, <2>2 DEF Points, Answer
<1>9. ASSUME StartPipeline(i) PROVE Answer
  <2>1. v.pc = "launched" /\ Goes(i, To(v, "waiting", v.slot, v.fails), <<>>)
    BY <1>2, <1>9 DEF StartPipeline, Eldest
  <2> QED
    BY <1>2, <1>5, <2>1 DEF Points, Answer
<1>10. ASSUME AcquireStt(i) \/ AcquireDub(i) PROVE Answer
  <2>1. v.pc = "waiting" /\ (Goes(i, To(v, "trying", TRUE, v.fails), <<>>) \/ Goes(i, To(v, "publishing", TRUE, v.fails), <<>>))
    BY <1>2, <1>10 DEF AcquireStt, AcquireDub, Eldest
  <2> QED
    BY <1>2, <1>5, <2>1 DEF Points, Answer
<1>11. ASSUME Publish(i) PROVE Answer
  <2>1. v.pc = "publishing" /\ Goes(i, To(v, "trying", v.slot, v.fails), <<>>)
    BY <1>2, <1>11 DEF Publish
  <2> QED
    BY <1>2, <1>5, <2>1 DEF Points, Answer
<1>12. ASSUME PublishFails(i) PROVE Answer
  <2>1. Goes(i, To(v, "refused", FALSE, v.fails), Fault(i))
    BY <1>2, <1>12 DEF PublishFails
  <2> QED
    BY <1>6, <2>1 DEF Answer
<1>13. ASSUME Opens(i) PROVE Answer
  <2> DEFINE w == To(v, "open", v.slot, 0)
             report == IF v.fails >= Threshold THEN Recovery(i) ELSE <<>>
  <2>1. v.pc = "trying" /\ Goes(i, w, report)
    <3>1. v.pc = "trying" /\ Goes(i, [v EXCEPT !.pc = "open", !.fails = 0], report)
      BY <1>13 DEF Opens
    <3>2. [v EXCEPT !.pc = "open", !.fails = 0] = w
      BY <1>2
    <3> HIDE DEF w, report
    <3> QED
      BY <3>1, <3>2
  <2>2. w \in Work /\ Remains(v, w) /\ w.pc = "open" /\ w.fails = 0
    <3>1. "open" \in Points /\ v.slot \in BOOLEAN /\ 0 \in Nat
      BY <1>2 DEF Points
    <3> QED
      BY <1>4, <3>1
  <2> HIDE DEF w
  <2>3. ~Down(w) /\ (Down(v) <=> v.fails >= Threshold)
    BY <1>3, <2>1, <2>2 DEF Down
  <2>4. Lives(i, w, report)
    BY <2>2, <2>3 DEF Lives
  <2> QED
    BY <2>1, <2>4 DEF Answer
<1>14. ASSUME Fails(i) PROVE Answer
  <2> DEFINE n == Min({v.fails + 1, Threshold + 1})
             w == To(v, "trying", v.slot, n)
             report == IF v.fails + 1 = Threshold THEN Fault(i) ELSE <<>>
  <2>1. v.pc \in {"trying", "open"} /\ Goes(i, w, report)
    <3>1. v.pc \in {"trying", "open"} /\ Goes(i, [v EXCEPT !.pc = "trying", !.fails = n], report)
      BY <1>14 DEF Fails
    <3> HIDE DEF n
    <3>2. [v EXCEPT !.pc = "trying", !.fails = n] = w
      BY <1>2
    <3> HIDE DEF w, report
    <3> QED
      BY <3>1, <3>2
  <2> DEFINE f == v.fails
  <2>2. f \in Nat /\ n = IF f + 1 <= Threshold + 1 THEN f + 1 ELSE Threshold + 1
    <3>1. f + 1 \in Nat /\ Threshold + 1 \in Nat
      BY <1>0, <1>3
    <3> QED
      BY <1>0, <3>1, MinOfTwo
  <2> HIDE DEF n, f
  <2>3. n \in Nat /\ (n >= Threshold <=> f + 1 >= Threshold)
    BY <1>3, <2>2
  <2>4. w \in Work /\ Remains(v, w) /\ w.pc = "trying" /\ w.fails = n
    <3>1. "trying" \in Points /\ v.slot \in BOOLEAN
      BY <1>2 DEF Points
    <3> QED
      BY <1>4, <2>3, <3>1
  <2> HIDE DEF w
  <2>5. (Down(w) <=> f + 1 >= Threshold) /\ (Down(v) <=> f >= Threshold)
    BY <2>1, <2>3, <2>4 DEF Down, f
  <2>6. IF f + 1 = Threshold THEN Down(w) ELSE Down(w) <=> Down(v)
    BY <1>3, <2>2, <2>5
  <2>7. Lives(i, w, report)
    BY <2>4, <2>6 DEF Lives, f
  <2> QED
    BY <2>1, <2>7 DEF Answer
<1>15. ASSUME Rotates(i) PROVE Answer
  <2>1. v.pc = "open" /\ Goes(i, To(v, "trying", v.slot, v.fails), <<>>)
    BY <1>2, <1>15 DEF Rotates
  <2> QED
    BY <1>2, <1>5, <2>1 DEF Points, Answer
<1>16. ASSUME CloseSession(i) \/ ClosePipeline(i) PROVE Answer
  <2>1. i \in stops /\ Goes(i, To(v, "closed", FALSE, 0), <<>>)
    BY <1>16 DEF CloseSession, ClosePipeline, To
  <2> QED
    BY <1>7, <2>1 DEF Answer
<1>17. Answer
  BY <1>8, <1>9, <1>10, <1>11, <1>12, <1>13, <1>14, <1>15, <1>16 DEF Live
<1> QED
  BY <1>17 DEF Answer

-----------------------------------------------------------------------------
(* The invariant of the room and its agent.                                *)

Phases == {"connecting", "on", "captions", "dubbing", "leaving", "cut", "hushed", "gone"}

\* Which of those that nobody has stopped a teardown still has before it.
Ahead(i) ==
  /\ phase \notin {"leaving", "gone"}
  /\ phase = "captions" /\ works[i].kind = "stt" => i \in left
  /\ phase = "dubbing" => works[i].kind = "dub" /\ i \in left

RoomInv ==
  /\ phase \in Phases /\ RoomOk /\ left \subseteq DOMAIN works
  /\ phase = "connecting" => works = <<>> /\ \A p \in People : people[p].at \in {"out", "published"}
  /\ phase \in {"connecting", "on"} => left = {}
  /\ phase = "on" => AllFollow(people, Agent)
  /\ phase \notin {"cut", "hushed"} => \A i \in DOMAIN works : ~works[i].late /\ i \notin stops => Ahead(i)

LEMMA RoomInvInit == Init => RoomInv
<1> SUFFICES ASSUME Init PROVE RoomInv
  OBVIOUS
<1>1. /\ phase = "connecting" /\ works = <<>> /\ left = {} /\ stops = {} /\ current = [k \in Keys |-> 0]
      /\ people \in [People -> {Newcomer("out"), Newcomer("published")}]
  BY DEF Init
<1>2. /\ people \in [People -> Person]
      /\ \A p \in People : people[p].at \in {"out", "published"}
  <2>1. /\ Newcomer("out") \in Person /\ Newcomer("published") \in Person
        /\ Newcomer("out").at = "out" /\ Newcomer("published").at = "published"
    BY NewcomerIs
  <2> QED
    BY <1>1, <2>1
<1>3. AgentInv(Agent)
  <2>1. works \in Seq(Work) /\ DOMAIN works = {}
    BY <1>1
  <2>2. current \in [Keys -> Nat] /\ \A k \in Keys : current[k] = 0
    BY <1>1
  <2>3. stops \in SUBSET Nat
    BY <1>1
  <2> QED
    BY <1>1, <2>1, <2>2, <2>3 DEF AgentInv, AgentType, Agent
<1> QED
  BY <1>1, <1>2, <1>3 DEF RoomInv, RoomOk, Phases, Ahead

\* What the parts of the record are.
LEMMA AgentParts ==
  ASSUME AgentInv(Agent)
  PROVE  /\ works \in Seq(Work) /\ current \in [Keys -> Nat] /\ stops \subseteq DOMAIN works
         /\ \A i \in DOMAIN works : i \in Nat \ {0} /\ works[i] \in Work /\ works[i].key \in Keys
         /\ \A i \in DOMAIN works : works[i].kind \in {"stt", "dub"} /\ (works[i].kind = "stt" <=> works[i].key \in People)
         /\ \A k \in Keys : current[k] # 0 => current[k] \in DOMAIN works /\ works[current[k]].key = k
         /\ \A i \in DOMAIN works : ~works[i].late /\ i \notin stops => current[works[i].key] = i
         /\ \A i \in DOMAIN works : works[i].pc = "closed" => i \in stops
<1>1. /\ works \in Seq(Work) /\ current \in [Keys -> Nat] /\ stops \subseteq DOMAIN works
      /\ \A k \in Keys : current[k] # 0 => current[k] \in DOMAIN works /\ works[current[k]].key = k
      /\ \A i \in DOMAIN works : ~works[i].late /\ i \notin stops => current[works[i].key] = i
      /\ \A i \in DOMAIN works : works[i].pc = "closed" => i \in stops
  BY DEF AgentInv, AgentType, Agent
<1>2. \A i \in DOMAIN works : i \in Nat \ {0} /\ works[i] \in Work
  BY <1>1, LenProperties, ElementOfSeq
<1>3. \A w \in Work : w.key \in Keys /\ w.kind \in {"stt", "dub"} /\ (w.kind = "stt" <=> w.key \in People)
  BY DEF Work
<1> QED
  BY <1>1, <1>2, <1>3

LEMMA AgentFromParts ==
  ASSUME NEW w \in Seq(Work), NEW c \in [Keys -> Nat], NEW s, s \subseteq DOMAIN w,
         \A k \in Keys : c[k] # 0 => c[k] \in DOMAIN w /\ w[c[k]].key = k,
         \A i \in DOMAIN w : ~w[i].late /\ i \notin s => c[w[i].key] = i,
         \A i \in DOMAIN w : w[i].pc = "closed" => i \in s
  PROVE  AgentInv([works |-> w, current |-> c, stops |-> s])
<1>1. s \in SUBSET Nat
  BY LenProperties
<1> QED
  BY <1>1 DEF AgentInv, AgentType

\* A callback of the room.
LEMMA CallbackKeeps ==
  ASSUME RoomInv, Answers(people', Agent'), phase' = phase, phase \in Phases \ {"connecting", "gone"}, left' = left
  PROVE  RoomInv'
<1>1. AgentInv(Agent) /\ AgentInv(Agent)' /\ people' \in [People -> Person]
  BY DEF RoomInv, RoomOk, Answers
<1>2. /\ DOMAIN works \subseteq DOMAIN works' /\ stops \subseteq stops'
      /\ \A i \in DOMAIN works : works'[i].late = works[i].late /\ works'[i].kind = works[i].kind
      /\ \A i \in DOMAIN works' \ DOMAIN works : works'[i].late <=> phase \notin {"connecting", "on"}
  <2>1. Grows(Agent, Agent')
    BY DEF Answers
  <2> QED
    BY <2>1 DEF Grows, SameWork, Agent
<1>3. phase' = "on" => AllFollow(people, Agent)'
  BY DEF RoomInv, Answers
<1>4. ASSUME phase \notin {"cut", "hushed"}, NEW i \in DOMAIN works', ~works'[i].late, i \notin stops' PROVE Ahead(i)'
  <2>1. CASE i \in DOMAIN works
    <3>1. ~works[i].late /\ i \notin stops /\ works'[i].kind = works[i].kind
      BY <1>2, <1>4, <2>1
    <3>2. Ahead(i)
      BY <1>4, <2>1, <3>1 DEF RoomInv
    <3> QED
      BY <3>1, <3>2 DEF Ahead
  <2>2. CASE i \notin DOMAIN works
    <3>1. phase = "on"
      BY <1>2, <1>4, <2>2
    <3> QED
      BY <3>1 DEF Ahead
  <2> QED
    BY <2>1, <2>2
<1>5. (phase = "on" => left = {}) /\ left \subseteq DOMAIN works'
  BY <1>2 DEF RoomInv
<1> QED
  BY <1>1, <1>3, <1>4, <1>5 DEF RoomInv, RoomOk

\* A step in the life of one of them.
LEMMA LifeKeeps ==
  ASSUME RoomInv, NEW i \in DOMAIN works, NEW w, NEW report, Goes(i, w, report), Lives(i, w, report)
  PROVE  /\ RoomInv' /\ AgentInv(Agent') /\ DOMAIN works' = DOMAIN works /\ works'[i] = w
         /\ \A j \in DOMAIN works \ {i} : works'[j] = works[j]
<1>0. AgentInv(Agent) /\ works \in Seq(Work)
  BY DEF RoomInv, RoomOk, AgentInv, AgentType, Agent
<1>1. /\ works' = [works EXCEPT ![i] = w] /\ w \in Work /\ Remains(works[i], w) /\ (w.pc = "closed" => i \in stops)
      /\ phase' = phase /\ people' = people /\ current' = current /\ stops' = stops /\ left' = left
  BY DEF Goes, Lives
<1>2. /\ works' \in Seq(Work) /\ DOMAIN works' = DOMAIN works /\ works'[i] = w
      /\ \A j \in DOMAIN works \ {i} : works'[j] = works[j]
  BY <1>0, <1>1, ExceptSeq
<1>3. \A j \in DOMAIN works : Remains(works[j], works'[j]) /\ (works'[j].pc = "closed" => j \in stops)
  <2>1. \A j \in DOMAIN works : works[j].pc = "closed" => j \in stops
    BY <1>0, AgentParts
  <2> QED
    BY <1>1, <1>2, <2>1 DEF Remains
<1>4. AgentInv(Agent)'
  <2>1. AgentInv([works |-> works', current |-> current, stops |-> stops])
    <3>1. /\ current \in [Keys -> Nat] /\ stops \subseteq DOMAIN works
          /\ \A k \in Keys : current[k] # 0 => current[k] \in DOMAIN works /\ works[current[k]].key = k
          /\ \A j \in DOMAIN works : ~works[j].late /\ j \notin stops => current[works[j].key] = j
      BY <1>0, AgentParts
    <3>2. \A j \in DOMAIN works : works'[j].key = works[j].key /\ works'[j].late = works[j].late
      BY <1>3 DEF Remains
    <3>3. /\ stops \subseteq DOMAIN works'
          /\ \A k \in Keys : current[k] # 0 => current[k] \in DOMAIN works' /\ works'[current[k]].key = k
          /\ \A j \in DOMAIN works' : ~works'[j].late /\ j \notin stops => current[works'[j].key] = j
          /\ \A j \in DOMAIN works' : works'[j].pc = "closed" => j \in stops
      BY <1>2, <1>3, <3>1, <3>2
    <3> QED
      BY <1>2, <3>1, <3>3, AgentFromParts
  <2> QED
    BY <1>1, <2>1 DEF Agent
<1>5. phase' = "on" => AllFollow(people, Agent)'
  <2> SUFFICES ASSUME phase = "on" PROVE AllFollow(people, Agent)'
    BY <1>1
  <2>1. AllFollow(people, Agent)
    BY DEF RoomInv
  <2>2. ASSUME NEW p \in People PROVE PersonFollows(people, Agent, p)'
    <3>1. PersonFollows(people, Agent, p) /\ p \in Keys
      BY <2>1, KeysApart DEF AllFollow
    <3>2. current[p] # 0 => current[p] \in DOMAIN works
      BY <1>0, <3>1, AgentParts
    <3>3. \A j \in DOMAIN works :
            works'[j].lang = works[j].lang /\ works'[j].key = works[j].key /\ works'[j].misled = works[j].misled
      BY <1>3 DEF Remains
    <3> QED
      BY <1>1, <1>2, <3>1, <3>2, <3>3 DEF PersonFollows, Agent
  <2>3. LanguagesFollow(people, Agent)'
    BY <1>1, <2>1 DEF AllFollow, LanguagesFollow, Agent, DubbedLanguages, Here
  <2> QED
    BY <2>2, <2>3 DEF AllFollow
<1>6. ASSUME phase \notin {"cut", "hushed"}, NEW j \in DOMAIN works', ~works'[j].late, j \notin stops' PROVE Ahead(j)'
  <2>1. Ahead(j) /\ works'[j].kind = works[j].kind
    BY <1>1, <1>2, <1>3, <1>6 DEF RoomInv, Remains
  <2> QED
    BY <1>1, <2>1 DEF Ahead
<1>7. phase # "connecting"
  BY DEF RoomInv
<1>8. RoomInv'
  BY <1>1, <1>2, <1>4, <1>5, <1>6, <1>7 DEF RoomInv, RoomOk
<1> QED
  BY <1>2, <1>4, <1>8

\* The steps of run().
LEMMA ConnectKeeps ==
  ASSUME RoomInv, Connect
  PROVE  RoomInv' /\ Grows(Agent, Agent')
<1>1. phase = "connecting" /\ phase' = "on" /\ people' = people /\ left' = left /\ left = {} /\ works = <<>>
  BY DEF Connect, RoomInv
<1>2. \A k \in Keys : current[k] = 0
  BY <1>1, AgentParts DEF RoomInv, RoomOk
<1>3. AgentInv(Agent') /\ Grows(Agent, Agent') /\ AllFollow(people, Agent')
  BY <1>1, <1>2, ConnectAnswers DEF RoomInv
<1>4. AgentInv(Agent)' /\ AllFollow(people, Agent)'
  BY <1>1, <1>3
<1>5. \A i \in DOMAIN works' : ~works'[i].late /\ i \notin stops' => Ahead(i)'
  BY <1>1 DEF Ahead
<1> QED
  BY <1>1, <1>3, <1>4, <1>5 DEF RoomInv, RoomOk, Phases

LEMMA StopKeeps ==
  ASSUME RoomInv, Stop
  PROVE  RoomInv'
<1>1. /\ phase = "on" /\ phase' = "captions" /\ left' = {current[p] : p \in People} \ {0}
      /\ people' = people /\ works' = works /\ stops' = stops /\ current' = current
  BY DEF Stop
<1>2. AgentInv(Agent) /\ AgentInv(Agent)'
  BY <1>1 DEF RoomInv, RoomOk, Agent
<1>3. left' \subseteq DOMAIN works'
  BY <1>1, <1>2, AgentParts, KeysApart
<1>4. ASSUME NEW i \in DOMAIN works', ~works'[i].late, i \notin stops' PROVE Ahead(i)'
  <2>1. current[works[i].key] = i /\ i # 0 /\ (works[i].kind = "stt" <=> works[i].key \in People)
    BY <1>1, <1>2, <1>4, AgentParts
  <2> QED
    BY <1>1, <2>1 DEF Ahead
<1> QED
  BY <1>1, <1>2, <1>3, <1>4 DEF RoomInv, RoomOk, Phases

LEMMA StopNextKeeps ==
  ASSUME RoomInv, StopNext
  PROVE  /\ RoomInv' /\ people' = people /\ works' = works /\ current' = current /\ stops \subseteq stops'
<1> DEFINE i == Min(left)
<1>1. /\ left # {} /\ phase' = phase /\ people' = people /\ works' = works /\ current' = current
      /\ IF works[i].pc = "closed" THEN left' = left \ {i} /\ stops' = stops
         ELSE i \notin stops /\ stops' = stops \cup {i} /\ left' = left
  BY DEF StopNext
<1>2. AgentInv(Agent) /\ left \subseteq DOMAIN works
  BY DEF RoomInv, RoomOk
<1>3. left \subseteq Nat
  BY <1>2, AgentParts
<1>4. i \in left
  BY <1>1, <1>3, LeastElement
<1> HIDE DEF i
<1>5. works[i].pc = "closed" => i \in stops
  BY <1>2, <1>4, AgentParts
<1>6. stops \subseteq stops' /\ stops' \subseteq DOMAIN works
  BY <1>1, <1>2, <1>4, AgentParts
<1>7. AgentInv(Agent)'
  <2>1. /\ works \in Seq(Work) /\ current \in [Keys -> Nat]
        /\ \A k \in Keys : current[k] # 0 => current[k] \in DOMAIN works /\ works[current[k]].key = k
        /\ \A j \in DOMAIN works : ~works[j].late /\ j \notin stops' => current[works[j].key] = j
        /\ \A j \in DOMAIN works : works[j].pc = "closed" => j \in stops'
    BY <1>2, <1>6, AgentParts
  <2>2. AgentInv([works |-> works, current |-> current, stops |-> stops'])
    BY <1>6, <2>1, AgentFromParts
  <2> QED
    BY <1>1, <2>2 DEF Agent
<1>8. ASSUME phase \notin {"cut", "hushed"}, NEW j \in DOMAIN works', ~works'[j].late, j \notin stops' PROVE Ahead(j)'
  <2>1. Ahead(j) /\ j \notin stops
    BY <1>1, <1>6, <1>8 DEF RoomInv
  <2>2. j \in left => j \in left'
    BY <1>1, <1>5, <2>1
  <2> QED
    BY <1>1, <2>1, <2>2 DEF Ahead
<1>9. phase \notin {"connecting", "on"}
  BY <1>1 DEF RoomInv
<1>10. left' \subseteq DOMAIN works'
  BY <1>1, <1>2
<1>11. RoomInv'
  BY <1>1, <1>7, <1>8, <1>9, <1>10 DEF RoomInv, RoomOk
<1> QED
  BY <1>1, <1>6, <1>11

LEMMA ClearedIs ==
  ASSUME AgentInv(Agent), NEW K, K \subseteq Keys,
         \A i \in DOMAIN works : ~works[i].late /\ i \notin stops => works[i].key \notin K,
         current' = Cleared(K), works' = works, stops' = stops
  PROVE  AgentInv(Agent)'
<1>1. current' \in [Keys -> Nat] /\ \A k \in Keys : current'[k] = IF k \in K THEN 0 ELSE current[k]
  BY AgentParts DEF Cleared
<1> DEFINE c == current'
<1>2. c \in [Keys -> Nat] /\ \A k \in Keys : c[k] = IF k \in K THEN 0 ELSE current[k]
  BY <1>1
<1> HIDE DEF c
<1>3. /\ works \in Seq(Work) /\ stops \subseteq DOMAIN works
      /\ \A k \in Keys : c[k] # 0 => c[k] \in DOMAIN works /\ works[c[k]].key = k
      /\ \A j \in DOMAIN works : ~works[j].late /\ j \notin stops => c[works[j].key] = j
      /\ \A j \in DOMAIN works : works[j].pc = "closed" => j \in stops
  BY <1>2, AgentParts
<1>4. AgentInv([works |-> works, current |-> c, stops |-> stops])
  BY <1>2, <1>3, AgentFromParts
<1> QED
  BY <1>4 DEF c, Agent

LEMMA CaptionsStoppedKeeps ==
  ASSUME RoomInv, CaptionsStopped
  PROVE  RoomInv'
<1>1. /\ phase = "captions" /\ phase' = "dubbing" /\ left = {} /\ left' = {current[l] : l \in Languages} \ {0}
      /\ people' = people /\ works' = works /\ stops' = stops /\ current' = Cleared(People)
  BY DEF CaptionsStopped
<1>2. AgentInv(Agent) /\ \A i \in DOMAIN works : ~works[i].late /\ i \notin stops => works[i].kind # "stt"
  BY <1>1 DEF RoomInv, RoomOk, Ahead
<1>3. \A i \in DOMAIN works : ~works[i].late /\ i \notin stops => works[i].key \notin People
  BY <1>2, AgentParts
<1>4. AgentInv(Agent)'
  BY <1>1, <1>2, <1>3, KeysApart, ClearedIs
<1>5. left' \subseteq DOMAIN works'
  BY <1>1, <1>2, AgentParts, KeysApart
<1>6. ASSUME NEW i \in DOMAIN works', ~works'[i].late, i \notin stops' PROVE Ahead(i)'
  <2>1. current[works[i].key] = i /\ i # 0 /\ works[i].key \in Keys /\ works[i].kind \in {"stt", "dub"}
    BY <1>1, <1>2, <1>6, AgentParts
  <2>2. works[i].key \in Languages /\ works[i].kind = "dub"
    BY <1>1, <1>2, <1>3, <1>6, <2>1 DEF Keys
  <2> QED
    BY <1>1, <2>1, <2>2 DEF Ahead
<1> QED
  BY <1>1, <1>4, <1>5, <1>6 DEF RoomInv, RoomOk, Phases

LEMMA DubbingStoppedKeeps ==
  ASSUME RoomInv, DubbingStopped
  PROVE  RoomInv'
<1>1. /\ phase = "dubbing" /\ phase' = "leaving" /\ left = {} /\ left' = left
      /\ people' = people /\ works' = works /\ stops' = stops /\ current' = Cleared(Languages)
  BY DEF DubbingStopped
<1>2. AgentInv(Agent) /\ \A i \in DOMAIN works : ~(~works[i].late /\ i \notin stops)
  BY <1>1 DEF RoomInv, RoomOk, Ahead
<1>3. AgentInv(Agent)'
  BY <1>1, <1>2, KeysApart, ClearedIs
<1> QED
  BY <1>1, <1>2, <1>3 DEF RoomInv, RoomOk, Phases

LEMMA LeaveKeeps ==
  ASSUME RoomInv, Leave
  PROVE  RoomInv'
<1>1. /\ phase = "leaving" /\ phase' = "gone" /\ left' = left
      /\ people' = people /\ works' = works /\ stops' = stops /\ current' = current
  BY DEF Leave
<1>2. AgentInv(Agent)' /\ left \subseteq DOMAIN works /\ people \in [People -> Person]
  BY <1>1 DEF RoomInv, RoomOk, Agent
<1>3. \A i \in DOMAIN works : ~(~works[i].late /\ i \notin stops)
  BY <1>1 DEF RoomInv, Ahead
<1> QED
  BY <1>1, <1>2, <1>3 DEF RoomInv, RoomOk, Phases

\* It closes one whose stop() it interrupts.
LEMMA CutKeeps ==
  ASSUME RoomInv, Cut
  PROVE  /\ RoomInv' /\ current' = current /\ stops' = stops /\ DOMAIN works' = DOMAIN works
         /\ \A j \in DOMAIN works : /\ Remains(works[j], works'[j]) /\ works'[j].fails = works[j].fails
                                    /\ works'[j].pc = works[j].pc \/ (works'[j].pc = "closed" /\ j \in stops)
<1>1. phase' \in {"cut", "hushed"} /\ left' = {} /\ people' = people /\ current' = current /\ stops' = stops
  BY DEF Cut
<1>2. AgentInv(Agent) /\ left \subseteq DOMAIN works
  BY DEF RoomInv, RoomOk
<1>3. works \in Seq(Work) /\ left \subseteq Nat /\ \A i \in DOMAIN works : works[i] \in Work
  BY <1>2, AgentParts
<1> DEFINE Fine(w) == /\ w \in Seq(Work) /\ DOMAIN w = DOMAIN works
                      /\ \A j \in DOMAIN works : /\ Remains(works[j], w[j]) /\ w[j].fails = works[j].fails
                                                 /\ w[j].pc = works[j].pc \/ (w[j].pc = "closed" /\ j \in stops)
<1>4. Fine(works)
  BY <1>3 DEF Remains
<1>5. Fine(works')
  <2>1. CASE works' = works
    BY <1>4, <2>1
  <2>2. CASE works' # works
    <3> DEFINE i == Min(left)
               w == [works[i] EXCEPT !.pc = "closed"]
    <3>1. left # {} /\ i \in stops /\ works' = [works EXCEPT ![i].pc = "closed"]
      BY <2>2 DEF Cut
    <3>2. i \in left
      BY <1>3, <3>1, LeastElement
    <3>3. i \in DOMAIN works /\ works[i] \in Work
      BY <1>2, <1>3, <3>2
    <3>4. w \in Work /\ Remains(works[i], w) /\ w.pc = "closed" /\ w.fails = works[i].fails
      <4> HIDE DEF i
      <4> QED
        BY <3>3 DEF Work, Remains, Points
    <3>5. works' = [works EXCEPT ![i] = w]
      BY <1>3, <3>1
    <3> HIDE DEF w, i
    <3>6. /\ works' \in Seq(Work) /\ DOMAIN works' = DOMAIN works /\ works'[i] = w
          /\ \A j \in DOMAIN works \ {i} : works'[j] = works[j]
      BY <1>3, <3>3, <3>4, <3>5, ExceptSeq
    <3> QED
      BY <3>1, <3>3, <3>4, <3>6 DEF Remains
  <2> QED
    BY <2>1, <2>2
<1>6. AgentInv(Agent)'
  <2>1. /\ current \in [Keys -> Nat] /\ stops \subseteq DOMAIN works
        /\ \A k \in Keys : current[k] # 0 => current[k] \in DOMAIN works /\ works[current[k]].key = k
        /\ \A j \in DOMAIN works : ~works[j].late /\ j \notin stops => current[works[j].key] = j
        /\ \A j \in DOMAIN works : works[j].pc = "closed" => j \in stops
    BY <1>2, AgentParts
  <2>2. \A j \in DOMAIN works : works'[j].key = works[j].key /\ works'[j].late = works[j].late
    BY <1>5 DEF Remains
  <2>3. /\ works' \in Seq(Work) /\ stops \subseteq DOMAIN works'
        /\ \A k \in Keys : current[k] # 0 => current[k] \in DOMAIN works' /\ works'[current[k]].key = k
        /\ \A j \in DOMAIN works' : ~works'[j].late /\ j \notin stops => current[works'[j].key] = j
        /\ \A j \in DOMAIN works' : works'[j].pc = "closed" => j \in stops
    BY <1>5, <2>1, <2>2
  <2>4. AgentInv([works |-> works', current |-> current, stops |-> stops])
    BY <2>1, <2>3, AgentFromParts
  <2> QED
    BY <1>1, <2>4 DEF Agent
<1>7. RoomInv'
  BY <1>1, <1>6 DEF RoomInv, RoomOk, Phases
<1> QED
  BY <1>1, <1>5, <1>7

Callback(p) == \/ Connected(p) \/ Disconnected(p) \/ Subscribed(p) \/ Unsubscribed(p) \/ OtherUnsubscribed(p)
               \/ AttributesChanged(p)

LEMMA CallbackHappens ==
  ASSUME NEW p \in People, Callback(p)
  PROVE  \E who, b : Happens(who, b)
<1> DEFINE Some == \E who, b : Happens(who, b)
<1>1. Connected(p) \/ Disconnected(p) => Some
  BY Zenon DEF Connected, Disconnected
<1>2. Subscribed(p) \/ Unsubscribed(p) => Some
  BY Zenon DEF Subscribed, Unsubscribed
<1>3. OtherUnsubscribed(p) => Some
  BY Zenon DEF OtherUnsubscribed
<1>4. AttributesChanged(p) => Some
  <2> SUFFICES ASSUME AttributesChanged(p) PROVE Some
    OBVIOUS
  <2>1. PICK spoken \in Languages, reads \in Languages, dubbed \in BOOLEAN, said \in BOOLEAN :
          LET v == [people EXCEPT ![p].spoken = spoken, ![p].reads = reads, ![p].dubbed = dubbed]
              a == IF said THEN RestartSpeaker(Agent, v, p) ELSE Agent
              c == IF reads # people[p].reads \/ dubbed # people[p].dubbed THEN Sync(a, v) ELSE a
          IN  /\ people[p].at # "out"
              /\ spoken = people[p].spoken => (spoken = Default \/ ~said)
              /\ spoken # people[p].spoken => said
              /\ said \/ v # people
              /\ Happens(v, c)
    BY Zenon DEF AttributesChanged
  <2> DEFINE who == [people EXCEPT ![p].spoken = spoken, ![p].reads = reads, ![p].dubbed = dubbed]
             a == IF said THEN RestartSpeaker(Agent, who, p) ELSE Agent
             b == IF reads # people[p].reads \/ dubbed # people[p].dubbed THEN Sync(a, who) ELSE a
  <2>2. Happens(who, b)
    BY <2>1
  <2> HIDE DEF who, b
  <2> QED
    BY <2>2
<1> QED
  BY Zenon, <1>1, <1>2, <1>3, <1>4 DEF Callback

LEMMA CallbackIs ==
  ASSUME RoomInv, NEW p \in People, Callback(p)
  PROVE  /\ RoomInv' /\ Grows(Agent, Agent')
         /\ UNCHANGED <<phase, left, reports, told, column, text, muddled, wrote>>
<1>1. phase \in {"on", "captions", "dubbing", "leaving", "cut", "hushed"}
      /\ UNCHANGED <<phase, left, reports, told, column, text, muddled, wrote>>
  <2>1. \E who, b : Happens(who, b)
    BY CallbackHappens
  <2> QED
    BY <2>1 DEF Happens
<1>2. Answers(people', Agent')
  BY ConnectedAnswers, DisconnectedAnswers, SubscribedAnswers, UnsubscribedAnswers, OtherUnsubscribedAnswers,
     AttributesAnswer DEF Callback, RoomInv
<1>3. RoomInv'
  BY <1>1, <1>2, CallbackKeeps DEF Phases
<1> QED
  BY <1>1, <1>2, <1>3 DEF Answers

\* A step that is not of the room, of run(), or of a session or pipeline.
Aside == UNCHANGED <<phase, people, works, current, stops, left>>

LEMMA AsideKeeps ==
  ASSUME RoomInv, Aside
  PROVE  RoomInv'
BY DEF RoomInv, RoomOk, Aside, Agent, AllFollow, PersonFollows, LanguagesFollow, DubbedLanguages, Here, Ahead

Tells == \E n \in DOMAIN reports : \E ok \in BOOLEAN : WriteColumn(n, ok) \/ TellRoom(n, ok)

Texts == \/ \E p \in People : Said(p) \/ Written(p)
         \/ \E l \in DOMAIN text.todo : \E ok \in BOOLEAN : Attempt(l) \/ Send(l, ok)
         \/ Keep \/ RelayEnds

Teardown == Stop \/ CaptionsStopped \/ DubbingStopped \/ Leave

LEMMA NextIs ==
  ASSUME Next
  PROVE  \/ Connect \/ StopNext \/ Cut \/ Teardown
         \/ \E p \in People : Callback(p)
         \/ \E i \in DOMAIN works : Live(i)
         \/ Tells \/ Texts
BY DEF Next, Callback, Tells, Texts, Teardown

LEMMA TellsIs ==
  ASSUME Tells
  PROVE  Aside /\ text' = text
BY DEF Tells, WriteColumn, TellRoom, Aside

LEMMA TextsIs ==
  ASSUME Texts
  PROVE  Aside /\ UNCHANGED <<reports, told, column, muddled, wrote>>
BY DEF Texts, Said, Written, Keep, Attempt, Send, RelayEnds, Relays, Aside

LEMMA TeardownIs ==
  ASSUME RoomInv, Teardown
  PROVE  /\ RoomInv' /\ UNCHANGED <<people, works, stops, reports, told, column, muddled, wrote>>
         /\ \A k \in Keys : current'[k] \in {0, current[k]}
<1>1. RoomInv'
  BY StopKeeps, CaptionsStoppedKeeps, DubbingStoppedKeeps, LeaveKeeps DEF Teardown
<1>2. UNCHANGED <<people, works, stops, reports, told, column, muddled, wrote>>
  BY DEF Teardown, Stop, CaptionsStopped, DubbingStopped, Leave
<1>3. current' \in {current, Cleared(People), Cleared(Languages)}
  BY DEF Teardown, Stop, CaptionsStopped, DubbingStopped, Leave
<1>4. \A k \in Keys : current'[k] \in {0, current[k]}
  BY <1>3 DEF Cleared
<1> QED
  BY <1>1, <1>2, <1>4

LEMMA RoomInvNext == RoomInv /\ [Next]_vars => RoomInv'
<1> SUFFICES ASSUME RoomInv, [Next]_vars PROVE RoomInv'
  OBVIOUS
<1>1. CASE Connect
  BY <1>1, ConnectKeeps
<1>2. CASE StopNext
  BY <1>2, StopNextKeeps
<1>3. CASE Cut
  BY <1>3, CutKeeps
<1>4. CASE Teardown
  BY <1>4, TeardownIs
<1>5. CASE \E p \in People : Callback(p)
  BY <1>5, CallbackIs
<1>6. CASE \E i \in DOMAIN works : Live(i)
  <2>1. PICK i \in DOMAIN works : Live(i)
    BY <1>6
  <2>2. PICK w, report : Goes(i, w, report) /\ Lives(i, w, report)
    BY <2>1, LiveIs DEF RoomInv
  <2> QED
    BY <2>2, LifeKeeps
<1>7. CASE Tells
  BY <1>7, TellsIs, AsideKeeps
<1>8. CASE Texts
  BY <1>8, TextsIs, AsideKeeps
<1>9. CASE vars' = vars
  BY <1>9, AsideKeeps DEF vars, Aside
<1> QED
  BY <1>1, <1>2, <1>3, <1>4, <1>5, <1>6, <1>7, <1>8, <1>9, NextIs

LEMMA RoomInvHolds == Spec => []RoomInv
<1> QED
  BY RoomInvInit, RoomInvNext, PTL DEF Spec

LEMMA RoomInvFollows == RoomInv => SessionsFollowTheRoom
<1> SUFFICES ASSUME RoomInv PROVE SessionsFollowTheRoom
  OBVIOUS
<1>1. ASSUME phase = "on", NEW p \in People, people[p].at = "mic"
      PROVE  IF current[p] = 0 THEN \E i \in DOMAIN works : works[i].key = p /\ works[i].misled
             ELSE works[current[p]].lang = people[p].spoken /\ current[p] \notin stops
  <2>1. PersonFollows(people, Agent, p)
    BY <1>1 DEF RoomInv, AllFollow
  <2> QED
    BY <1>1, <2>1 DEF PersonFollows, Agent
<1>2. phase = "on" => {l \in Languages : current[l] # 0} = DubbedLanguages(people)
  BY DEF RoomInv, AllFollow, LanguagesFollow, Agent
<1>3. SlotsComeBack
  BY DEF RoomInv, Ahead, SlotsComeBack
<1> QED
  BY <1>1, <1>2, <1>3 DEF SessionsFollowTheRoom, Follows

\* Whatever order participants join, leave, unmute, share and change languages
\* in, the sessions follow their speakers and the pipelines the languages, and
\* when run() has gone through its teardown every slot of the process that one of
\* them holds is being given back, but for those that a callback started meanwhile
\* (_on_track_subscribed, on_spoken_language_changed, sync, stop_all).
THEOREM SessionsFollow == Spec => []SessionsFollowTheRoom
<1> QED
  BY RoomInvHolds, RoomInvFollows, PTL

-----------------------------------------------------------------------------
(* A text reaches each of its readers once.                                *)

TextRecord(t) == t = [pc |-> t.pc, kind |-> t.kind, from |-> t.from, lang |-> t.lang, todo |-> t.todo,
                      tries |-> t.tries, owed |-> t.owed, got |-> t.got]

\* Nobody is in two groups, and who is in one has not got it; who is owed it has
\* it, or is in a group that is still to be served.
TextInv(t) ==
  /\ TextRecord(t) /\ t.got \in [People -> Nat]
  /\ \A p \in People : t.got[p] <= 1 /\ (p = t.from => t.got[p] = 0)
  /\ \A l \in DOMAIN t.todo : \A p \in t.todo[l] :
       p \in People /\ p # t.from /\ t.got[p] = 0 /\ \A m \in DOMAIN t.todo : p \in t.todo[m] => m = l
  /\ \A p \in t.owed : p \in People /\ (t.got[p] = 1 \/ \E l \in DOMAIN t.todo : p \in t.todo[l])
  /\ t.pc = "over" => \A p \in t.owed : t.got[p] = 1

\* What a text holds after each kind of change.
Begun(t, pc, kind, from, lang, todo, owed) ==
  [t EXCEPT !.pc = pc, !.kind = kind, !.from = from, !.lang = lang, !.todo = todo, !.owed = owed]

LEMMA TextBegun ==
  ASSUME NEW t, TextRecord(t), NEW pc, NEW kind, NEW from, NEW lang, NEW todo, NEW owed
  PROVE  LET u == Begun(t, pc, kind, from, lang, todo, owed) IN
         /\ TextRecord(u) /\ u.pc = pc /\ u.kind = kind /\ u.from = from /\ u.lang = lang
         /\ u.todo = todo /\ u.tries = t.tries /\ u.owed = owed /\ u.got = t.got
<1> DEFINE u == Begun(t, pc, kind, from, lang, todo, owed)
<1> DEFINE P == {t.pc, pc}
           K == {t.kind, kind}
           M == {t.from, from}
           L == {t.lang, lang}
           T == {t.todo, todo}
           R == {t.tries}
           O == {t.owed, owed}
           G == {t.got}
           S == [pc : P, kind : K, from : M, lang : L, todo : T, tries : R, owed : O, got : G]
<1>1. t \in S /\ pc \in P /\ kind \in K /\ from \in M /\ lang \in L /\ todo \in T /\ owed \in O
  BY DEF TextRecord
<1> HIDE DEF P, K, M, L, T, R, O, G
<1>2. /\ u \in S /\ u.pc = pc /\ u.kind = kind /\ u.from = from /\ u.lang = lang
      /\ u.todo = todo /\ u.tries = t.tries /\ u.owed = owed /\ u.got = t.got
  BY <1>1 DEF Begun
<1>3. u \in S => TextRecord(u)
  BY DEF TextRecord
<1> HIDE DEF u
<1> QED
  BY <1>2, <1>3 DEF u

Served(t, todo, tries, owed, got) ==
  [t EXCEPT !.todo = todo, !.tries = tries, !.owed = owed, !.got = got]

LEMMA TextServed ==
  ASSUME NEW t, TextRecord(t), NEW todo, NEW tries, NEW owed, NEW got
  PROVE  LET u == Served(t, todo, tries, owed, got) IN
         /\ TextRecord(u) /\ u.pc = t.pc /\ u.kind = t.kind /\ u.from = t.from /\ u.lang = t.lang
         /\ u.todo = todo /\ u.tries = tries /\ u.owed = owed /\ u.got = got
<1> DEFINE u == Served(t, todo, tries, owed, got)
<1> DEFINE P == {t.pc}
           K == {t.kind}
           M == {t.from}
           L == {t.lang}
           T == {t.todo, todo}
           R == {t.tries, tries}
           O == {t.owed, owed}
           G == {t.got, got}
           S == [pc : P, kind : K, from : M, lang : L, todo : T, tries : R, owed : O, got : G]
<1>1. t \in S /\ todo \in T /\ tries \in R /\ owed \in O /\ got \in G
  BY DEF TextRecord
<1> HIDE DEF P, K, M, L, T, R, O, G
<1>2. /\ u \in S /\ u.pc = t.pc /\ u.kind = t.kind /\ u.from = t.from /\ u.lang = t.lang
      /\ u.todo = todo /\ u.tries = tries /\ u.owed = owed /\ u.got = got
  BY <1>1 DEF Served
<1>3. u \in S => TextRecord(u)
  BY DEF TextRecord
<1> HIDE DEF u
<1> QED
  BY <1>2, <1>3 DEF u

Ended(t, pc, owed) ==
  [t EXCEPT !.pc = pc, !.owed = owed]

LEMMA TextEnded ==
  ASSUME NEW t, TextRecord(t), NEW pc, NEW owed
  PROVE  LET u == Ended(t, pc, owed) IN
         /\ TextRecord(u) /\ u.pc = pc /\ u.kind = t.kind /\ u.from = t.from /\ u.lang = t.lang
         /\ u.todo = t.todo /\ u.tries = t.tries /\ u.owed = owed /\ u.got = t.got
<1> DEFINE u == Ended(t, pc, owed)
<1> DEFINE P == {t.pc, pc}
           K == {t.kind}
           M == {t.from}
           L == {t.lang}
           T == {t.todo}
           R == {t.tries}
           O == {t.owed, owed}
           G == {t.got}
           S == [pc : P, kind : K, from : M, lang : L, todo : T, tries : R, owed : O, got : G]
<1>1. t \in S /\ pc \in P /\ owed \in O
  BY DEF TextRecord
<1> HIDE DEF P, K, M, L, T, R, O, G
<1>2. /\ u \in S /\ u.pc = pc /\ u.kind = t.kind /\ u.from = t.from /\ u.lang = t.lang
      /\ u.todo = t.todo /\ u.tries = t.tries /\ u.owed = owed /\ u.got = t.got
  BY <1>1 DEF Ended
<1>3. u \in S => TextRecord(u)
  BY DEF TextRecord
<1> HIDE DEF u
<1> QED
  BY <1>2, <1>3 DEF u

Moved(t, pc) ==
  [t EXCEPT !.pc = pc]

LEMMA TextMoved ==
  ASSUME NEW t, TextRecord(t), NEW pc
  PROVE  LET u == Moved(t, pc) IN
         /\ TextRecord(u) /\ u.pc = pc /\ u.kind = t.kind /\ u.from = t.from /\ u.lang = t.lang
         /\ u.todo = t.todo /\ u.tries = t.tries /\ u.owed = t.owed /\ u.got = t.got
<1> DEFINE u == Moved(t, pc)
<1> DEFINE P == {t.pc, pc}
           K == {t.kind}
           M == {t.from}
           L == {t.lang}
           T == {t.todo}
           R == {t.tries}
           O == {t.owed}
           G == {t.got}
           S == [pc : P, kind : K, from : M, lang : L, todo : T, tries : R, owed : O, got : G]
<1>1. t \in S /\ pc \in P
  BY DEF TextRecord
<1> HIDE DEF P, K, M, L, T, R, O, G
<1>2. /\ u \in S /\ u.pc = pc /\ u.kind = t.kind /\ u.from = t.from /\ u.lang = t.lang
      /\ u.todo = t.todo /\ u.tries = t.tries /\ u.owed = t.owed /\ u.got = t.got
  BY <1>1 DEF Moved
<1>3. u \in S => TextRecord(u)
  BY DEF TextRecord
<1> HIDE DEF u
<1> QED
  BY <1>2, <1>3 DEF u

Tried(t, tries) ==
  [t EXCEPT !.tries = tries]

LEMMA TextTried ==
  ASSUME NEW t, TextRecord(t), NEW tries
  PROVE  LET u == Tried(t, tries) IN
         /\ TextRecord(u) /\ u.pc = t.pc /\ u.kind = t.kind /\ u.from = t.from /\ u.lang = t.lang
         /\ u.todo = t.todo /\ u.tries = tries /\ u.owed = t.owed /\ u.got = t.got
<1> DEFINE u == Tried(t, tries)
<1> DEFINE P == {t.pc}
           K == {t.kind}
           M == {t.from}
           L == {t.lang}
           T == {t.todo}
           R == {t.tries, tries}
           O == {t.owed}
           G == {t.got}
           S == [pc : P, kind : K, from : M, lang : L, todo : T, tries : R, owed : O, got : G]
<1>1. t \in S /\ tries \in R
  BY DEF TextRecord
<1> HIDE DEF P, K, M, L, T, R, O, G
<1>2. /\ u \in S /\ u.pc = t.pc /\ u.kind = t.kind /\ u.from = t.from /\ u.lang = t.lang
      /\ u.todo = t.todo /\ u.tries = tries /\ u.owed = t.owed /\ u.got = t.got
  BY <1>1 DEF Tried
<1>3. u \in S => TextRecord(u)
  BY DEF TextRecord
<1> HIDE DEF u
<1> QED
  BY <1>2, <1>3 DEF u

Kept(t, pc, kind, from, lang) ==
  [t EXCEPT !.pc = pc, !.kind = kind, !.from = from, !.lang = lang]

LEMMA TextKept ==
  ASSUME NEW t, TextRecord(t), NEW pc, NEW kind, NEW from, NEW lang
  PROVE  LET u == Kept(t, pc, kind, from, lang) IN
         /\ TextRecord(u) /\ u.pc = pc /\ u.kind = kind /\ u.from = from /\ u.lang = lang
         /\ u.todo = t.todo /\ u.tries = t.tries /\ u.owed = t.owed /\ u.got = t.got
<1> DEFINE u == Kept(t, pc, kind, from, lang)
<1> DEFINE P == {t.pc, pc}
           K == {t.kind, kind}
           M == {t.from, from}
           L == {t.lang, lang}
           T == {t.todo}
           R == {t.tries}
           O == {t.owed}
           G == {t.got}
           S == [pc : P, kind : K, from : M, lang : L, todo : T, tries : R, owed : O, got : G]
<1>1. t \in S /\ pc \in P /\ kind \in K /\ from \in M /\ lang \in L
  BY DEF TextRecord
<1> HIDE DEF P, K, M, L, T, R, O, G
<1>2. /\ u \in S /\ u.pc = pc /\ u.kind = kind /\ u.from = from /\ u.lang = lang
      /\ u.todo = t.todo /\ u.tries = t.tries /\ u.owed = t.owed /\ u.got = t.got
  BY <1>1 DEF Kept
<1>3. u \in S => TextRecord(u)
  BY DEF TextRecord
<1> HIDE DEF u
<1> QED
  BY <1>2, <1>3 DEF u

LEMMA SilentIs ==
  /\ TextInv(Silent) /\ TextRecord(Silent)
  /\ Silent.tries = 0 /\ Silent.todo = <<>> /\ Silent.owed = {} /\ Silent.got = [p \in People |-> 0]
BY DEF TextInv, TextRecord, Silent

\* The groups of a text that nobody has got yet.
LEMMA UnderwayInv ==
  ASSUME NEW kind, NEW from, NEW lang, NEW skip
  PROVE  TextInv(Underway(kind, from, lang, Groups(from, skip)))
<1> DEFINE todo == Groups(from, skip)
           t == Underway(kind, from, lang, todo)
<1>1. \A l \in DOMAIN todo : \A p \in todo[l] :
        p \in People /\ p # from /\ \A m \in DOMAIN todo : p \in todo[m] => m = l
  BY DEF Groups, ReadersOf, Here
<1> HIDE DEF todo
<1> DEFINE owed == UNION Range(todo)
           pc == "relaying"
<1>2. t = Begun(Silent, pc, kind, from, lang, todo, owed)
  BY DEF Underway, Begun
<1> HIDE DEF t, owed, pc
<1>3. /\ TextRecord(t) /\ t.got = [p \in People |-> 0] /\ t.from = from /\ t.todo = todo
      /\ t.owed = UNION Range(todo) /\ t.pc = "relaying"
  <2>1. /\ TextRecord(t) /\ t.got = Silent.got /\ t.from = from /\ t.todo = todo /\ t.owed = owed /\ t.pc = pc
    BY <1>2, SilentIs, TextBegun
  <2> QED
    BY <2>1, SilentIs DEF owed, pc
<1>4. \A p \in t.owed : p \in People /\ \E l \in DOMAIN todo : p \in todo[l]
  BY <1>1, <1>3 DEF Range
<1>5. TextInv(t)
  BY <1>1, <1>3, <1>4 DEF TextInv
<1> QED
  BY <1>5 DEF t, todo

\* A group is served, the next one follows.
LEMMA SentInv ==
  ASSUME TextInv(text), text.pc = "relaying", NEW l \in DOMAIN text.todo, NEW ok \in BOOLEAN
  PROVE  TextInv(Sent(l, ok, [k \in DOMAIN text.todo \ {l} |-> text.todo[k]]))
<1> DEFINE todo == [k \in DOMAIN text.todo \ {l} |-> text.todo[k]]
           to == IF ok THEN text.todo[l] \cap Here(people) ELSE {}
           t == Sent(l, ok, todo)
           got == [p \in People |-> IF p \in to THEN text.got[p] + 1 ELSE text.got[p]]
           owed == text.owed \ (text.todo[l] \ to)
<1>1. TextRecord(text)
  BY DEF TextInv
<1>2. t = [text EXCEPT !.todo = todo, !.tries = 0, !.owed = owed, !.got = got]
  BY <1>1 DEF Sent, TextRecord
<1>3. /\ DOMAIN todo = DOMAIN text.todo \ {l} /\ \A k \in DOMAIN todo : todo[k] = text.todo[k]
      /\ to \subseteq text.todo[l]
  OBVIOUS
<1> HIDE DEF todo, to, t
<1>4. /\ TextRecord(t) /\ t.todo = todo /\ t.owed = owed /\ t.got = got /\ t.from = text.from /\ t.pc = "relaying"
  <2> HIDE DEF owed, got
  <2> DEFINE n == 0
  <2> HIDE DEF n
  <2>1. t = Served(text, todo, n, owed, got)
    BY <1>2 DEF n, Served
  <2> QED
    BY <1>1, <2>1, TextServed
<1>5. /\ text.got \in [People -> Nat]
      /\ \A p \in People : text.got[p] <= 1 /\ (p = text.from => text.got[p] = 0)
      /\ \A k \in DOMAIN text.todo : \A p \in text.todo[k] :
           p \in People /\ p # text.from /\ text.got[p] = 0 /\ \A m \in DOMAIN text.todo : p \in text.todo[m] => m = k
      /\ \A p \in text.owed : p \in People /\ (text.got[p] = 1 \/ \E k \in DOMAIN text.todo : p \in text.todo[k])
  BY DEF TextInv
<1>6. /\ got \in [People -> Nat]
      /\ \A p \in to : p \in People /\ got[p] = 1 /\ p # text.from
      /\ \A p \in People \ to : got[p] = text.got[p]
  <2>1. \A p \in to : p \in People /\ text.got[p] = 0 /\ p # text.from
    BY <1>3, <1>5
  <2> QED
    BY <1>5, <2>1
<1> HIDE DEF got
<1>7. \A p \in People : got[p] <= 1 /\ (p = text.from => got[p] = 0)
  BY <1>5, <1>6
<1>8. ASSUME NEW k \in DOMAIN todo, NEW p \in todo[k]
      PROVE  p \in People /\ p # text.from /\ got[p] = 0 /\ \A m \in DOMAIN todo : p \in todo[m] => m = k
  <2>1. k \in DOMAIN text.todo /\ k # l /\ p \in text.todo[k]
    BY <1>3
  <2>2. p \notin to
    BY <1>3, <1>5, <2>1
  <2> QED
    BY <1>3, <1>5, <1>6, <2>1, <2>2
<1>9. ASSUME NEW p \in owed PROVE p \in People /\ (got[p] = 1 \/ \E k \in DOMAIN todo : p \in todo[k])
  <2>1. p \in text.owed /\ p \in People /\ (p \in text.todo[l] => p \in to)
    BY <1>5
  <2>2. CASE p \in to
    BY <1>6, <2>2
  <2>3. CASE p \notin to
    <3>1. p \notin text.todo[l]
      BY <2>1, <2>3
    <3> QED
      BY <1>3, <1>5, <1>6, <2>1, <2>3, <3>1
  <2> QED
    BY <2>2, <2>3
<1>10. TextInv(t)
  BY <1>4, <1>6, <1>7, <1>8, <1>9 DEF TextInv
<1> QED
  BY <1>10 DEF t, todo

LEMMA TextStays ==
  ASSUME NEW t, TextInv(t), NEW u, TextRecord(u), u.got = t.got, u.from = t.from, u.todo = t.todo,
         u.owed \in {{}, t.owed}, u.pc = "over" => \A p \in u.owed : u.got[p] = 1
  PROVE  TextInv(u)
<1>1. \A p \in u.owed : p \in t.owed
  OBVIOUS
<1> QED
  BY <1>1 DEF TextInv

LEMMA TextInvText ==
  ASSUME TextInv(text), Texts
  PROVE  TextInv(text')
<1>0. TextRecord(text)
  BY DEF TextInv
<1>1. ASSUME NEW p \in People, Said(p) PROVE TextInv(text')
  <2>1. \E lang : text' = Underway("caption", p, lang, Groups(p, {}))
    BY <1>1 DEF Said, Relays
  <2> QED
    BY <2>1, UnderwayInv
<1>2. ASSUME NEW p \in People, Written(p) PROVE TextInv(text')
  <2> DEFINE lang == people[p].reads
             u == Kept(Silent, "keeping", "chat", p, lang)
  <2>1. text' = u
    BY <1>2 DEF Written, Relays, Kept
  <2> HIDE DEF lang
  <2>2. TextRecord(u) /\ u.pc = "keeping" /\ u.from = p /\ u.todo = <<>> /\ u.owed = {} /\ u.got = [q \in People |-> 0]
    <3>1. TextRecord(u) /\ u.pc = "keeping" /\ u.from = p /\ u.todo = Silent.todo /\ u.owed = Silent.owed
          /\ u.got = Silent.got
      BY SilentIs, TextKept
    <3> QED
      BY <3>1, SilentIs
  <2> HIDE DEF u
  <2> QED
    BY <2>1, <2>2 DEF TextInv
<1>3. ASSUME Keep PROVE TextInv(text')
  BY <1>3, UnderwayInv DEF Keep, Relays
<1>4. ASSUME NEW l, Attempt(l) PROVE TextInv(text')
  <2> DEFINE n == text.tries + 1
             u == Tried(text, n)
  <2>1. text' = u /\ text.pc = "relaying"
    BY <1>4 DEF Attempt, Relays, Tried
  <2> HIDE DEF n
  <2>2. TextRecord(u) /\ u.pc = text.pc /\ u.from = text.from /\ u.todo = text.todo /\ u.owed = text.owed
        /\ u.got = text.got
    BY <1>0, TextTried
  <2> HIDE DEF u
  <2> QED
    BY <2>1, <2>2, TextStays
<1>5. ASSUME NEW l \in DOMAIN text.todo, NEW ok \in BOOLEAN, Send(l, ok) PROVE TextInv(text')
  BY <1>5, SentInv DEF Send, Relays
<1>6. ASSUME RelayEnds PROVE TextInv(text')
  <2> DEFINE u == Moved(text, "over")
  <2>1. text' = u /\ text.todo = <<>>
    BY <1>6 DEF RelayEnds, Relays, Moved
  <2>2. TextRecord(u) /\ u.pc = "over" /\ u.from = text.from /\ u.todo = text.todo /\ u.owed = text.owed
        /\ u.got = text.got
    BY <1>0, TextMoved
  <2> HIDE DEF u
  <2>3. \A p \in text.owed : text.got[p] = 1
    BY <2>1 DEF TextInv
  <2> QED
    BY <2>1, <2>2, <2>3, TextStays
<1> QED
  BY <1>1, <1>2, <1>3, <1>4, <1>5, <1>6 DEF Texts

\* The teardown gives up what is on its way.
LEMMA TextInvTeardown ==
  ASSUME TextInv(text), Teardown
  PROVE  TextInv(text')
<1> DEFINE o == {}
           u == Ended(text, "over", o)
<1>1. text' = text \/ text' = u
  BY DEF Teardown, Stop, CaptionsStopped, DubbingStopped, Leave, Ended
<1>2. TextRecord(text)
  BY DEF TextInv
<1>3. o = {}
  OBVIOUS
<1> HIDE DEF o
<1>4. TextRecord(u) /\ u.pc = "over" /\ u.from = text.from /\ u.todo = text.todo /\ u.owed = o /\ u.got = text.got
  BY <1>2, TextEnded
<1> HIDE DEF u
<1>5. TextInv(u)
  BY <1>3, <1>4, TextStays
<1> QED
  BY <1>1, <1>5

LEMMA LiveGoes ==
  ASSUME NEW i \in DOMAIN works, Live(i)
  PROVE  \E w, report : Goes(i, w, report)
<1>1. StartSession(i) \/ StartPipeline(i) \/ AcquireStt(i) \/ AcquireDub(i) => \E w, report : Goes(i, w, report)
  BY DEF StartSession, StartPipeline, AcquireStt, AcquireDub
<1>2. Publish(i) \/ PublishFails(i) \/ Opens(i) \/ Fails(i) => \E w, report : Goes(i, w, report)
  BY DEF Publish, PublishFails, Opens, Fails
<1>3. Rotates(i) \/ CloseSession(i) \/ ClosePipeline(i) => \E w, report : Goes(i, w, report)
  BY DEF Rotates, CloseSession, ClosePipeline
<1> QED
  BY <1>1, <1>2, <1>3 DEF Live

LEMMA TextInvHolds == Spec => []TextInv(text)
<1>1. Init => TextInv(text)
  BY SilentIs DEF Init
<1>2. TextInv(text) /\ [Next]_vars => TextInv(text)'
  <2> SUFFICES ASSUME TextInv(text), [Next]_vars PROVE TextInv(text')
    OBVIOUS
  <2>1. CASE Connect \/ StopNext \/ Cut
    BY <2>1 DEF Connect, StopNext, Cut
  <2>2. CASE Teardown
    BY <2>2, TextInvTeardown
  <2>3. CASE \E p \in People : Callback(p)
    <3>1. \E who, b : Happens(who, b)
      BY <2>3, CallbackHappens
    <3> QED
      BY <3>1 DEF Happens
  <2>4. CASE \E i \in DOMAIN works : Live(i)
    <3>1. \E i, w, report : Goes(i, w, report)
      BY <2>4, LiveGoes
    <3> QED
      BY <3>1 DEF Goes
  <2>5. CASE Tells
    BY <2>5, TellsIs
  <2>6. CASE Texts
    BY <2>6, TextInvText
  <2>7. CASE vars' = vars
    BY <2>7 DEF vars
  <2> QED
    BY <2>1, <2>2, <2>3, <2>4, <2>5, <2>6, <2>7, NextIs
<1> QED
  BY <1>1, <1>2, PTL DEF Spec

\* Participants change their language, leave and return while a caption or a chat
\* message is translated for one group after the other: nobody gets it twice, its
\* author never, and everyone it was meant for who was there when it was sent has
\* it (_on_final_transcript, ChatRelay._handle_message, send_text).
THEOREM TextsReach == Spec => []TextsReachOnce
<1>1. TextInv(text) => TextsReachOnce
  BY DEF TextInv, TextsReachOnce
<1> QED
  BY <1>1, TextInvHolds, PTL

-----------------------------------------------------------------------------
(* What the room is told, and the meeting's row says, of what has failed.  *)

Report == [key : Keys, bad : BOOLEAN, written : BOOLEAN]

\* The one session of a subject, as DegradedIsShown means it, and whether one of
\* its sessions is down or has ended.
DownIn(a, k) ==
  /\ a.current[k] # 0 /\ a.current[k] \notin a.stops /\ Down(a.works[a.current[k]])
  /\ \A i \in DOMAIN a.works : a.works[i].key = k /\ a.works[i].late => i = a.current[k]

WasDown(a, k) == \E i \in DOMAIN a.works : a.works[i].key = k /\ (Down(a.works[i]) \/ a.works[i].pc = "closed")

Pending(k) == \E n \in DOMAIN reports : reports[n].key = k

LastSays(k) == \E n \in DOMAIN reports :
                 /\ reports[n].key = k /\ reports[n].bad
                 /\ \A m \in DOMAIN reports : m > n => reports[m].key # k

\* What the room knows of a subject once the reports of it have been made.
Known(k) == IF Pending(k) THEN LastSays(k) ELSE k \in told

\* Of the reports of a subject the first one alone may have been written.
Recorded(k) ==
  /\ \A n \in DOMAIN reports : reports[n].key = k /\ reports[n].written =>
       ~Earlier(n) /\ (reports[n].bad => wrote[k] # "nothing")
  /\ k \in told /\ (\A n \in DOMAIN reports : reports[n].key = k => ~reports[n].written) => wrote[k] # "nothing"

ShownOf(k) == (DownIn(Agent, k) => Known(k)) /\ (Known(k) => WasDown(Agent, k)) /\ Recorded(k)

ShownInv ==
  /\ reports \in Seq(Report) /\ wrote \in [Keys -> {"nothing", "error", "cleared"}]
  /\ \A k \in Keys : wrote[k] = "error" => column # None
  /\ \A k \in Keys \ muddled : ShownOf(k)

LEMMA ShownInvInit == Init => ShownInv
<1> SUFFICES ASSUME Init PROVE ShownInv
  OBVIOUS
<1>1. reports = <<>> /\ told = {} /\ wrote = [k \in Keys |-> "nothing"] /\ current = [k \in Keys |-> 0]
  BY DEF Init
<1>2. \A k \in Keys : ~Known(k) /\ ~DownIn(Agent, k) /\ Recorded(k) /\ wrote[k] = "nothing"
  BY <1>1 DEF Known, Pending, DownIn, Recorded, Agent
<1> QED
  BY <1>1, <1>2 DEF ShownInv, ShownOf

\* Sessions come and go, and nothing is said.
Mild == \A k \in Keys : (DownIn(Agent', k) => DownIn(Agent, k)) /\ (WasDown(Agent, k) => WasDown(Agent', k))

LEMMA MildKeeps ==
  ASSUME ShownInv, Mild, UNCHANGED <<reports, told, column, muddled, wrote>>
  PROVE  ShownInv'
<1>1. \A k \in Keys : (Known(k)' <=> Known(k)) /\ (Recorded(k)' <=> Recorded(k))
  BY DEF Known, Pending, LastSays, Recorded, Earlier
<1>2. \A k \in Keys \ muddled : DownIn(Agent', k) => Known(k)'
  BY <1>1 DEF Mild, ShownInv, ShownOf
<1>3. \A k \in Keys \ muddled : Known(k)' => WasDown(Agent', k)
  BY <1>1 DEF Mild, ShownInv, ShownOf
<1>4. \A k \in Keys \ muddled : DownIn(Agent, k)' => Known(k)'
  BY <1>2 DEF DownIn
<1>5. \A k \in Keys \ muddled : Known(k)' => WasDown(Agent, k)'
  BY <1>3 DEF WasDown
<1>6. \A k \in Keys \ muddled' : Recorded(k)'
  BY <1>1 DEF ShownInv, ShownOf
<1> QED
  BY <1>4, <1>5, <1>6 DEF ShownInv, ShownOf

LEMMA GrowsMild ==
  ASSUME AgentInv(Agent), AgentInv(Agent'), Grows(Agent, Agent')
  PROVE  Mild
<1> DEFINE a == Agent
           b == Agent'
<1>1. /\ DOMAIN a.works \subseteq DOMAIN b.works
      /\ \A i \in DOMAIN a.works : SameWork(a.works[i], b.works[i])
      /\ \A i \in DOMAIN b.works \ DOMAIN a.works : b.works[i].pc = "launched" /\ b.works[i].fails = 0
      /\ a.stops \subseteq b.stops
      /\ \A k \in Keys : b.current[k] \in {0, a.current[k]} \cup (DOMAIN b.works \ DOMAIN a.works)
      /\ \A k \in Keys : a.current[k] # 0 => a.current[k] \in DOMAIN a.works
  BY DEF Grows, AgentInv
<1> HIDE DEF a, b
<1>2. \A v, w : SameWork(v, w) => (Down(v) <=> Down(w)) /\ w.pc = v.pc /\ w.key = v.key /\ (w.late = v.late)
  BY DEF SameWork, Down
<1>3. \A w : w.pc = "launched" /\ w.fails = 0 => ~Down(w)
  BY AgentRoomAssumption DEF Down
<1>4. ASSUME NEW k \in Keys, DownIn(b, k) PROVE DownIn(a, k)
  <2>1. b.current[k] # 0 /\ b.current[k] \notin b.stops /\ Down(b.works[b.current[k]])
    BY <1>4 DEF DownIn
  <2>2. b.current[k] = a.current[k] /\ a.current[k] \in DOMAIN a.works
    BY <1>1, <1>3, <2>1
  <2>3. Down(a.works[a.current[k]]) /\ a.current[k] \notin a.stops /\ a.current[k] # 0
    BY <1>1, <1>2, <2>1, <2>2
  <2>4. ASSUME NEW i \in DOMAIN a.works, a.works[i].key = k, a.works[i].late PROVE i = a.current[k]
    <3>1. i \in DOMAIN b.works /\ b.works[i].key = k /\ b.works[i].late
      BY <1>1, <1>2, <2>4
    <3> QED
      BY <1>4, <2>2, <3>1 DEF DownIn
  <2> QED
    BY <2>3, <2>4 DEF DownIn
<1>5. ASSUME NEW k \in Keys, WasDown(a, k) PROVE WasDown(b, k)
  BY <1>1, <1>2, <1>5 DEF WasDown
<1> QED
  BY <1>4, <1>5 DEF Mild, a, b

\* More is stopped, or less is in the dictionaries.
LEMMA LessMild ==
  ASSUME works' = works, stops \subseteq stops', \A k \in Keys : current'[k] \in {0, current[k]}
  PROVE  Mild
BY DEF Mild, DownIn, WasDown, Agent

LEMMA CutMild ==
  ASSUME AgentInv(Agent), current' = current, stops' = stops, DOMAIN works' = DOMAIN works,
         \A j \in DOMAIN works : /\ Remains(works[j], works'[j]) /\ works'[j].fails = works[j].fails
                                 /\ works'[j].pc = works[j].pc \/ (works'[j].pc = "closed" /\ j \in stops)
  PROVE  Mild
<1> DEFINE a == Agent
           b == Agent'
<1>1. /\ b.current = a.current /\ b.stops = a.stops /\ DOMAIN b.works = DOMAIN a.works
      /\ \A k \in Keys : a.current[k] # 0 => a.current[k] \in DOMAIN a.works
      /\ \A j \in DOMAIN a.works : /\ Remains(a.works[j], b.works[j]) /\ b.works[j].fails = a.works[j].fails
                                   /\ b.works[j].pc = a.works[j].pc \/ (b.works[j].pc = "closed" /\ j \in a.stops)
  BY DEF AgentInv, Agent
<1> HIDE DEF a, b
<1>2. ASSUME NEW j \in DOMAIN a.works
      PROVE  /\ b.works[j].key = a.works[j].key /\ b.works[j].late = a.works[j].late
             /\ j \notin a.stops => (Down(b.works[j]) <=> Down(a.works[j]))
             /\ Down(a.works[j]) \/ a.works[j].pc = "closed" => Down(b.works[j]) \/ b.works[j].pc = "closed"
  BY <1>1 DEF Remains, Down
<1>3. ASSUME NEW k \in Keys, DownIn(b, k) PROVE DownIn(a, k)
  BY <1>1, <1>2, <1>3 DEF DownIn
<1>4. ASSUME NEW k \in Keys, WasDown(a, k) PROVE WasDown(b, k)
  BY <1>1, <1>2, <1>4 DEF WasDown
<1> QED
  BY <1>3, <1>4 DEF Mild, a, b

\* One more report.
LEMMA OneMoreReport ==
  ASSUME reports \in Seq(Report), NEW r \in Report, ~r.written, reports' = reports \o <<r>>,
         told' = told, wrote' = wrote, NEW k \in Keys
  PROVE  /\ reports' \in Seq(Report) /\ (Recorded(k) => Recorded(k)')
         /\ k # r.key => (Known(k)' <=> Known(k))
         /\ k = r.key => (Known(k)' <=> r.bad)
<1> DEFINE L == Len(reports)
<1>1. /\ L \in Nat /\ DOMAIN reports = 1..L /\ reports' \in Seq(Report) /\ DOMAIN reports' = 1..L + 1
      /\ reports'[L + 1] = r /\ \A n \in 1..L : reports'[n] = reports[n]
  <2>1. L \in Nat /\ DOMAIN reports = 1..L /\ <<r>> \in Seq(Report) /\ Len(<<r>>) = 1 /\ <<r>>[1] = r
    BY LenProperties
  <2>2. /\ reports' \in Seq(Report) /\ Len(reports') = L + 1
        /\ \A n \in 1..L + 1 : reports'[n] = IF n <= L THEN reports[n] ELSE <<r>>[n - L]
    <3> DEFINE s == <<r>>
    <3>1. s \in Seq(Report) /\ Len(s) = 1
      BY <2>1
    <3> HIDE DEF s
    <3>2. /\ reports \o s \in Seq(Report) /\ Len(reports \o s) = L + Len(s)
          /\ \A n \in 1..L + Len(s) : (reports \o s)[n] = IF n <= L THEN reports[n] ELSE s[n - L]
      BY <3>1, ConcatProperties
    <3> QED
      BY <3>1, <3>2 DEF s
  <2>3. DOMAIN reports' = 1..L + 1
    BY <2>2, LenProperties
  <2>4. L + 1 \in 1..L + 1 /\ ~(L + 1 <= L) /\ (L + 1) - L = 1 /\ \A n \in 1..L : n \in 1..L + 1 /\ n <= L
    BY <2>1
  <2> QED
    BY <2>1, <2>2, <2>3, <2>4
<1> DEFINE rs == reports'
<1> HIDE DEF L, rs
<1>2. /\ rs[L + 1] = r /\ DOMAIN rs = 1..L + 1 /\ \A n \in 1..L : rs[n] = reports[n]
      /\ L \in Nat /\ DOMAIN reports = 1..L
  BY <1>1 DEF rs
<1>3. \A n \in 1..L + 1 : n = L + 1 \/ n \in 1..L
  BY <1>2
<1>4. 1..L \subseteq 1..L + 1 /\ L + 1 \in 1..L + 1 /\ \A n \in 1..L : L + 1 > n /\ ~(n > L + 1)
  BY <1>2
<1>5. ASSUME Recorded(k) PROVE Recorded(k)'
  <2>1. ASSUME NEW n \in DOMAIN rs, rs[n].key = k, rs[n].written
        PROVE  ~(\E m \in 1..(n - 1) : rs[m].key = rs[n].key) /\ (rs[n].bad => wrote[k] # "nothing")
    <3>1. n \in 1..L
      BY <1>2, <1>3, <2>1
    <3>2. ~Earlier(n) /\ (reports[n].bad => wrote[k] # "nothing")
      BY <1>2, <1>5, <2>1, <3>1 DEF Recorded
    <3>3. \A m \in 1..(n - 1) : m \in 1..L
      BY <1>2, <3>1
    <3> QED
      BY <1>2, <3>1, <3>2, <3>3 DEF Earlier
  <2>2. ASSUME k \in told, \A n \in DOMAIN rs : rs[n].key = k => ~rs[n].written PROVE wrote[k] # "nothing"
    BY <1>2, <1>4, <1>5, <2>2 DEF Recorded
  <2> QED
    BY <2>1, <2>2 DEF Recorded, Earlier, rs
<1>6. ASSUME k # r.key PROVE Known(k)' <=> Known(k)
  <2>1. (\E n \in DOMAIN rs : rs[n].key = k) <=> Pending(k)
    BY <1>2, <1>3, <1>4, <1>6 DEF Pending
  <2>2. ASSUME NEW n \in 1..L
        PROVE  (\A m \in DOMAIN rs : m > n => rs[m].key # k) <=> (\A m \in DOMAIN reports : m > n => reports[m].key # k)
    BY <1>2, <1>3, <1>4, <1>6
  <2>3. (\E n \in DOMAIN rs : rs[n].key = k /\ rs[n].bad /\ \A m \in DOMAIN rs : m > n => rs[m].key # k) <=> LastSays(k)
    BY <1>2, <1>3, <1>4, <1>6, <2>2 DEF LastSays
  <2> QED
    BY <2>1, <2>3 DEF Known, Pending, LastSays, rs
<1>7. ASSUME k = r.key PROVE Known(k)' <=> r.bad
  <2>1. \E n \in DOMAIN rs : rs[n].key = k
    BY <1>2, <1>4, <1>7
  <2>2. (\E n \in DOMAIN rs : rs[n].key = k /\ rs[n].bad /\ \A m \in DOMAIN rs : m > n => rs[m].key # k) <=> r.bad
    <3>1. \A m \in DOMAIN rs : ~(m > L + 1)
      BY <1>2
    <3>2. ASSUME NEW n \in DOMAIN rs, \A m \in DOMAIN rs : m > n => rs[m].key # k PROVE n = L + 1
      BY <1>2, <1>3, <1>4, <1>7, <3>2
    <3> QED
      BY <1>2, <1>4, <1>7, <3>1, <3>2
  <2> QED
    BY <2>1, <2>2 DEF Known, Pending, LastSays, rs
<1> QED
  BY <1>1, <1>5, <1>6, <1>7

\* What a step in the life of one session makes of its subject.
LEMMA LifeTouches ==
  ASSUME RoomInv, NEW i \in DOMAIN works, NEW w, NEW report, Goes(i, w, report), Lives(i, w, report), NEW k \in Keys
  PROVE  /\ k # works[i].key => (DownIn(Agent', k) => DownIn(Agent, k)) /\ (WasDown(Agent, k) => WasDown(Agent', k))
         /\ k = works[i].key =>
              /\ (Down(w) => Down(works[i])) => (DownIn(Agent', k) => DownIn(Agent, k))
              /\ (Down(works[i]) => (Down(w) \/ w.pc = "closed")) => (WasDown(Agent, k) => WasDown(Agent', k))
              /\ i \notin stops /\ DownIn(Agent', k) => Down(w)
              /\ Down(w) => WasDown(Agent', k)
<1>1. /\ DOMAIN works' = DOMAIN works /\ works'[i] = w /\ \A j \in DOMAIN works \ {i} : works'[j] = works[j]
  BY LifeKeeps
<1>2. w.key = works[i].key /\ w.late = works[i].late /\ works[i].pc # "closed" /\ current' = current /\ stops' = stops
  BY DEF Lives, Remains, Goes
<1>3. /\ \A j \in DOMAIN works : ~works[j].late /\ j \notin stops => current[works[j].key] = j
      /\ current[k] # 0 => current[k] \in DOMAIN works /\ works[current[k]].key = k
  BY AgentParts DEF RoomInv, RoomOk
<1>4. \A j \in DOMAIN works : works'[j].key = works[j].key /\ works'[j].late = works[j].late
  BY <1>1, <1>2
<1> DEFINE wo == works'
<1>5. /\ DownIn(Agent', k) <=> /\ current[k] # 0 /\ current[k] \notin stops /\ Down(wo[current[k]])
                               /\ \A j \in DOMAIN wo : wo[j].key = k /\ wo[j].late => j = current[k]
      /\ WasDown(Agent', k) <=> \E j \in DOMAIN wo : wo[j].key = k /\ (Down(wo[j]) \/ wo[j].pc = "closed")
  BY <1>2 DEF DownIn, WasDown, Agent
<1>6. /\ DownIn(Agent, k) <=> /\ current[k] # 0 /\ current[k] \notin stops /\ Down(works[current[k]])
                              /\ \A j \in DOMAIN works : works[j].key = k /\ works[j].late => j = current[k]
      /\ WasDown(Agent, k) <=> \E j \in DOMAIN works : works[j].key = k /\ (Down(works[j]) \/ works[j].pc = "closed")
  BY DEF DownIn, WasDown, Agent
<1>7. /\ DOMAIN wo = DOMAIN works /\ wo[i] = w /\ \A j \in DOMAIN works \ {i} : wo[j] = works[j]
      /\ \A j \in DOMAIN works : wo[j].key = works[j].key /\ wo[j].late = works[j].late
  BY <1>1, <1>4
<1> HIDE DEF wo
<1>8. ASSUME k # works[i].key
      PROVE  (DownIn(Agent', k) => DownIn(Agent, k)) /\ (WasDown(Agent, k) => WasDown(Agent', k))
  BY <1>3, <1>5, <1>6, <1>7, <1>8
<1>9. ASSUME Down(w) => Down(works[i]) PROVE DownIn(Agent', k) => DownIn(Agent, k)
  BY <1>3, <1>5, <1>6, <1>7, <1>9
<1>10. ASSUME Down(works[i]) => (Down(w) \/ w.pc = "closed") PROVE WasDown(Agent, k) => WasDown(Agent', k)
  BY <1>2, <1>5, <1>6, <1>7, <1>10
<1>11. ASSUME k = works[i].key, i \notin stops, DownIn(Agent', k) PROVE Down(w)
  <2>1. current[k] = i
    BY <1>3, <1>5, <1>7, <1>11
  <2> QED
    BY <1>5, <1>7, <1>11, <2>1
<1>12. ASSUME k = works[i].key, Down(w) PROVE WasDown(Agent', k)
  BY <1>5, <1>7, <1>12
<1> QED
  BY <1>8, <1>9, <1>10, <1>11, <1>12

LEMMA LifeShown ==
  ASSUME RoomInv, ShownInv, NEW i \in DOMAIN works, NEW w, NEW report, Goes(i, w, report), Lives(i, w, report)
  PROVE  ShownInv'
<1>1. /\ reports' = reports \o report /\ UNCHANGED <<told, column, wrote>>
      /\ muddled' = IF report # <<>> /\ i \in stops THEN muddled \cup {w.key} ELSE muddled
  BY DEF Goes
<1>2. works[i].key \in Keys /\ w.key = works[i].key
  BY AgentParts DEF RoomInv, RoomOk, Lives, Remains
<1>3. CASE report = <<>> /\ (Down(works[i]) => (Down(w) \/ w.pc = "closed")) /\ (Down(w) => Down(works[i]))
  <2>1. reports' = reports /\ muddled' = muddled
    BY <1>1, <1>3 DEF ShownInv
  <2>2. Mild
    BY <1>3, LifeTouches DEF Mild
  <2> QED
    BY <1>1, <2>1, <2>2, MildKeeps
<1>4. ASSUME NEW r \in Report, report = <<r>>, ~r.written, r.key = works[i].key, r.bad <=> Down(w) PROVE ShownInv'
  <2>1. /\ reports' \in Seq(Report)
        /\ \A k \in Keys : /\ Recorded(k) => Recorded(k)'
                           /\ k # r.key => (Known(k)' <=> Known(k))
                           /\ k = r.key => (Known(k)' <=> r.bad)
    <3>1. reports \in Seq(Report) /\ reports' = reports \o <<r>> /\ told' = told /\ wrote' = wrote
      BY <1>1, <1>4 DEF ShownInv
    <3> QED
      BY <1>4, <3>1, OneMoreReport
  <2>2. ASSUME NEW k \in Keys, k \notin muddled' PROVE ShownOf(k)'
    <3>1. ShownOf(k) /\ Recorded(k)'
      BY <1>1, <2>1, <2>2 DEF ShownInv, ShownOf
    <3>2. CASE k # r.key
      <4>1. (DownIn(Agent', k) => Known(k)') /\ (Known(k)' => WasDown(Agent', k))
        BY <1>4, <2>1, <3>1, <3>2, LifeTouches DEF ShownOf
      <4> QED
        BY <3>1, <4>1 DEF ShownOf, DownIn, WasDown
    <3>3. CASE k = r.key
      <4>1. i \notin stops
        <5>1. <<r>> # <<>>
          OBVIOUS
        <5> QED
          BY <1>1, <1>2, <1>4, <2>2, <3>3, <5>1
      <4>2. (DownIn(Agent', k) => Known(k)') /\ (Known(k)' => WasDown(Agent', k))
        BY <1>4, <2>1, <3>3, <4>1, LifeTouches
      <4> QED
        BY <3>1, <4>2 DEF ShownOf, DownIn, WasDown
    <3> QED
      BY <3>2, <3>3
  <2> QED
    BY <1>1, <2>1, <2>2 DEF ShownInv
<1> DEFINE R(bad) == [key |-> works[i].key, bad |-> bad, written |-> FALSE]
<1>5. CASE report = Fault(i) /\ Down(w)
  <2>1. R(TRUE) \in Report /\ R(TRUE).bad /\ ~R(TRUE).written /\ R(TRUE).key = works[i].key /\ report = <<R(TRUE)>>
    BY <1>2, <1>5 DEF Report, Fault
  <2> HIDE DEF R
  <2> QED
    BY <1>4, <1>5, <2>1
<1>6. CASE report = Recovery(i) /\ ~Down(w)
  <2>1. R(FALSE) \in Report /\ ~R(FALSE).bad /\ ~R(FALSE).written /\ R(FALSE).key = works[i].key /\ report = <<R(FALSE)>>
    BY <1>2, <1>6 DEF Report, Recovery
  <2> HIDE DEF R
  <2> QED
    BY <1>4, <1>6, <2>1
<1> QED
  BY <1>3, <1>5, <1>6 DEF Lives

\* The first half of a report: the column of the meeting.
LEMMA WriteShown ==
  ASSUME ShownInv, NEW n \in DOMAIN reports, NEW ok \in BOOLEAN, WriteColumn(n, ok)
  PROVE  ShownInv'
<1> DEFINE q == reports[n].key
           r == [reports[n] EXCEPT !.written = TRUE]
           rs == reports'
           wr == wrote'
<1>0. /\ reports \in Seq(Report) /\ wrote \in [Keys -> {"nothing", "error", "cleared"}]
      /\ \A k \in Keys : wrote[k] = "error" => column # None
      /\ \A k \in Keys \ muddled : ShownOf(k)
  BY DEF ShownInv
<1>1. /\ ~reports[n].written /\ rs = [reports EXCEPT ![n].written = TRUE]
      /\ column' = IF ~ok THEN column ELSE IF reports[n].bad THEN q ELSE None
      /\ wr = IF ~ok THEN wrote
              ELSE IF reports[n].bad THEN [wrote EXCEPT ![q] = "error"]
              ELSE [j \in Keys |-> IF j = q THEN "nothing" ELSE IF wrote[j] = "error" THEN "cleared" ELSE wrote[j]]
      /\ muddled' = IF ok /\ ~Earlier(n) THEN muddled ELSE muddled \cup {q}
      /\ UNCHANGED <<works, current, stops, told>>
  BY DEF WriteColumn
<1>2. reports[n] \in Report /\ \A m \in DOMAIN reports : reports[m].key \in Keys
  <2>1. \A m \in DOMAIN reports : reports[m] \in Report
    BY <1>0, LenProperties, ElementOfSeq
  <2> QED
    BY <2>1 DEF Report
<1>3. r \in Report /\ r.key = q /\ r.written /\ (r.bad <=> reports[n].bad) /\ q \in Keys /\ None \notin Keys
  BY <1>2, AgentRoomAssumption DEF Report
<1>4. /\ rs \in Seq(Report) /\ DOMAIN rs = DOMAIN reports /\ rs[n] = r
      /\ \A m \in DOMAIN reports \ {n} : rs[m] = reports[m]
  <2>1. rs = [reports EXCEPT ![n] = r]
    BY <1>0, <1>1
  <2> HIDE DEF r, rs
  <2> QED
    BY <1>0, <1>3, <2>1, ExceptSeq
<1> HIDE DEF r, rs
<1>5. \A m \in DOMAIN rs : rs[m].key = reports[m].key /\ (rs[m].bad <=> reports[m].bad)
  BY <1>3, <1>4
<1>6. /\ wr \in [Keys -> {"nothing", "error", "cleared"}]
      /\ \A k \in Keys : wr[k] = "error" => column' # None
      /\ \A k \in Keys \ {q} : wrote[k] # "nothing" => wr[k] # "nothing"
      /\ ok /\ reports[n].bad => wr[q] # "nothing"
  <2>1. CASE ~ok
    BY <1>0, <1>1, <2>1
  <2>2. CASE ok /\ reports[n].bad
    BY <1>0, <1>1, <1>3, <2>2
  <2>3. CASE ok /\ ~reports[n].bad
    BY <1>0, <1>1, <1>3, <2>3
  <2> QED
    BY <2>1, <2>2, <2>3
<1> HIDE DEF wr
<1>7. ASSUME NEW k \in Keys PROVE Known(k)' <=> Known(k)
  <2>1. (\E m \in DOMAIN rs : rs[m].key = k) <=> Pending(k)
    BY <1>4, <1>5 DEF Pending
  <2>2. (\E m \in DOMAIN rs : rs[m].key = k /\ rs[m].bad /\ \A l \in DOMAIN rs : l > m => rs[l].key # k) <=> LastSays(k)
    BY <1>4, <1>5 DEF LastSays
  <2> QED
    BY <1>1, <2>1, <2>2 DEF Known, Pending, LastSays, rs
<1>8. \A m \in DOMAIN reports : \A l \in 1..(m - 1) : l \in DOMAIN reports
  BY <1>0, LenProperties
<1>9. ASSUME NEW k \in Keys, k \notin muddled' PROVE Recorded(k)'
  <2>0. k \notin muddled
    BY <1>1, <1>9
  <2>1. /\ \A m \in DOMAIN reports : reports[m].key = k /\ reports[m].written =>
             ~Earlier(m) /\ (reports[m].bad => wrote[k] # "nothing")
        /\ k \in told /\ (\A m \in DOMAIN reports : reports[m].key = k => ~reports[m].written) => wrote[k] # "nothing"
    BY <1>0, <2>0 DEF ShownOf, Recorded
  <2>2. \A m \in DOMAIN reports : (\E l \in 1..(m - 1) : rs[l].key = rs[m].key) <=> Earlier(m)
    BY <1>4, <1>5, <1>8 DEF Earlier
  <2>3. CASE k # q
    <3>1. ASSUME NEW m \in DOMAIN rs, rs[m].key = k, rs[m].written
          PROVE  ~(\E l \in 1..(m - 1) : rs[l].key = rs[m].key) /\ (rs[m].bad => wr[k] # "nothing")
      <4>1. m # n /\ reports[m].key = k /\ reports[m].written
        BY <1>3, <1>4, <2>3, <3>1
      <4> QED
        BY <1>4, <1>5, <1>6, <2>1, <2>2, <2>3, <3>1, <4>1
    <3>2. ASSUME k \in told', \A m \in DOMAIN rs : rs[m].key = k => ~rs[m].written PROVE wr[k] # "nothing"
      <4>1. \A m \in DOMAIN reports : reports[m].key = k => ~reports[m].written
        BY <1>4, <2>3, <3>2
      <4> QED
        BY <1>1, <1>6, <2>1, <2>3, <3>2, <4>1
    <3> QED
      BY <3>1, <3>2 DEF Recorded, Earlier, rs, wr
  <2>4. CASE k = q
    <3>1. ok /\ ~Earlier(n)
      BY <1>1, <1>9, <2>4
    <3>2. ASSUME NEW m \in DOMAIN rs, rs[m].key = k, rs[m].written PROVE m = n
      <4>1. CASE m # n
        <5>1. reports[m].key = k /\ reports[m].written /\ ~Earlier(m)
          BY <1>4, <2>1, <3>2, <4>1
        <5>2. m \in Nat \ {0} /\ n \in Nat \ {0}
          BY <1>0, <1>4, LenProperties
        <5>3. m \in 1..(n - 1) \/ n \in 1..(m - 1)
          BY <4>1, <5>2
        <5> QED
          BY <2>4, <3>1, <5>1, <5>3 DEF Earlier
      <4> QED
        BY <4>1
    <3>3. ASSUME NEW m \in DOMAIN rs, rs[m].key = k, rs[m].written
          PROVE  ~(\E l \in 1..(m - 1) : rs[l].key = rs[m].key) /\ (rs[m].bad => wr[k] # "nothing")
      <4>1. m = n
        BY <3>2, <3>3
      <4> QED
        BY <1>5, <1>6, <2>2, <2>4, <3>1, <4>1
    <3>4. \E m \in DOMAIN rs : rs[m].key = k /\ rs[m].written
      BY <1>3, <1>4, <2>4
    <3> QED
      BY <3>3, <3>4 DEF Recorded, Earlier, rs, wr
  <2> QED
    BY <2>3, <2>4
<1>10. ASSUME NEW k \in Keys, k \notin muddled' PROVE ShownOf(k)'
  <2>1. k \notin muddled
    BY <1>1, <1>10
  <2>2. (DownIn(Agent, k) => Known(k)) /\ (Known(k) => WasDown(Agent, k))
    BY <1>0, <2>1 DEF ShownOf
  <2>3. (DownIn(Agent, k)' <=> DownIn(Agent, k)) /\ (WasDown(Agent, k)' <=> WasDown(Agent, k))
    BY <1>1 DEF Agent, DownIn, WasDown
  <2> QED
    BY <1>7, <1>9, <1>10, <2>2, <2>3 DEF ShownOf
<1> QED
  BY <1>4, <1>6, <1>10 DEF ShownInv, rs, wr

\* One report less: the others keep their order.
LEMMA OneLessReport ==
  ASSUME reports \in Seq(Report), NEW n \in DOMAIN reports, reports' = RemoveAt(reports, n)
  PROVE  /\ reports' \in Seq(Report)
         /\ \E h : /\ \A i \in DOMAIN reports' : h[i] \in DOMAIN reports \ {n} /\ reports'[i] = reports[h[i]]
                   /\ \A m \in DOMAIN reports \ {n} : \E i \in DOMAIN reports' : h[i] = m
                   /\ \A i, j \in DOMAIN reports' : i > j <=> h[i] > h[j]
                   /\ DOMAIN reports' \subseteq Nat \ {0} /\ DOMAIN reports \subseteq Nat \ {0}
                   /\ \A i, j \in Nat \ {0} : i \in 1..(j - 1) <=> j > i
                   /\ \A j \in DOMAIN reports : \A i \in 1..(j - 1) : i \in DOMAIN reports
                   /\ \A j \in DOMAIN reports' : \A i \in 1..(j - 1) : i \in DOMAIN reports'
<1> DEFINE L == Len(reports)
           rs == reports'
           h == [i \in DOMAIN rs |-> IF i < n THEN i ELSE i + 1]
<1>1. L \in Nat /\ DOMAIN reports = 1..L /\ n \in 1..L
  BY LenProperties
<1>2. rs \in Seq(Report) /\ Len(rs) = L - 1 /\ \A i \in 1..L - 1 : rs[i] = IF i < n THEN reports[i] ELSE reports[i + 1]
  BY <1>1, RemovedAt
<1>3. DOMAIN rs = 1..L - 1
  BY <1>2, LenProperties
<1> HIDE DEF L, rs
<1>4. \A i \in DOMAIN rs : h[i] = IF i < n THEN i ELSE i + 1
  OBVIOUS
<1> HIDE DEF h
<1>5. \A i \in DOMAIN rs : h[i] \in (1..L) \ {n} /\ rs[i] = reports[h[i]]
  BY <1>1, <1>2, <1>3, <1>4
<1>6. ASSUME NEW m \in (1..L) \ {n} PROVE \E i \in DOMAIN rs : h[i] = m
  <2>1. CASE m < n
    <3>1. m \in DOMAIN rs /\ h[m] = m
      BY <1>1, <1>3, <1>4, <2>1
    <3> QED
      BY <3>1
  <2>2. CASE ~(m < n)
    <3>1. m - 1 \in DOMAIN rs /\ ~(m - 1 < n) /\ (m - 1) + 1 = m
      BY <1>1, <1>3, <2>2
    <3>2. h[m - 1] = m
      BY <1>4, <3>1
    <3> QED
      BY <3>1, <3>2
  <2> QED
    BY <2>1, <2>2
<1>7. \A i, j \in DOMAIN rs : i > j <=> h[i] > h[j]
  BY <1>1, <1>3, <1>4
<1>8. /\ DOMAIN rs \subseteq Nat \ {0} /\ DOMAIN reports \subseteq Nat \ {0}
      /\ \A i, j \in Nat \ {0} : i \in 1..(j - 1) <=> j > i
      /\ \A j \in DOMAIN reports : \A i \in 1..(j - 1) : i \in DOMAIN reports
      /\ \A j \in DOMAIN rs : \A i \in 1..(j - 1) : i \in DOMAIN rs
  BY <1>1, <1>3
<1> QED
  BY <1>1, <1>2, <1>5, <1>6, <1>7, <1>8 DEF rs

\* The second half: the room is told.
LEMMA TellShown ==
  ASSUME ShownInv, NEW n \in DOMAIN reports, NEW ok \in BOOLEAN, TellRoom(n, ok)
  PROVE  ShownInv'
<1> DEFINE rs == reports'
<1>0. /\ reports \in Seq(Report) /\ wrote \in [Keys -> {"nothing", "error", "cleared"}]
      /\ \A k \in Keys : wrote[k] = "error" => column # None
      /\ \A k \in Keys \ muddled : ShownOf(k)
  BY DEF ShownInv
<1>q. PICK q \in Keys : q = reports[n].key
  <2>1. reports[n] \in Report
    BY <1>0, LenProperties, ElementOfSeq
  <2> QED
    BY <2>1 DEF Report
<1> USE <1>q
<1>1. /\ reports[n].written /\ rs = RemoveAt(reports, n)
      /\ told' = IF ~ok THEN told ELSE IF reports[n].bad THEN told \cup {q} ELSE told \ {q}
      /\ muddled' = IF ok /\ ~Earlier(n) THEN muddled ELSE muddled \cup {q}
      /\ UNCHANGED <<works, current, stops, column, wrote>>
  BY DEF TellRoom
<1>2. rs \in Seq(Report)
  BY <1>0, <1>1, OneLessReport
<1>3. PICK h : /\ \A i \in DOMAIN rs : h[i] \in DOMAIN reports \ {n} /\ rs[i] = reports[h[i]]
               /\ \A m \in DOMAIN reports \ {n} : \E i \in DOMAIN rs : h[i] = m
               /\ \A i, j \in DOMAIN rs : i > j <=> h[i] > h[j]
               /\ DOMAIN rs \subseteq Nat \ {0} /\ DOMAIN reports \subseteq Nat \ {0}
               /\ \A i, j \in Nat \ {0} : i \in 1..(j - 1) <=> j > i
               /\ \A j \in DOMAIN reports : \A i \in 1..(j - 1) : i \in DOMAIN reports
               /\ \A j \in DOMAIN rs : \A i \in 1..(j - 1) : i \in DOMAIN rs
  BY <1>0, <1>1, OneLessReport
<1>4. \A m \in DOMAIN reports : Earlier(m) <=> \E l \in DOMAIN reports : m > l /\ reports[l].key = reports[m].key
  BY <1>3 DEF Earlier
<1> HIDE DEF rs
<1>5. ASSUME NEW i \in DOMAIN rs, \E l \in 1..(i - 1) : rs[l].key = rs[i].key PROVE Earlier(h[i])
  <2>1. PICK l \in 1..(i - 1) : rs[l].key = rs[i].key
    BY <1>5
  <2>2. l \in DOMAIN rs /\ i > l
    BY <1>3, <2>1
  <2>3. h[i] > h[l] /\ h[l] \in DOMAIN reports /\ h[i] \in DOMAIN reports /\ reports[h[l]].key = reports[h[i]].key
    BY <1>3, <2>1, <2>2
  <2> QED
    BY <1>4, <2>3
<1>6. ASSUME NEW k \in Keys, k \notin muddled', k # q PROVE ShownOf(k)'
  <2>0. k \notin muddled /\ ShownOf(k)
    BY <1>0, <1>1, <1>6
  <2>1. (\E i \in DOMAIN rs : rs[i].key = k) <=> Pending(k)
    BY <1>3, <1>6 DEF Pending
  <2>2. ASSUME NEW i \in DOMAIN rs
        PROVE  (\A j \in DOMAIN rs : j > i => rs[j].key # k) <=> (\A m \in DOMAIN reports : m > h[i] => reports[m].key # k)
    <3>1. \A m \in DOMAIN reports : m = n => reports[m].key # k
      BY <1>6
    <3> QED
      BY <1>3, <3>1
  <2>3. (\E i \in DOMAIN rs : rs[i].key = k /\ rs[i].bad /\ \A j \in DOMAIN rs : j > i => rs[j].key # k) => LastSays(k)
    <3> SUFFICES ASSUME NEW i \in DOMAIN rs, rs[i].key = k, rs[i].bad, \A j \in DOMAIN rs : j > i => rs[j].key # k
                 PROVE  LastSays(k)
      OBVIOUS
    <3>1. \A m \in DOMAIN reports : m > h[i] => reports[m].key # k
      BY <2>2
    <3> QED
      BY <1>3, <3>1 DEF LastSays
  <2>4. LastSays(k) => \E i \in DOMAIN rs : rs[i].key = k /\ rs[i].bad /\ \A j \in DOMAIN rs : j > i => rs[j].key # k
    <3> SUFFICES ASSUME NEW m \in DOMAIN reports, reports[m].key = k, reports[m].bad,
                        \A l \in DOMAIN reports : l > m => reports[l].key # k
                 PROVE  \E i \in DOMAIN rs : rs[i].key = k /\ rs[i].bad /\ \A j \in DOMAIN rs : j > i => rs[j].key # k
      BY DEF LastSays
    <3>1. PICK i \in DOMAIN rs : h[i] = m
      BY <1>3, <1>6
    <3> QED
      BY <1>3, <2>2, <3>1
  <2>5. Known(k)' <=> Known(k)
    BY <1>1, <1>6, <2>1, <2>3, <2>4 DEF Known, Pending, LastSays, rs
  <2>6. Recorded(k)'
    <3>1. ASSUME NEW i \in DOMAIN rs, rs[i].key = k, rs[i].written
          PROVE  ~(\E l \in 1..(i - 1) : rs[l].key = rs[i].key) /\ (rs[i].bad => wrote[k] # "nothing")
      <4>1. h[i] \in DOMAIN reports /\ reports[h[i]].key = k /\ reports[h[i]].written /\ (rs[i].bad <=> reports[h[i]].bad)
        BY <1>3, <3>1
      <4> QED
        BY <1>5, <2>0, <4>1 DEF ShownOf, Recorded
    <3>2. ASSUME k \in told', \A i \in DOMAIN rs : rs[i].key = k => ~rs[i].written PROVE wrote[k] # "nothing"
      <4>1. \A m \in DOMAIN reports : reports[m].key = k => ~reports[m].written
        <5> TAKE m \in DOMAIN reports
        <5> HAVE reports[m].key = k
        <5>1. PICK i \in DOMAIN rs : h[i] = m
          BY <1>3, <1>6
        <5> QED
          BY <1>3, <3>2, <5>1
      <4>2. k \in told
        BY <1>1, <1>6, <3>2
      <4> QED
        BY <2>0, <4>1, <4>2 DEF ShownOf, Recorded
    <3> QED
      BY <1>1, <3>1, <3>2 DEF Recorded, Earlier, rs
  <2>7. (DownIn(Agent, k)' <=> DownIn(Agent, k)) /\ (WasDown(Agent, k)' <=> WasDown(Agent, k))
    BY <1>1 DEF Agent, DownIn, WasDown
  <2> QED
    BY <2>0, <2>5, <2>6, <2>7 DEF ShownOf
<1>7. ASSUME q \notin muddled' PROVE ShownOf(q)'
  <2>0. ok /\ ~Earlier(n) /\ q \notin muddled /\ ShownOf(q)
    BY <1>0, <1>1, <1>7
  <2>1. \A m \in DOMAIN reports : reports[m].key = q => m = n \/ m > n
    <3> TAKE m \in DOMAIN reports
    <3> HAVE reports[m].key = q
    <3>1. m \in Nat /\ n \in Nat /\ ~(n > m)
      BY <1>3, <1>4, <2>0
    <3> QED
      BY <3>1
  <2>2. ASSUME NEW i \in DOMAIN rs, rs[i].key = q PROVE h[i] \in DOMAIN reports /\ reports[h[i]].key = q /\ h[i] > n
    BY <1>3, <2>1, <2>2
  <2>3. ASSUME NEW i \in DOMAIN rs, rs[i].key = q PROVE ~rs[i].written
    <3>1. Earlier(h[i])
      BY <1>4, <2>2, <2>3
    <3>2. ~reports[h[i]].written
      BY <2>0, <2>2, <2>3, <3>1 DEF ShownOf, Recorded
    <3> QED
      BY <1>3, <3>2
  <2>4. q \in told' <=> reports[n].bad
    BY <1>1, <2>0
  <2>5. Recorded(q)'
    <3>1. q \in told' => wrote[q] # "nothing"
      BY <1>1, <2>0, <2>4 DEF ShownOf, Recorded
    <3> QED
      BY <1>1, <2>3, <3>1 DEF Recorded, rs
  <2>6. Known(q)' <=> Known(q)
    <3>1. Pending(q)
      BY DEF Pending
    <3>2. CASE \E i \in DOMAIN rs : rs[i].key = q
      <4>1. ~\A m \in DOMAIN reports : m > n => reports[m].key # q
        BY <2>2, <3>2
      <4>2. ASSUME NEW i \in DOMAIN rs, rs[i].key = q
            PROVE  (\A j \in DOMAIN rs : j > i => rs[j].key # q) <=> (\A m \in DOMAIN reports : m > h[i] => reports[m].key # q)
        <5>1. ASSUME \A j \in DOMAIN rs : j > i => rs[j].key # q, NEW m \in DOMAIN reports, m > h[i], reports[m].key = q
              PROVE  FALSE
          <6>1. m # n
            <7>1. h[i] > n /\ h[i] \in Nat /\ n \in Nat /\ m \in Nat
              BY <1>3, <2>2, <4>2, <5>1
            <7> QED
              BY <5>1, <7>1
          <6> QED
            BY <1>3, <5>1, <6>1
        <5> QED
          BY <1>3, <5>1
      <4>3. (\E i \in DOMAIN rs : rs[i].key = q /\ rs[i].bad /\ \A j \in DOMAIN rs : j > i => rs[j].key # q) <=> LastSays(q)
        BY <1>3, <4>1, <4>2 DEF LastSays
      <4> QED
        BY <3>1, <3>2, <4>3 DEF Known, Pending, LastSays, rs
    <3>3. CASE ~\E i \in DOMAIN rs : rs[i].key = q
      <4>1. \A m \in DOMAIN reports : reports[m].key = q => m = n
        BY <1>3, <3>3
      <4>2. LastSays(q) <=> reports[n].bad
        <5>1. ~(n > n)
          BY <1>3
        <5> QED
          BY <4>1, <5>1 DEF LastSays
      <4> QED
        BY <2>4, <3>1, <3>3, <4>2 DEF Known, Pending, rs
    <3> QED
      BY <3>2, <3>3
  <2>7. (DownIn(Agent, q)' <=> DownIn(Agent, q)) /\ (WasDown(Agent, q)' <=> WasDown(Agent, q))
    BY <1>1 DEF Agent, DownIn, WasDown
  <2> QED
    BY <2>0, <2>5, <2>6, <2>7 DEF ShownOf
<1>8. \A k \in Keys \ muddled' : ShownOf(k)'
  BY <1>6, <1>7
<1>9. reports' \in Seq(Report) /\ wrote' = wrote /\ column' = column
  BY <1>1, <1>2 DEF rs
<1> QED
  BY <1>0, <1>8, <1>9 DEF ShownInv

LEMMA ShownInvNext == RoomInv /\ RoomInv' /\ ShownInv /\ [Next]_vars => ShownInv'
<1> SUFFICES ASSUME RoomInv, RoomInv', ShownInv, [Next]_vars PROVE ShownInv'
  OBVIOUS
<1>0. AgentInv(Agent) /\ AgentInv(Agent')
  <2>1. AgentInv(Agent)'
    BY DEF RoomInv, RoomOk
  <2> QED
    BY <2>1 DEF RoomInv, RoomOk, AgentInv, AgentType
<1>1. CASE Connect
  BY <1>0, <1>1, ConnectKeeps, GrowsMild, MildKeeps DEF Connect
<1>2. CASE StopNext
  <2>1. works' = works /\ current' = current /\ stops \subseteq stops'
    BY <1>2, StopNextKeeps
  <2>2. Mild
    BY <2>1, LessMild
  <2> QED
    BY <1>2, <2>2, MildKeeps DEF StopNext
<1>3. CASE Cut
  <2>1. Mild
    BY <1>0, <1>3, CutKeeps, CutMild
  <2> QED
    BY <1>3, <2>1, MildKeeps DEF Cut
<1>4. CASE Teardown
  <2>1. UNCHANGED <<works, stops, reports, told, column, muddled, wrote>> /\ \A k \in Keys : current'[k] \in {0, current[k]}
    BY <1>4, TeardownIs
  <2>2. Mild
    BY <2>1, LessMild
  <2> QED
    BY <2>1, <2>2, MildKeeps
<1>5. CASE \E p \in People : Callback(p)
  BY <1>0, <1>5, CallbackIs, GrowsMild, MildKeeps
<1>6. CASE \E i \in DOMAIN works : Live(i)
  <2>1. PICK i \in DOMAIN works : Live(i)
    BY <1>6
  <2>2. PICK w, report : Goes(i, w, report) /\ Lives(i, w, report)
    BY <2>1, LiveIs DEF RoomInv
  <2> QED
    BY <2>2, LifeShown
<1>7. CASE Tells
  BY <1>7, WriteShown, TellShown DEF Tells
<1>8. CASE Texts \/ vars' = vars
  <2>1. Aside /\ UNCHANGED <<reports, told, column, muddled, wrote>>
    BY <1>8, TextsIs DEF vars, Aside
  <2>2. Mild
    BY <2>1, LessMild DEF Aside
  <2> QED
    BY <2>1, <2>2, MildKeeps
<1> QED
  BY <1>1, <1>2, <1>3, <1>4, <1>5, <1>6, <1>7, <1>8, NextIs

LEMMA ShownInvHolds == Spec => []ShownInv
<1> QED
  BY RoomInvHolds, ShownInvInit, ShownInvNext, PTL DEF Spec

LEMMA ShownInvShows == RoomInv /\ ShownInv => DegradedIsShown
<1> SUFFICES ASSUME RoomInv, ShownInv, NEW k \in Keys, k \notin muddled, \A n \in DOMAIN reports : reports[n].key # k
             PROVE  /\ (current[k] # 0 /\ current[k] \notin stops /\ Degraded(current[k]) /\ Alone(k)) =>
                         k \in told /\ (column # None \/ wrote[k] = "cleared")
                    /\ k \in told => \E i \in DOMAIN works :
                                       works[i].key = k /\ (Degraded(i) \/ works[i].pc = "closed")
  BY DEF DegradedIsShown
<1>1. ShownOf(k) /\ (wrote[k] = "error" => column # None) /\ wrote[k] \in {"nothing", "error", "cleared"}
  BY DEF ShownInv
<1>2. Known(k) <=> k \in told
  BY DEF Known, Pending
<1>3. k \in told => wrote[k] # "nothing"
  BY <1>1 DEF ShownOf, Recorded
<1>4. DownIn(Agent, k) <=> current[k] # 0 /\ current[k] \notin stops /\ Degraded(current[k]) /\ Alone(k)
  BY DEF DownIn, Agent, Degraded, Alone, Down
<1>5. WasDown(Agent, k) <=> \E i \in DOMAIN works : works[i].key = k /\ (Degraded(i) \/ works[i].pc = "closed")
  BY DEF WasDown, Agent, Degraded, Down
<1> QED
  BY <1>1, <1>2, <1>3, <1>4, <1>5 DEF ShownOf

\* Whatever fails and recovers, and whatever becomes of the reports of other
\* subjects: when every report of a subject has been made, none of them lost,
\* overtaken or made by a session that was being stopped, a subject that is down
\* is known to the room and recorded in the meeting's row, unless another's
\* recovery has cleared it; and none that is up and was never stopped is
\* (_handle_reconnect_failure, _on_translation_error, _on_translation_recovered).
THEOREM DegradedShown == Spec => []DegradedIsShown
<1> QED
  BY RoomInvHolds, ShownInvHolds, ShownInvShows, PTL

================================================================================
