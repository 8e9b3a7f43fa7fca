--------------------------- MODULE IdentityTreeProofs ---------------------------
(***************************************************************************)
(* The tree, for any number of identities and requests, with proofs: its   *)
(* paths, who is active in it, and that the cascade holds in it.           *)
(*                                                                         *)
(* What a request is going to write fits the rows it has read, and what it *)
(* has read is still so, unless one of the operations that its own history *)
(* (over) names has committed since.  A request that cascades would leave  *)
(* every row in step with its parent if it committed now, and rows in step *)
(* all the way up to a root have the least right set above them.           *)
(***************************************************************************)
EXTENDS IdentityTree, SequenceTheorems, WellFoundedInduction, TLAPS

-----------------------------------------------------------------------------
(* Prefixes of paths, and what is left of a path behind a prefix.          *)

LEMMA PrefixOfItself ==
  ASSUME NEW A, NEW s \in Seq(A)
  PROVE  S!IsPrefix(s, s)
BY DEF S!IsPrefix

LEMMA PrefixOfShorter ==
  ASSUME NEW A, NEW s \in Seq(A), NEW t \in Seq(A), NEW x \in A,
         S!IsPrefix(s, Append(t, x)), s # Append(t, x)
  PROVE  S!IsPrefix(s, t)
<1> DEFINE long == Append(t, x)
<1>1. long \in Seq(A) /\ Len(long) = Len(t) + 1 /\ \A i \in 1..Len(t) : long[i] = t[i]
  BY AppendProperties
<1>2. Len(s) \in Nat /\ Len(t) \in Nat
  BY LenProperties
<1>3. Len(s) <= Len(long) /\ SubSeq(s, 1, Len(s)) = SubSeq(long, 1, Len(s))
  BY DEF S!IsPrefix
<1> HIDE DEF long
<1>4. \A i \in 1..Len(s) : s[i] = long[i]
  <2> TAKE i \in 1..Len(s)
  <2>1. SubSeq(s, 1, Len(s))[i] = s[i] /\ SubSeq(long, 1, Len(s))[i] = long[i]
    BY <1>1, <1>2, <1>3, SubSeqProperties
  <2> QED
    BY <2>1, <1>3
<1>5. Len(s) # Len(long)
  BY <1>1, <1>4, SeqEqual DEF long
<1>6. Len(s) <= Len(t)
  BY <1>1, <1>2, <1>3, <1>5
<1>7. SubSeq(s, 1, Len(s)) = SubSeq(t, 1, Len(s))
  <2>1. \A i \in 1..Len(s) : s[i] = t[i]
    BY <1>1, <1>2, <1>4, <1>6
  <2> QED
    BY <2>1, <1>2, <1>6
<1> QED
  BY <1>6, <1>7 DEF S!IsPrefix

LEMMA PrefixOfLonger ==
  ASSUME NEW A, NEW s \in Seq(A), NEW t \in Seq(A), NEW x \in A, S!IsPrefix(s, t)
  PROVE  S!IsPrefix(s, Append(t, x)) /\ s # Append(t, x)
<1>1. Len(s) <= Len(t) /\ SubSeq(s, 1, Len(s)) = SubSeq(t, 1, Len(s))
  BY DEF S!IsPrefix
<1>2. Len(s) \in Nat /\ Len(t) \in Nat
  BY LenProperties
<1>3. Append(t, x) \in Seq(A) /\ Len(Append(t, x)) = Len(t) + 1 /\ \A i \in 1..Len(t) : Append(t, x)[i] = t[i]
  BY AppendProperties
<1>4. SubSeq(Append(t, x), 1, Len(s)) = SubSeq(t, 1, Len(s))
  BY <1>1, <1>2, <1>3
<1>5. Len(s) <= Len(Append(t, x)) /\ Len(s) # Len(Append(t, x))
  BY <1>1, <1>2, <1>3
<1> QED
  BY <1>1, <1>4, <1>5 DEF S!IsPrefix

LEMMA PrefixOfAppend ==
  ASSUME NEW A, NEW s \in Seq(A), NEW t \in Seq(A), NEW x \in A, s # Append(t, x)
  PROVE  S!IsPrefix(s, Append(t, x)) <=> S!IsPrefix(s, t)
BY PrefixOfShorter, PrefixOfLonger

LEMMA FrontAndLast ==
  ASSUME NEW A, NEW s \in Seq(A), s # <<>>
  PROVE  /\ S!Front(s) \in Seq(A) /\ S!Last(s) \in A /\ s = Append(S!Front(s), S!Last(s))
         /\ S!Front(s) = <<>> <=> Len(s) = 1
<1>1. Len(s) \in Nat /\ Len(s) > 0 /\ \A i \in 1..Len(s) : s[i] \in A
  BY LenProperties, EmptySeq
<1> DEFINE f == SubSeq(s, 1, Len(s) - 1)
<1>2. f \in Seq(A) /\ Len(f) = Len(s) - 1 /\ \A i \in 1..Len(f) : f[i] = s[i]
  <2>1. 1 \in Int /\ Len(s) - 1 \in Int /\ \A i \in 1..Len(s) - 1 : s[i] \in A
    BY <1>1
  <2>2. /\ f \in Seq(A) /\ Len(f) = IF 1 <= Len(s) - 1 THEN Len(s) - 1 - 1 + 1 ELSE 0
        /\ \A i \in 1..Len(s) - 1 - 1 + 1 : f[i] = s[1 + i - 1]
    BY <2>1, SubSeqProperties
  <2> HIDE DEF f
  <2>3. Len(f) = Len(s) - 1
    <3> DEFINE k == Len(s)
    <3>1. k \in Nat /\ k > 0 /\ Len(f) = IF 1 <= k - 1 THEN k - 1 - 1 + 1 ELSE 0
      BY <1>1, <2>2
    <3> HIDE DEF k
    <3>2. Len(f) = k - 1
      BY <3>1
    <3> QED
      BY <3>2 DEF k
  <2>4. ASSUME NEW i \in 1..Len(f) PROVE f[i] = s[i]
    <3>1. i \in 1..Len(s) - 1 - 1 + 1 /\ 1 + i - 1 = i
      BY <1>1, <2>3, <2>4
    <3> QED
      BY <2>2, <3>1
  <2> QED
    BY <2>2, <2>3, <2>4
<1> HIDE DEF f
<1>3. /\ Append(f, s[Len(s)]) \in Seq(A) /\ Len(Append(f, s[Len(s)])) = Len(s)
      /\ \A i \in 1..Len(s) : Append(f, s[Len(s)])[i] = s[i]
  BY <1>1, <1>2, AppendProperties
<1>4. s = Append(f, s[Len(s)])
  BY <1>3, SeqEqual
<1>5. f = <<>> <=> Len(s) = 1
  BY <1>1, <1>2, EmptySeq
<1> QED
  BY <1>1, <1>2, <1>4, <1>5 DEF f, S!Front, S!Last

\* Path t with its prefix s replaced by b.
Rebased(b, s, t) == b \o SubSeq(t, Len(s) + 1, Len(t))

LEMMA RebasedItself ==
  ASSUME NEW A, NEW s \in Seq(A), NEW b \in Seq(A)
  PROVE  Rebased(b, s, s) = b
<1>1. SubSeq(s, Len(s) + 1, Len(s)) = << >>
  BY LenProperties, SubSeqProperties
<1> QED
  BY <1>1, ConcatEmptySeq DEF Rebased

LEMMA RebasedIsAPath ==
  ASSUME NEW A, NEW s \in Seq(A), NEW t \in Seq(A), NEW b \in Seq(A)
  PROVE  Rebased(b, s, t) \in Seq(A)
<1>1. Len(s) \in Nat /\ Len(t) \in Nat /\ \A i \in 1..Len(t) : t[i] \in A
  BY LenProperties
<1>2. \A i \in Len(s) + 1..Len(t) : t[i] \in A
  BY <1>1
<1>3. SubSeq(t, Len(s) + 1, Len(t)) \in Seq(A)
  BY <1>1, <1>2, SubSeqProperties
<1> QED
  BY <1>3, ConcatProperties DEF Rebased

LEMMA RebasedLonger ==
  ASSUME NEW A, NEW s \in Seq(A), NEW t \in Seq(A), NEW b \in Seq(A), NEW x \in A, S!IsPrefix(s, t)
  PROVE  Rebased(b, s, Append(t, x)) = Append(Rebased(b, s, t), x)
<1>1. Len(s) \in Nat /\ Len(t) \in Nat /\ Len(s) <= Len(t)
  BY LenProperties DEF S!IsPrefix
<1>2. Append(t, x) \in Seq(A) /\ Len(Append(t, x)) = Len(t) + 1
      /\ \A i \in 1..Len(Append(t, x)) : Append(t, x)[i] = IF i <= Len(t) THEN t[i] ELSE x
  BY AppendProperties, <1>1
<1> DEFINE u == SubSeq(t, Len(s) + 1, Len(t))
           v == SubSeq(Append(t, x), Len(s) + 1, Len(Append(t, x)))
<1>3. u \in Seq(A) /\ Len(u) = Len(t) - Len(s) /\ \A i \in 1..Len(u) : u[i] = t[Len(s) + i]
  BY <1>1, SubSeqProperties
<1>4. v \in Seq(A) /\ Len(v) = Len(t) + 1 - Len(s) /\ \A i \in 1..Len(v) : v[i] = Append(t, x)[Len(s) + i]
  BY <1>1, <1>2, SubSeqProperties
<1> HIDE DEF u, v
<1>5. v = Append(u, x)
  <2>1. Append(u, x) \in Seq(A) /\ Len(Append(u, x)) = Len(u) + 1 /\ Append(u, x)[Len(u) + 1] = x
        /\ \A i \in 1..Len(u) : Append(u, x)[i] = u[i]
    BY <1>3, AppendProperties
  <2>2. ASSUME NEW i \in 1..Len(v) PROVE v[i] = Append(u, x)[i]
    <3>1. CASE i \in 1..Len(u)
      <4>1. Len(s) + i \in 1..Len(t) /\ Len(s) + i \in 1..Len(Append(t, x))
        BY <3>1, <1>1, <1>2, <1>3
      <4>2. v[i] = t[Len(s) + i]
        BY <4>1, <1>1, <1>2, <1>4
      <4> QED
        BY <4>2, <3>1, <2>1, <1>3
    <3>2. CASE i = Len(u) + 1
      <4>1. Len(s) + i = Len(t) + 1 /\ Len(t) + 1 \in 1..Len(Append(t, x))
        BY <3>2, <1>1, <1>2, <1>3
      <4>2. Append(t, x)[Len(t) + 1] = x
        BY AppendProperties
      <4>3. v[i] = Append(t, x)[Len(s) + i]
        BY <1>4
      <4> QED
        BY <4>1, <4>2, <4>3, <3>2, <2>1
    <3> QED
      BY <3>1, <3>2, <1>1, <1>3, <1>4
  <2>3. Len(v) = Len(Append(u, x))
    BY <2>1, <1>1, <1>3, <1>4
  <2> QED
    BY <2>1, <2>2, <2>3, <1>4, SeqEqual
<1>6. Append(u, x) = u \o <<x>> /\ <<x>> \in Seq(A) /\ b \o u \in Seq(A)
  BY <1>3, AppendIsConcat, ConcatProperties
<1>7. Append(b \o u, x) = (b \o u) \o <<x>>
  BY <1>6, AppendIsConcat
<1>8. b \o (u \o <<x>>) = (b \o u) \o <<x>>
  BY <1>3, <1>6, ConcatAssociative
<1> QED
  BY <1>5, <1>6, <1>7, <1>8 DEF u, v, Rebased

-----------------------------------------------------------------------------
(* The rows, and what a request is going to write.                         *)

RowsInv ==
  /\ DOMAIN db = Columns /\ DOMAIN db.path = Rows(db) /\ DOMAIN db.active = Rows(db)
  /\ Rows(db) \subseteq Ids
  /\ \A n \in Rows(db) : db.parent[n] \in Rows(db) \cup {Nobody}

\* Every row is an identity, and its parent a row.
Forest(d) == Rows(d) \subseteq Ids /\ \A n \in Rows(d) : d.parent[n] \in Rows(d) \cup {Nobody}

LEMMA RowsForest == RowsInv => Forest(db)
BY DEF RowsInv, Forest

Above(d, p) == IF p = Nobody THEN <<>> ELSE d.path[p]

\* The path of every row is the one of its parent and the row itself.
Straight(d) ==
  \A n \in Rows(d) : d.path[n] \in Seq(Ids) /\ d.path[n] = Append(Above(d, d.parent[n]), n)

Shape == {"parent", "path", "active"}

Whole(q) == {"pc", "from", "w", "over"} \subseteq DOMAIN q

Idle(q) == q.pc \in {"new", "done"} /\ q.op = "none" /\ q.node = Nobody /\ DOMAIN q.w = {}

\* A request that leaves the shape of the tree as it is.
Setting(q) ==
  /\ q.pc = "ready" /\ q.op \in {"set", "select", "default", "rotate"}
  /\ q.node \in Rows(db) \cup {Nobody} /\ DOMAIN q.w \cap Shape = {}

Birth(q) ==
  /\ q.pc = "ready" /\ q.op = "create" /\ q.node \in Ids \ Rows(db)
  /\ Shape \subseteq DOMAIN q.w
  /\ DOMAIN q.w.path = {q.node} /\ q.w.active = q.node :> TRUE
  /\ \E p \in Rows(db) \cup {Nobody} :
       /\ q.w.parent = q.node :> p
       /\ "move" \notin q.over => q.w.path[q.node] = Append(Above(db, p), q.node)
       /\ q.by = "staff" \/ "deactivate" \in q.over \/ p = Nobody \/ db.active[p]

NewPaths(n, p) ==
  [m \in Below(db, n) |-> Rebased(Append(db.path[p], n), db.path[n], db.path[m])]

Relocation(q) ==
  /\ DOMAIN q.w \cap Shape = {"path", "parent"}
  /\ DOMAIN q.w.path \subseteq Rows(db) /\ DOMAIN q.w.parent \subseteq {q.node}
  /\ \A n \in DOMAIN q.w.parent : q.w.parent[n] = q.to
  /\ q.over \cap {"move", "create"} = {} =>
       /\ q.w.path = NewPaths(q.node, q.to)
       /\ q.node \notin DOMAIN q.w.parent => db.parent[q.node] = q.to

Moving(q) ==
  /\ q.op = "move" /\ q.by = "staff" /\ q.node \in Rows(db) /\ q.to \in Rows(db)
  /\ "move" \notin q.over => q.onto = db.path[q.to] /\ q.to \notin Below(db, q.node)
  /\ \/ q.pc = "checked" /\ DOMAIN q.w = {}
     \/ q.pc = "located" /\ DOMAIN q.w = {} /\ ("move" \notin q.over => q.from = db.path[q.node])
     \/ q.pc = "ready" /\ Relocation(q)

Closure(q) ==
  /\ q.pc = "ready" /\ q.op = "deactivate" /\ q.node \in Rows(db)
  /\ DOMAIN q.w \cap Shape = {"active"}
  /\ DOMAIN q.w.active \subseteq Rows(db) /\ \A n \in DOMAIN q.w.active : q.w.active[n] = FALSE
  /\ q.over \cap {"create", "move"} = {} =>
       /\ DOMAIN q.w.active \subseteq Below(db, q.node)
       /\ \A n \in Below(db, q.node) : n \in DOMAIN q.w.active \/ ~db.active[n]

Plan(q) == Idle(q) \/ Setting(q) \/ Birth(q) \/ Moving(q) \/ Closure(q)

OpenInv ==
  /\ DOMAIN req = Requests
  /\ \A r \in Requests :
       /\ Whole(req[r]) /\ Plan(req[r])
       /\ req[r].op = "create" => \A s \in Requests \ {r} : req[s].node # req[r].node

-----------------------------------------------------------------------------
(* The steps of one request before it commits.                             *)

\* Request r goes on to a plan that fits the rows.
Proceeds(r) ==
  /\ UNCHANGED <<db, clash, grafts>> /\ DOMAIN req' = Requests
  /\ \A s \in Requests \ {r} : req'[s] = req[s]
  /\ Whole(req'[r]) /\ Plan(req'[r])
  /\ req'[r].op = "create" => Unused(req'[r].node)
  /\ req'[r].op # "create" => req'[r].node \in Rows(db) \cup {Nobody}

LEMMA ChangesAre ==
  ASSUME NEW d, NEW w
  PROVE  /\ DOMAIN Changes(d, w) = DOMAIN w
         /\ \A c \in DOMAIN w :
              /\ DOMAIN Changes(d, w)[c] = {n \in DOMAIN w[c] : n \notin DOMAIN d[c] \/ w[c][n] # d[c][n]}
              /\ \A n \in DOMAIN Changes(d, w)[c] : Changes(d, w)[c][n] = w[c][n]
BY DEF Changes, S!Restrict

LEMMA CascadeWrites ==
  ASSUME NEW w, NEW n
  PROVE  /\ DOMAIN WithCascade(w, n) = DOMAIN w \cup {"effRight", "effTool"}
         /\ \A c \in DOMAIN w : WithCascade(w, n)[c] = w[c]
<1>1. \A d : DOMAIN Recomputed(d, n) = {"effRight", "effTool"}
  BY Zenon DEF Recomputed
<1> QED
  BY <1>1 DEF WithCascade, @@

LEMMA BeginIs ==
  ASSUME DOMAIN req = Requests, NEW r \in Requests, NEW new, Begin(r, new), UNCHANGED <<db, clash, grafts>>
  PROVE  /\ DOMAIN req' = Requests /\ \A s \in Requests \ {r} : req'[s] = req[s]
         /\ req'[r] = new @@ Fresh /\ Whole(req'[r])
<1>1. /\ DOMAIN req' = Requests /\ \A s \in Requests \ {r} : req'[s] = req[s]
      /\ req'[r] = new @@ Fresh
  BY DEF Begin
<1>2. Whole(new @@ Fresh)
  BY DEF Whole, @@, Fresh
<1> QED
  BY <1>1, <1>2

LEMMA Prepared ==
  ASSUME OpenInv, NEW r \in Requests, NEW op, NEW n, NEW w, Ready(r, op, n, w), Reads
  PROVE  /\ UNCHANGED <<db, clash, grafts>> /\ DOMAIN req' = Requests
         /\ \A s \in Requests \ {r} : req'[s] = req[s]
         /\ req'[r].pc = "ready" /\ req'[r].op = op /\ req'[r].node = n /\ req'[r].over = {}
         /\ req'[r].w = Changes(db, w) /\ Whole(req'[r])
<1>1. Whole(req'[r]) /\ req'[r] = [pc |-> "ready", op |-> op, node |-> n, w |-> Changes(db, w)] @@ Fresh
  BY BeginIs DEF OpenInv, Ready, Reads
<1>2. /\ DOMAIN req' = Requests /\ \A s \in Requests \ {r} : req'[s] = req[s]
  BY BeginIs DEF OpenInv, Ready, Reads
<1>3. /\ req'[r].pc = "ready" /\ req'[r].op = op /\ req'[r].node = n /\ req'[r].over = {}
      /\ req'[r].w = Changes(db, w)
  BY <1>1 DEF @@, Fresh
<1> QED
  BY <1>1, <1>2, <1>3 DEF Reads

LEMMA SettingProceeds ==
  ASSUME OpenInv, NEW r \in Requests, NEW op \in {"set", "select", "default", "rotate"},
         NEW n \in Rows(db) \cup {Nobody}, NEW w, DOMAIN w \cap Shape = {}, Ready(r, op, n, w), Reads
  PROVE  Proceeds(r)
<1>1. /\ req'[r].pc = "ready" /\ req'[r].op = op /\ req'[r].node = n /\ req'[r].w = Changes(db, w)
      /\ Whole(req'[r]) /\ UNCHANGED <<db, clash, grafts>> /\ DOMAIN req' = Requests
      /\ \A s \in Requests \ {r} : req'[s] = req[s]
  BY Prepared
<1>2. DOMAIN Changes(db, w) = DOMAIN w
  BY ChangesAre
<1>3. Setting(req'[r])
  BY <1>1, <1>2 DEF Setting
<1> QED
  BY <1>1, <1>3 DEF Proceeds, Plan

LEMMA SetProceeds ==
  ASSUME OpenInv, NEW r \in Requests, NEW n, NEW v, NEW by, Set(r, n, v, by)
  PROVE  Proceeds(r)
<1> DEFINE w == [ownRight |-> n :> v]
<1>1. n \in Rows(db) /\ Ready(r, "set", n, WithCascade(w, n)) /\ Reads
  BY DEF Set
<1>2. DOMAIN w \cap Shape = {}
  BY DEF Shape
<1> HIDE DEF w
<1>3. DOMAIN WithCascade(w, n) = DOMAIN w \cup {"effRight", "effTool"}
  BY CascadeWrites
<1>4. DOMAIN WithCascade(w, n) \cap Shape = {}
  BY <1>2, <1>3 DEF Shape
<1> QED
  BY <1>1, <1>4, SettingProceeds

LEMMA SelectProceeds ==
  ASSUME OpenInv, NEW r \in Requests, NEW n, NEW t, NEW by, Select(r, n, t, by)
  PROVE  Proceeds(r)
<1> DEFINE w == [ownTool |-> n :> t]
<1>1. n \in Rows(db) /\ Ready(r, "select", n, WithCascade(w, n)) /\ Reads
  BY DEF Select
<1>2. DOMAIN w \cap Shape = {}
  BY DEF Shape
<1> HIDE DEF w
<1>3. DOMAIN WithCascade(w, n) = DOMAIN w \cup {"effRight", "effTool"}
  BY CascadeWrites
<1>4. DOMAIN WithCascade(w, n) \cap Shape = {}
  BY <1>2, <1>3 DEF Shape
<1> QED
  BY <1>1, <1>4, SettingProceeds

LEMMA DefaultProceeds ==
  ASSUME OpenInv, NEW r \in Requests, NEW t, SetDefault(r, t)
  PROVE  Proceeds(r)
<1> DEFINE w == [default |-> "slot" :> t]
           all == w @@ RecomputedFromRoots(Overlaid(db, w))
<1>1. Ready(r, "default", Nobody, all) /\ Reads
  BY DEF SetDefault
<1>2. \A d : DOMAIN RecomputedFromRoots(d) = {"effRight", "effTool"}
  BY DEF RecomputedFromRoots
<1>3. DOMAIN all \cap Shape = {}
  BY <1>2 DEF Shape, @@
<1> HIDE DEF all
<1> QED
  BY <1>1, <1>3, SettingProceeds

LEMMA RotateProceeds ==
  ASSUME OpenInv, NEW r \in Requests, NEW n, Rotate(r, n)
  PROVE  Proceeds(r)
<1> DEFINE w == [invite |-> n :> TRUE]
<1>1. n \in Rows(db) /\ Ready(r, "rotate", n, w) /\ Reads /\ DOMAIN w \cap Shape = {}
  BY DEF Rotate, GroupRow, Shape
<1> HIDE DEF w
<1> QED
  BY <1>1, SettingProceeds

LEMMA DeactivateProceeds ==
  ASSUME RowsInv, OpenInv, NEW r \in Requests, NEW n, Deactivate(r, n)
  PROVE  Proceeds(r)
<1> DEFINE w == [active |-> [m \in Below(db, n) |-> FALSE], invite |-> n :> FALSE]
<1>1. n \in Rows(db) /\ Ready(r, "deactivate", n, w) /\ Reads
  BY DEF Deactivate, MayDelete
<1>2. /\ req'[r].pc = "ready" /\ req'[r].op = "deactivate" /\ req'[r].node = n
      /\ req'[r].w = Changes(db, w) /\ Whole(req'[r])
      /\ UNCHANGED <<db, clash, grafts>> /\ DOMAIN req' = Requests
      /\ \A s \in Requests \ {r} : req'[s] = req[s]
  BY <1>1, Prepared
<1>3. DOMAIN w \cap Shape = {"active"} /\ DOMAIN w.active = Below(db, n) /\ \A m \in Below(db, n) : w.active[m] = FALSE
  BY DEF Shape
<1>4. Below(db, n) \subseteq Rows(db) /\ DOMAIN db.active = Rows(db)
  BY DEF Below, RowsInv
<1> HIDE DEF w
<1> DEFINE u == Changes(db, w)
<1>5. /\ DOMAIN u \cap Shape = {"active"}
      /\ DOMAIN u.active = {m \in Below(db, n) : m \notin DOMAIN db.active \/ w.active[m] # db.active[m]}
      /\ \A m \in DOMAIN u.active : u.active[m] = w.active[m]
  BY <1>3, ChangesAre
<1> HIDE DEF u
<1>6. /\ DOMAIN u.active \subseteq Below(db, n)
      /\ \A m \in DOMAIN u.active : u.active[m] = FALSE
      /\ \A m \in Below(db, n) : m \in DOMAIN u.active \/ ~db.active[m]
  BY <1>3, <1>4, <1>5
<1>7. Closure(req'[r])
  BY <1>1, <1>2, <1>4, <1>5, <1>6 DEF Closure, u
<1> QED
  BY <1>1, <1>2, <1>7 DEF Proceeds, Plan

LEMMA CreateProceeds ==
  ASSUME RowsInv, OpenInv, NEW r \in Requests, NEW n \in Ids, NEW by, NEW p \in Rows(db) \cup {Nobody},
         NEW right, NEW open, Create(r, n, by, NewRow(n, p, right, open)),
         by = "staff" \/ p = Nobody \/ db.active[p]
  PROVE  Proceeds(r)
<1> DEFINE w == NewRow(n, p, right, open)
<1>1. /\ Shape \subseteq DOMAIN w /\ w.parent = n :> p /\ w.active = n :> TRUE
      /\ w.path = n :> Append(Above(db, p), n)
  BY DEF NewRow, Shape, Above, @@
<1>2. Unused(n) /\ Begin(r, [pc |-> "ready", op |-> "create", node |-> n, by |-> by, w |-> w]) /\ Reads
  BY DEF Create
<1> HIDE DEF w
<1>3. /\ req'[r] = [pc |-> "ready", op |-> "create", node |-> n, by |-> by, w |-> w] @@ Fresh
      /\ Whole(req'[r]) /\ DOMAIN req' = Requests /\ \A s \in Requests \ {r} : req'[s] = req[s]
  BY <1>2, BeginIs DEF OpenInv, Reads
<1>4. /\ req'[r].pc = "ready" /\ req'[r].op = "create" /\ req'[r].node = n /\ req'[r].by = by
      /\ req'[r].w = w /\ req'[r].over = {}
  BY <1>3 DEF @@, Fresh
<1>5. n \notin Rows(db)
  BY <1>2 DEF Unused
<1>6. Birth(req'[r])
  <2>1. DOMAIN w.path = {n} /\ w.path[n] = Append(Above(db, p), n)
    BY <1>1 DEF :>
  <2> QED
    BY <1>1, <1>4, <1>5, <2>1 DEF Birth
<1> QED
  BY <1>2, <1>3, <1>4, <1>6 DEF Proceeds, Plan, Reads

LEMMA CreationProceeds ==
  ASSUME RowsInv, OpenInv, NEW r \in Requests,
         \/ \E n \in Groups : CreateOrg(r, n)
         \/ \E n \in Ids, p \in Groups : CreateByStaff(r, n, p)
         \/ \E n, p \in Groups : CreateCommunity(r, n, p)
         \/ \E n \in Members, p \in Groups : AddMember(r, n, p) \/ RegisterMember(r, n, p)
  PROVE  Proceeds(r)
<1>1. ASSUME NEW n \in Groups, CreateOrg(r, n) PROVE Proceeds(r)
  BY <1>1, CreateProceeds DEF CreateOrg, Ids
<1>2. ASSUME NEW n \in Ids, NEW p, CreateByStaff(r, n, p) PROVE Proceeds(r)
  BY <1>2, CreateProceeds DEF CreateByStaff, GroupRow
<1>3. ASSUME NEW n \in Groups, NEW p, CreateCommunity(r, n, p) PROVE Proceeds(r)
  BY <1>3, CreateProceeds DEF CreateCommunity, OpenedRow, GroupRow, InScope, Ids
<1>4. ASSUME NEW n \in Members, NEW p, AddMember(r, n, p) PROVE Proceeds(r)
  BY <1>4, CreateProceeds DEF AddMember, GroupRow, InScope, Ids
<1>5. ASSUME NEW n \in Members, NEW p, RegisterMember(r, n, p) PROVE Proceeds(r)
  BY <1>5, CreateProceeds DEF RegisterMember, Invites, GroupRow, Ids
<1> QED
  BY <1>1, <1>2, <1>3, <1>4, <1>5

LEMMA CheckProceeds ==
  ASSUME OpenInv, NEW r \in Requests, NEW n, NEW p, MoveCheck(r, n, p)
  PROVE  Proceeds(r)
<1> DEFINE new == [pc |-> "checked", op |-> "move", node |-> n, by |-> "staff", to |-> p, onto |-> db.path[p]]
<1>1. n \in Rows(db) /\ p \in Rows(db) /\ p \notin Below(db, n) /\ Begin(r, new) /\ Reads
  BY DEF MoveCheck
<1>2. req'[r] = new @@ Fresh /\ Whole(req'[r]) /\ DOMAIN req' = Requests /\ \A s \in Requests \ {r} : req'[s] = req[s]
  BY <1>1, BeginIs DEF OpenInv, Reads
<1>3. /\ req'[r].pc = "checked" /\ req'[r].op = "move" /\ req'[r].node = n /\ req'[r].by = "staff"
      /\ req'[r].to = p /\ req'[r].onto = db.path[p] /\ DOMAIN req'[r].w = {}
  BY <1>2 DEF @@, Fresh
<1>4. Moving(req'[r])
  BY <1>1, <1>3 DEF Moving
<1> QED
  BY <1>1, <1>2, <1>3, <1>4 DEF Proceeds, Plan, Reads

\* A move that is under way is one.
LEMMA Underway ==
  ASSUME OpenInv, NEW r \in Requests, req[r].pc \in {"checked", "located"}
  PROVE  Moving(req[r]) /\ DOMAIN req[r].w = {}
<1>1. Plan(req[r])
  BY DEF OpenInv
<1> QED
  BY <1>1 DEF Plan, Idle, Setting, Birth, Moving, Closure

LEMMA LocateProceeds ==
  ASSUME OpenInv, NEW r \in Requests, MoveLocate(r)
  PROVE  Proceeds(r)
<1>1. Moving(req[r]) /\ DOMAIN req[r].w = {}
  BY Underway DEF MoveLocate
<1>2. /\ UNCHANGED <<db, clash, grafts>> /\ DOMAIN req' = Requests
      /\ \A s \in Requests \ {r} : req'[s] = req[s]
      /\ req'[r] = [req[r] EXCEPT !.pc = "located", !.from = db.path[req[r].node]]
  BY DEF MoveLocate, OpenInv, Reads
<1>3. /\ req'[r].pc = "located" /\ req'[r].from = db.path[req[r].node]
      /\ req'[r].op = req[r].op /\ req'[r].by = req[r].by /\ req'[r].node = req[r].node
      /\ req'[r].to = req[r].to /\ req'[r].onto = req[r].onto /\ req'[r].w = req[r].w
      /\ req'[r].over = req[r].over /\ Whole(req'[r])
  BY <1>2 DEF OpenInv, Whole
<1>4. Moving(req'[r])
  BY <1>1, <1>3 DEF Moving
<1> QED
  BY <1>1, <1>2, <1>3, <1>4 DEF Proceeds, Plan, Moving

LEMMA RewriteProceeds ==
  ASSUME RowsInv, OpenInv, NEW r \in Requests, MoveRewrite(r)
  PROVE  Proceeds(r)
<1> DEFINE n == req[r].node
           to == req[r].to
           old == req[r].from
           moved == {m \in Rows(db) : S!IsPrefix(old, db.path[m])}
           paths == [m \in moved |-> Append(req[r].onto, n) \o SubSeq(db.path[m], Len(old) + 1, Len(db.path[m]))]
           w == [path |-> paths, parent |-> n :> to]
           all == WithCascade(w, n)
           new == [Changes(db, all) EXCEPT !.path = paths]
<1>1. Moving(req[r]) /\ DOMAIN req[r].w = {} /\ req[r].pc = "located"
  BY Underway DEF MoveRewrite
<1>2. /\ UNCHANGED <<db, clash, grafts>> /\ DOMAIN req' = Requests
      /\ \A s \in Requests \ {r} : req'[s] = req[s]
      /\ req'[r] = [req[r] EXCEPT !.pc = "ready", !.w = new]
  BY DEF MoveRewrite, OpenInv, Reads
<1>3. DOMAIN w = {"path", "parent"} /\ DOMAIN w.parent = {n} /\ w.parent[n] = to
  BY DEF :>
<1>4. /\ DOMAIN paths = moved
      /\ "move" \notin req[r].over => paths = NewPaths(n, to)
  BY <1>1 DEF NewPaths, Rebased, Below, Moving
<1>5. moved \subseteq Rows(db)
  OBVIOUS
<1> HIDE DEF paths, moved
<1> HIDE DEF w
<1>6. DOMAIN all = {"path", "parent", "effRight", "effTool"} /\ all.parent = w.parent
  <2> HIDE DEF n
  <2>1. DOMAIN all = DOMAIN w \cup {"effRight", "effTool"} /\ \A c \in DOMAIN w : all[c] = w[c]
    BY CascadeWrites
  <2> QED
    BY <1>3, <2>1
<1> HIDE DEF all
<1>7. /\ DOMAIN Changes(db, all) = DOMAIN all
      /\ DOMAIN Changes(db, all).parent = {m \in {n} : m \notin DOMAIN db.parent \/ to # db.parent[m]}
      /\ \A m \in DOMAIN Changes(db, all).parent : Changes(db, all).parent[m] = to
  BY <1>3, <1>6, ChangesAre
<1> DEFINE chg == Changes(db, all)
<1>8. /\ DOMAIN chg = {"path", "parent", "effRight", "effTool"}
      /\ DOMAIN chg.parent \subseteq {n} /\ \A m \in DOMAIN chg.parent : chg.parent[m] = to
      /\ n \in DOMAIN db.parent /\ n \notin DOMAIN chg.parent => db.parent[n] = to
  BY <1>6, <1>7
<1> HIDE DEF chg
<1>a. DOMAIN new = DOMAIN chg /\ new.path = paths /\ new.parent = chg.parent
  BY <1>8 DEF chg
<1>b. DOMAIN new \cap Shape = {"path", "parent"}
  BY <1>8, <1>a DEF Shape
<1> HIDE DEF new
<1>9. /\ req'[r].pc = "ready" /\ req'[r].w = new
      /\ req'[r].op = req[r].op /\ req'[r].by = req[r].by /\ req'[r].node = n
      /\ req'[r].to = to /\ req'[r].onto = req[r].onto /\ req'[r].over = req[r].over
      /\ Whole(req'[r])
  BY <1>2 DEF OpenInv, Whole
<1>10. Relocation(req'[r])
  BY <1>1, <1>4, <1>5, <1>8, <1>9, <1>a, <1>b DEF Relocation, Moving, Rows
<1>11. Moving(req'[r])
  BY <1>1, <1>9, <1>10 DEF Moving
<1> QED
  BY <1>1, <1>2, <1>9, <1>11 DEF Proceeds, Plan, Moving

LEMMA FailProceeds ==
  ASSUME OpenInv, NEW r \in Requests, Fail(r)
  PROVE  Proceeds(r)
<1>1. /\ UNCHANGED <<db, clash, grafts>> /\ DOMAIN req' = Requests
      /\ \A s \in Requests \ {r} : req'[s] = req[s]
      /\ req'[r] = Done
  BY DEF Fail, OpenInv, Reads
<1>2. Idle(req'[r]) /\ Whole(req'[r])
  BY <1>1 DEF Done, Fresh, Idle, Whole
<1> QED
  BY <1>1, <1>2 DEF Proceeds, Plan, Idle

LEMMA NextCases ==
  ASSUME RowsInv, OpenInv, Next
  PROVE  \E r \in Requests : Proceeds(r) \/ Commit(r)
<1>1. PICK r \in Requests : 
  \/ \E n \in Groups : CreateOrg(r, n)
  \/ \E n \in Ids, p \in Groups : CreateByStaff(r, n, p)
  \/ \E n, p \in Groups : CreateCommunity(r, n, p)
  \/ \E n \in Members, p \in Groups : AddMember(r, n, p) \/ RegisterMember(r, n, p)
  \/ \E n \in Ids, by \in {"staff", "client"} :
       \/ \E v \in Rights : Set(r, n, v, by)
       \/ \E t \in Tools \cup {Inherit} : Select(r, n, t, by)
  \/ \E t \in Tools : SetDefault(r, t)
  \/ \E n, p \in Ids : MoveCheck(r, n, p)
  \/ \E n \in Ids : Deactivate(r, n)
  \/ \E n \in Groups : Rotate(r, n)
  \/ MoveLocate(r)
  \/ MoveRewrite(r)
  \/ Commit(r)
  \/ Fail(r)
  BY Zenon DEF Next
<1> QED
  BY <1>1, CreationProceeds, SetProceeds, SelectProceeds, DefaultProceeds, CheckProceeds, DeactivateProceeds,
     RotateProceeds, LocateProceeds, RewriteProceeds, FailProceeds, Zenon

-----------------------------------------------------------------------------
(* What a commit does to the rows, and to the plans of the others.         *)

LEMMA Lands ==
  ASSUME NEW r \in Requests, Commit(r), NEW c \in Columns
  PROVE  LET w == req[r].w IN
         /\ c \notin DOMAIN w => db'[c] = db[c]
         /\ c \in DOMAIN w =>
              /\ DOMAIN db'[c] = DOMAIN w[c] \cup DOMAIN db[c]
              /\ \A x \in DOMAIN w[c] : db'[c][x] = w[c][x]
              /\ \A x \in DOMAIN db[c] \ DOMAIN w[c] : db'[c][x] = db[c][x]
<1>1. db' = Overlaid(db, req[r].w)
  BY DEF Commit
<1> DEFINE w == req[r].w
<1> HIDE DEF w
<1>2. db' = Overlaid(db, w)
  BY <1>1 DEF w
<1>3. db'[c] = IF c \in DOMAIN w THEN w[c] @@ db[c] ELSE db[c]
  BY <1>2 DEF Overlaid
<1> QED
  BY <1>3 DEF @@, w

\* Only a creation adds a row, only a move rewrites paths and parents, only a
\* deactivation changes who is active, and none activates anybody.
Landed(r) ==
  LET q == req[r] IN
  /\ q.pc = "ready" /\ q.op \in Ops
  /\ Rows(db)' = Rows(db) \cup (IF q.op = "create" THEN {q.node} ELSE {})
  /\ q.op # "move" => \A n \in Rows(db) : db'.path[n] = db.path[n] /\ db'.parent[n] = db.parent[n]
  /\ \A n \in Rows(db) : db'.active[n] = db.active[n] \/ (q.op = "deactivate" /\ db'.active[n] = FALSE)

LEMMA CommitLands ==
  ASSUME RowsInv, OpenInv, NEW r \in Requests, Commit(r)
  PROVE  Landed(r) /\ RowsInv'
<1> DEFINE q == req[r]
           w == req[r].w
<1>1. q.pc = "ready" /\ Plan(q) /\ db' = Overlaid(db, w)
  BY DEF Commit, OpenInv
<1>2. DOMAIN db' = Columns
  BY <1>1 DEF Overlaid
<1>3. "parent" \in Columns /\ "path" \in Columns /\ "active" \in Columns
  BY DEF Columns, RowColumns
<1>4. /\ DOMAIN db.path = Rows(db) /\ DOMAIN db.active = Rows(db) /\ DOMAIN db.parent = Rows(db)
      /\ Rows(db) \subseteq Ids /\ \A n \in Rows(db) : db.parent[n] \in Rows(db) \cup {Nobody}
  BY DEF RowsInv, Rows
<1>5. DOMAIN db'.parent = Rows(db)'
  BY DEF Rows
<1>l. ASSUME NEW c \in {"parent", "path", "active"}
      PROVE  /\ c \notin DOMAIN w => db'[c] = db[c]
             /\ c \in DOMAIN w =>
                  /\ DOMAIN db'[c] = DOMAIN w[c] \cup Rows(db)
                  /\ \A x \in DOMAIN w[c] : db'[c][x] = w[c][x]
                  /\ \A x \in Rows(db) \ DOMAIN w[c] : db'[c][x] = db[c][x]
  BY <1>3, <1>4, Lands
<1> HIDE DEF w
<1>6. CASE Setting(q)
  <2>1. "parent" \notin DOMAIN w /\ "path" \notin DOMAIN w /\ "active" \notin DOMAIN w
    BY <1>6 DEF Setting, Shape, w
  <2>2. db'.parent = db.parent /\ db'.path = db.path /\ db'.active = db.active
    BY <1>l, <2>1
  <2>3. q.op \in Ops /\ q.op \notin {"create", "move", "deactivate"}
    BY <1>6 DEF Setting, Ops, Cascading
  <2>4. Rows(db)' = Rows(db)
    BY <1>4, <1>5, <2>2
  <2> QED
    BY <1>1, <1>2, <1>4, <2>2, <2>3, <2>4 DEF Landed, RowsInv
<1>7. CASE Birth(q)
  <2>1. /\ {"parent", "path", "active"} \subseteq DOMAIN w /\ q.node \in Ids \ Rows(db) /\ q.op = "create"
        /\ DOMAIN w.path = {q.node} /\ DOMAIN w.active = {q.node} /\ DOMAIN w.parent = {q.node}
        /\ w.parent[q.node] \in Rows(db) \cup {Nobody}
    BY <1>7 DEF Birth, Shape, :>, w
  <2>2. /\ DOMAIN db'.parent = {q.node} \cup Rows(db) /\ db'.parent[q.node] \in Rows(db) \cup {Nobody}
        /\ \A n \in Rows(db) : db'.parent[n] = db.parent[n]
    BY <1>l, <1>4, <2>1
  <2>3. /\ DOMAIN db'.path = {q.node} \cup Rows(db) /\ \A n \in Rows(db) : db'.path[n] = db.path[n]
    BY <1>l, <1>4, <2>1
  <2>4. /\ DOMAIN db'.active = {q.node} \cup Rows(db) /\ \A n \in Rows(db) : db'.active[n] = db.active[n]
    BY <1>l, <1>4, <2>1
  <2>5. Rows(db)' = Rows(db) \cup {q.node}
    BY <1>5, <2>2
  <2>6. RowsInv'
    BY <1>2, <1>4, <2>1, <2>2, <2>3, <2>4, <2>5 DEF RowsInv
  <2> QED
    BY <1>1, <2>1, <2>2, <2>3, <2>4, <2>5, <2>6 DEF Landed, Ops, Cascading
<1>8. CASE Moving(q)
  <2>1. /\ {"parent", "path"} \subseteq DOMAIN w /\ "active" \notin DOMAIN w /\ q.op = "move"
        /\ q.node \in Rows(db) /\ q.to \in Rows(db)
        /\ DOMAIN w.path \subseteq Rows(db) /\ DOMAIN w.parent \subseteq {q.node}
        /\ \A n \in DOMAIN w.parent : w.parent[n] = q.to
    BY <1>1, <1>8 DEF Moving, Relocation, Shape, w
  <2>2. /\ DOMAIN db'.parent = Rows(db) /\ \A n \in Rows(db) : db'.parent[n] \in Rows(db) \cup {Nobody}
    BY <1>l, <1>4, <2>1
  <2>3. DOMAIN db'.path = Rows(db)
    BY <1>l, <1>4, <2>1
  <2>4. db'.active = db.active
    BY <1>l, <1>4, <2>1
  <2>5. Rows(db)' = Rows(db)
    BY <1>5, <2>2
  <2>6. RowsInv'
    BY <1>2, <1>4, <2>1, <2>2, <2>3, <2>4, <2>5 DEF RowsInv
  <2> QED
    BY <1>1, <2>1, <2>4, <2>5, <2>6 DEF Landed, Ops, Cascading
<1>9. CASE Closure(q)
  <2>1. /\ "parent" \notin DOMAIN w /\ "path" \notin DOMAIN w /\ "active" \in DOMAIN w /\ q.op = "deactivate"
        /\ DOMAIN w.active \subseteq Rows(db) /\ \A n \in DOMAIN w.active : w.active[n] = FALSE
    BY <1>9 DEF Closure, Shape, w
  <2>2. db'.parent = db.parent /\ db'.path = db.path
    BY <1>l, <2>1
  <2>3. DOMAIN db'.active = Rows(db) /\ \A n \in Rows(db) : db'.active[n] = db.active[n] \/ db'.active[n] = FALSE
    BY <1>l, <1>4, <2>1
  <2>4. Rows(db)' = Rows(db)
    BY <1>4, <1>5, <2>2
  <2>5. RowsInv'
    BY <1>2, <1>4, <2>2, <2>3, <2>4 DEF RowsInv
  <2> QED
    BY <1>1, <2>1, <2>2, <2>3, <2>4, <2>5 DEF Landed, Ops
<1> QED
  BY <1>1, <1>6, <1>7, <1>8, <1>9 DEF Plan, Idle

\* What another request holds when r has committed.
LEMMA OthersKeep ==
  ASSUME OpenInv, NEW r \in Requests, Commit(r), NEW s \in Requests \ {r}
  PROVE  \/ req'[s] = req[s] /\ Idle(req[s])
         \/ /\ req'[s].over = req[s].over \cup {req[r].op} /\ Whole(req'[s])
            /\ req'[s].pc = req[s].pc /\ req'[s].op = req[s].op /\ req'[s].node = req[s].node
            /\ req'[s].to = req[s].to /\ req'[s].by = req[s].by /\ req'[s].onto = req[s].onto
            /\ req'[s].from = req[s].from /\ req'[s].w = req[s].w
<1>1. req'[s] = IF req[s].pc \in {"new", "done"} THEN req[s]
                ELSE [req[s] EXCEPT !.over = @ \cup {req[r].op}]
  BY DEF Commit
<1>2. Whole(req[s]) /\ Plan(req[s])
  BY DEF OpenInv
<1>3. CASE req[s].pc \in {"new", "done"}
  BY <1>1, <1>2, <1>3 DEF Plan, Setting, Birth, Moving, Closure
<1>4. CASE req[s].pc \notin {"new", "done"}
  BY <1>1, <1>2, <1>4 DEF Whole
<1> QED
  BY <1>3, <1>4

LEMMA SubtreeKept ==
  ASSUME RowsInv, NEW r, Landed(r), req[r].op \notin {"create", "move"}, NEW n \in Rows(db)
  PROVE  /\ Below(db, n)' = Below(db, n)
         /\ \A p \in Rows(db) : NewPaths(n, p)' = NewPaths(n, p)
<1>1. Rows(db)' = Rows(db) /\ \A m \in Rows(db) : db'.path[m] = db.path[m]
  BY DEF Landed
<1>2. Below(db, n)' = Below(db, n)
  BY <1>1 DEF Below
<1>3. \A m \in Below(db, n) : db'.path[m] = db.path[m]
  BY <1>1 DEF Below
<1>4. ASSUME NEW p \in Rows(db) PROVE NewPaths(n, p)' = NewPaths(n, p)
  BY <1>1, <1>2, <1>3 DEF NewPaths
<1> QED
  BY <1>2, <1>4

LEMMA PlanStays ==
  ASSUME RowsInv, OpenInv, NEW r \in Requests, Commit(r), NEW s \in Requests \ {r}
  PROVE  Plan(req[s])'
<1> DEFINE q == req[s]
           op == req[r].op
<1>0. Landed(r) /\ RowsInv'
  BY CommitLands
<1>1. Plan(q) /\ (q.op = "create" => q.node # req[r].node)
  BY DEF OpenInv
<1>2. CASE req'[s] = q /\ Idle(q)
  BY <1>2 DEF Plan, Idle
<1>3. CASE /\ q'.over = q.over \cup {op} /\ q'.pc = q.pc /\ q'.op = q.op /\ q'.node = q.node
           /\ q'.to = q.to /\ q'.by = q.by /\ q'.onto = q.onto /\ q'.from = q.from /\ q'.w = q.w
  <2>0. /\ Rows(db)' = Rows(db) \cup (IF op = "create" THEN {req[r].node} ELSE {})
        /\ op # "move" => \A n \in Rows(db) : db'.path[n] = db.path[n] /\ db'.parent[n] = db.parent[n]
        /\ \A n \in Rows(db) : db'.active[n] = db.active[n] \/ (op = "deactivate" /\ db'.active[n] = FALSE)
    BY <1>0 DEF Landed
  <2>1. CASE Idle(q)
    BY <1>3, <2>1 DEF Plan, Idle
  <2>2. CASE Setting(q)
    <3>1. q.node \in Rows(db)' \cup {Nobody}
      BY <2>0, <2>2 DEF Setting
    <3> QED
      BY <1>3, <2>2, <3>1 DEF Plan, Setting
  <2>3. CASE Birth(q)
    <3>1. q.node \in Ids \ Rows(db)'
      BY <1>1, <2>0, <2>3 DEF Birth
    <3>2. PICK p \in Rows(db) \cup {Nobody} :
            /\ q.w.parent = q.node :> p
            /\ "move" \notin q.over => q.w.path[q.node] = Append(Above(db, p), q.node)
            /\ q.by = "staff" \/ "deactivate" \in q.over \/ p = Nobody \/ db.active[p]
      BY <2>3 DEF Birth
    <3>3. p \in Rows(db)' \cup {Nobody}
      BY <2>0
    <3>4. op # "move" => Above(db, p)' = Above(db, p)
      BY <2>0 DEF Above
    <3>5. "move" \notin q'.over => q'.w.path[q'.node] = Append(Above(db, p)', q'.node)
      BY <1>3, <3>2, <3>4
    <3>6. q'.by = "staff" \/ "deactivate" \in q'.over \/ p = Nobody \/ db'.active[p]
      BY <1>3, <2>0, <3>2
    <3>7. q'.w.parent = q'.node :> p
      BY <1>3, <3>2 DEF :>
    <3>8. Birth(q)'
      BY <1>3, <2>3, <3>1, <3>3, <3>5, <3>6, <3>7 DEF Birth, :>, Above
    <3> QED
      BY <3>8 DEF Plan
  <2>4. CASE Moving(q)
    <3>1. q.node \in Rows(db)' /\ q.to \in Rows(db)' /\ q.node \in Rows(db) /\ q.to \in Rows(db)
      BY <2>0, <2>4 DEF Moving
    <3>2. op # "move" => /\ db'.path[q.node] = db.path[q.node] /\ db'.path[q.to] = db.path[q.to]
                         /\ (q.to \notin Below(db, q.node) => q.to \notin Below(db, q.node)')
      BY <1>3, <2>0, <3>1 DEF Below
    <3>3. "move" \notin q'.over => q'.onto = db'.path[q'.to] /\ q'.to \notin Below(db', q'.node)
      <4>1. ASSUME "move" \notin q'.over PROVE q'.onto = db'.path[q'.to] /\ q'.to \notin Below(db', q'.node)
        <5>1. op # "move" /\ "move" \notin q.over
          BY <1>3, <4>1
        <5>2. q.onto = db.path[q.to] /\ q.to \notin Below(db, q.node)
          BY <2>4, <5>1 DEF Moving
        <5> QED
          BY <1>3, <3>2, <5>1, <5>2
      <4> QED
        BY <4>1
    <3>4. CASE q.pc # "ready"
      <4>1. \/ q'.pc = "checked" /\ DOMAIN q'.w = {}
            \/ q'.pc = "located" /\ DOMAIN q'.w = {} /\ ("move" \notin q'.over => q'.from = db'.path[q'.node])
        BY <1>3, <2>4, <3>2, <3>4 DEF Moving
      <4>2. Moving(q)'
        BY <1>3, <2>4, <3>1, <3>3, <4>1 DEF Moving
      <4> QED
        BY <4>2 DEF Plan
    <3>5. CASE q.pc = "ready"
      <4>1. Relocation(q)
        BY <2>4, <3>5 DEF Moving
      <4>2. q'.over \cap {"move", "create"} = {} =>
              /\ q'.w.path = NewPaths(q.node, q.to)'
              /\ q'.node \notin DOMAIN q'.w.parent => db'.parent[q'.node] = q'.to
        <5>1. ASSUME q'.over \cap {"move", "create"} = {}
              PROVE  /\ q'.w.path = NewPaths(q.node, q.to)'
                     /\ q'.node \notin DOMAIN q'.w.parent => db'.parent[q'.node] = q'.to
          <6>1. q.over \cap {"move", "create"} = {} /\ op \notin {"create", "move"}
            BY <1>3, <5>1
          <6>2. NewPaths(q.node, q.to)' = NewPaths(q.node, q.to)
            <7>1. Below(db', q.node) = Below(db, q.node)
              BY <1>0, <3>1, <6>1, SubtreeKept
            <7>2. /\ db'.path[q.node] = db.path[q.node] /\ db'.path[q.to] = db.path[q.to]
                  /\ \A m \in Below(db, q.node) : db'.path[m] = db.path[m]
              BY <2>0, <3>1, <6>1 DEF Below
            <7> QED
              BY <1>3, <7>1, <7>2 DEF NewPaths
          <6>3. db'.parent[q.node] = db.parent[q.node]
            BY <2>0, <3>1, <6>1
          <6>4. /\ q.w.path = NewPaths(q.node, q.to)
                /\ q.node \notin DOMAIN q.w.parent => db.parent[q.node] = q.to
            BY <4>1, <6>1 DEF Relocation
          <6> QED
            BY <1>3, <6>2, <6>3, <6>4
        <5> QED
          BY <5>1
      <4>3. DOMAIN q'.w.path \subseteq Rows(db)'
        BY <1>3, <2>0, <4>1 DEF Relocation
      <4>4. Relocation(q)'
        BY <1>3, <4>1, <4>2, <4>3 DEF Relocation
      <4>5. Moving(q)'
        BY <1>3, <2>4, <3>1, <3>3, <3>5, <4>4 DEF Moving
      <4> QED
        BY <4>5 DEF Plan
    <3> QED
      BY <3>4, <3>5
  <2>5. CASE Closure(q)
    <3>1. q.node \in Rows(db) /\ q.node \in Rows(db)' /\ DOMAIN q.w.active \subseteq Rows(db)'
      BY <2>0, <2>5 DEF Closure
    <3>2. ASSUME q'.over \cap {"create", "move"} = {}
          PROVE  /\ DOMAIN q'.w.active \subseteq Below(db', q'.node)
                 /\ \A n \in Below(db', q'.node) : n \in DOMAIN q'.w.active \/ ~db'.active[n]
      <4>1. q.over \cap {"create", "move"} = {} /\ op \notin {"create", "move"}
        BY <1>3, <3>2
      <4>2. Below(db', q.node) = Below(db, q.node)
        BY <1>0, <3>1, <4>1, SubtreeKept
      <4>3. /\ DOMAIN q.w.active \subseteq Below(db, q.node)
            /\ \A n \in Below(db, q.node) : n \in DOMAIN q.w.active \/ ~db.active[n]
        BY <2>5, <4>1 DEF Closure
      <4>4. \A n \in Below(db, q.node) : ~db.active[n] => ~db'.active[n]
        BY <2>0 DEF Below
      <4> QED
        BY <1>3, <4>2, <4>3, <4>4
    <3>3. Closure(q)'
      BY <1>3, <2>5, <3>1, <3>2 DEF Closure
    <3> QED
      BY <3>3 DEF Plan
  <2> QED
    BY <1>1, <2>1, <2>2, <2>3, <2>4, <2>5 DEF Plan
<1> QED
  BY <1>2, <1>3, OthersKeep

LEMMA PlanKept ==
  ASSUME db' = db, NEW s, Plan(req'[s])
  PROVE  Plan(req[s])'
<1>1. CASE Idle(req'[s])
  BY <1>1 DEF Plan, Idle
<1>2. CASE Setting(req'[s])
  BY <1>2 DEF Plan, Setting, Rows
<1>3. CASE Birth(req'[s])
  BY <1>3 DEF Plan, Birth, Rows, Above
<1>4. CASE Moving(req'[s])
  BY <1>4 DEF Plan, Moving, Relocation, NewPaths, Below, Rows
<1>5. CASE Closure(req'[s])
  BY <1>5 DEF Plan, Closure, Below, Rows
<1> QED
  BY <1>1, <1>2, <1>3, <1>4, <1>5 DEF Plan

LEMMA OpenInit == Init => RowsInv /\ OpenInv
<1> SUFFICES ASSUME Init PROVE RowsInv /\ OpenInv
  OBVIOUS
<1>1. RowsInv
  <2>1. /\ DOMAIN db = Columns /\ DOMAIN db.path = DOMAIN Born /\ DOMAIN db.active = DOMAIN Born
        /\ Rows(db) = DOMAIN Born
        /\ db.parent = [n \in DOMAIN Born |-> IF Len(Born[n]) = 1 THEN Nobody ELSE S!Last(S!Front(Born[n]))]
    BY DEF Init, Columns, RowColumns, Rows
  <2>2. ASSUME NEW n \in DOMAIN Born PROVE db.parent[n] \in DOMAIN Born \cup {Nobody}
    <3>1. CASE Len(Born[n]) = 1
      BY <2>1, <3>1
    <3>2. CASE Len(Born[n]) # 1
      <4>1. Born[n] \in Seq(Ids) /\ Born[n] # <<>> /\ S!Front(Born[n]) \in {<<>>} \cup {Born[m] : m \in DOMAIN Born}
        BY TreeAssumption
      <4>2. S!Front(Born[n]) # <<>>
        BY <3>2, <4>1, FrontAndLast
      <4>4. PICK m \in DOMAIN Born : S!Front(Born[n]) = Born[m]
        BY <4>1, <4>2
      <4>5. S!Last(Born[m]) = m
        BY TreeAssumption
      <4> QED
        BY <2>1, <3>2, <4>4, <4>5
    <3> QED
      BY <3>1, <3>2
  <2> QED
    BY <2>1, <2>2, TreeAssumption DEF RowsInv, Ids
<1>2. OpenInv
  BY DEF Init, OpenInv, Fresh, Whole, Plan, Idle
<1> QED
  BY <1>1, <1>2

LEMMA OpenStep ==
  ASSUME RowsInv, OpenInv, [Next]_vars
  PROVE  RowsInv' /\ OpenInv'
<1>1. ASSUME NEW r \in Requests, Proceeds(r) PROVE RowsInv' /\ OpenInv'
  <2>1. db' = db /\ DOMAIN req' = Requests /\ \A s \in Requests \ {r} : req'[s] = req[s]
    BY <1>1 DEF Proceeds
  <2>2. RowsInv'
    BY <2>1 DEF RowsInv, Rows
  <2>3. ASSUME NEW s \in Requests PROVE Whole(req[s])' /\ Plan(req[s])'
    <3>1. Whole(req'[s]) /\ Plan(req'[s])
      BY <1>1, <2>1 DEF Proceeds, OpenInv
    <3> QED
      BY <2>1, <3>1, PlanKept DEF Whole
  <2>4. ASSUME NEW i \in Requests, NEW j \in Requests \ {i}, req'[i].op = "create"
        PROVE  req'[j].node # req'[i].node
    <3>1. CASE i = r
      BY <1>1, <2>1, <2>4, <3>1 DEF Proceeds, Unused
    <3>2. CASE i # r /\ j # r
      BY <2>1, <2>4, <3>2 DEF OpenInv
    <3>3. CASE i # r /\ j = r
      <4>1. req'[i] = req[i] /\ Plan(req[i])
        BY <2>1, <3>3 DEF OpenInv
      <4>2. req[i].node \in Ids \ Rows(db)
        BY <2>4, <4>1 DEF Plan, Idle, Setting, Birth, Moving, Closure
      <4>3. CASE req'[r].op = "create"
        BY <1>1, <3>3, <4>1, <4>3 DEF Proceeds, Unused
      <4>4. CASE req'[r].op # "create"
        BY <1>1, <3>3, <4>1, <4>2, <4>4, TreeAssumption DEF Proceeds
      <4> QED
        BY <4>3, <4>4
    <3> QED
      BY <3>1, <3>2, <3>3
  <2> QED
    BY <2>1, <2>2, <2>3, <2>4 DEF OpenInv
<1>2. ASSUME NEW r \in Requests, Commit(r) PROVE RowsInv' /\ OpenInv'
  <2>1. RowsInv' /\ DOMAIN req' = Requests /\ req'[r] = Done
    BY <1>2, CommitLands DEF Commit
  <2>2. Whole(req'[r]) /\ Idle(req'[r])
    BY <2>1 DEF Whole, Idle, Done, Fresh
  <2>3. ASSUME NEW s \in Requests \ {r}
        PROVE  /\ Whole(req'[s]) /\ Plan(req[s])' /\ req'[s].op = req[s].op /\ req'[s].node = req[s].node
    BY <1>2, <2>3, OthersKeep, PlanStays DEF OpenInv
  <2>4. ASSUME NEW i \in Requests, NEW j \in Requests \ {i}, req'[i].op = "create"
        PROVE  req'[j].node # req'[i].node
    <3>1. i # r
      BY <2>2, <2>4 DEF Idle
    <3>2. CASE j = r
      BY <2>2, <2>3, <2>4, <3>1, <3>2, TreeAssumption DEF Plan, Idle, Setting, Birth, Moving, Closure
    <3>3. CASE j # r
      BY <2>3, <2>4, <3>1, <3>3 DEF OpenInv
    <3> QED
      BY <3>2, <3>3
  <2>5. ASSUME NEW s \in Requests PROVE Whole(req[s])' /\ Plan(req[s])'
    BY <2>2, <2>3 DEF Plan, Idle, Whole
  <2> QED
    BY <2>1, <2>4, <2>5 DEF OpenInv
<1>3. CASE UNCHANGED vars
  <2>1. db' = db /\ req' = req
    BY <1>3 DEF vars
  <2>2. ASSUME NEW s \in Requests PROVE Whole(req[s])' /\ Plan(req[s])'
    BY <2>1, PlanKept DEF OpenInv, Whole
  <2> QED
    BY <2>1, <2>2 DEF RowsInv, Rows, OpenInv
<1> QED
  BY <1>1, <1>2, <1>3, NextCases

-----------------------------------------------------------------------------
(* Paths and parents.                                                      *)

\* What a path that has n's as a prefix is, but n's own: the path of a row
\* whose parent's path has it as well.
LEMMA BelowIsInherited ==
  ASSUME NEW d, Forest(d), Straight(d), NEW n \in Rows(d), NEW m \in Rows(d), m # n
  PROVE  LET p == d.parent[m] IN
         m \in Below(d, n) <=> p \in Rows(d) /\ p \in Below(d, n)
<1> DEFINE p == d.parent[m]
<1>1. /\ d.path[n] \in Seq(Ids) /\ d.path[n] = Append(Above(d, d.parent[n]), n)
      /\ d.path[m] \in Seq(Ids) /\ d.path[m] = Append(Above(d, p), m)
      /\ n \in Ids /\ m \in Ids /\ p \in Rows(d) \cup {Nobody} /\ Nobody \notin Rows(d)
  BY TreeAssumption DEF Straight, Forest
<1>2. \A x \in Rows(d) \cup {Nobody} : Above(d, x) \in Seq(Ids)
  BY EmptySeq DEF Above, Straight
<1>3. d.parent[n] \in Rows(d) \cup {Nobody}
  BY DEF Forest
<1>4. d.path[n] # d.path[m]
  <2>1. /\ Append(Above(d, d.parent[n]), n) # Append(Above(d, p), m)
    BY <1>1, <1>2, <1>3, AppendInjective
  <2> QED
    BY <1>1, <2>1
<1> HIDE DEF p
<1>5. S!IsPrefix(d.path[n], d.path[m]) <=> S!IsPrefix(d.path[n], Above(d, p))
  <2> DEFINE s == d.path[n]
             t == Above(d, p)
  <2>1. s \in Seq(Ids) /\ t \in Seq(Ids) /\ m \in Ids /\ s # Append(t, m) /\ d.path[m] = Append(t, m)
    BY <1>1, <1>2, <1>4
  <2> HIDE DEF s, t
  <2>2. S!IsPrefix(s, Append(t, m)) <=> S!IsPrefix(s, t)
    BY <2>1, PrefixOfAppend
  <2> QED
    BY <2>1, <2>2 DEF s, t
<1>6. CASE p = Nobody
  <2>1. ~S!IsPrefix(d.path[n], <<>>)
    <3>1. Len(d.path[n]) \in Nat /\ Len(d.path[n]) # 0
      BY <1>1, <1>2, <1>3, AppendProperties, LenProperties, EmptySeq
    <3>2. Len(<<>>) = 0
      OBVIOUS
    <3> QED
      BY <3>1, <3>2 DEF S!IsPrefix
  <2> QED
    BY <1>1, <1>5, <1>6, <2>1 DEF Below, Above, p
<1>7. CASE p \in Rows(d)
  BY <1>1, <1>5, <1>7 DEF Below, Above, p
<1> QED
  BY <1>1, <1>6, <1>7 DEF p

LEMMA MovedTree ==
  ASSUME RowsInv, Straight(db), NEW e, NEW n \in Rows(db), NEW to \in Rows(db), to \notin Below(db, n),
         Rows(e) = Rows(db),
         \A m \in Below(db, n) : e.path[m] = NewPaths(n, to)[m],
         \A m \in Rows(db) \ Below(db, n) : e.path[m] = db.path[m],
         e.parent[n] = to, \A m \in Rows(db) \ {n} : e.parent[m] = db.parent[m]
  PROVE  Straight(e)
<1> DEFINE old == db.path[n]
           b == Append(db.path[to], n)
<1>1. \A m \in Rows(db) : db.path[m] \in Seq(Ids) /\ db.path[m] = Append(Above(db, db.parent[m]), m)
  BY DEF Straight
<1>2. Rows(db) \subseteq Ids /\ Nobody \notin Rows(db)
  BY TreeAssumption DEF RowsInv
<1>3. old \in Seq(Ids) /\ b \in Seq(Ids)
  BY <1>1, <1>2, AppendProperties
<1>4. \A m \in Below(db, n) :
        e.path[m] = Rebased(b, old, db.path[m]) /\ m \in Rows(db)
  BY DEF NewPaths, Below
<1>5. n \in Below(db, n)
  BY <1>1, PrefixOfItself DEF Below
<1>6. e.path[n] = b /\ e.path[to] = db.path[to]
  BY <1>3, <1>4, <1>5, RebasedItself
<1>7. ASSUME NEW m \in Rows(db)
      PROVE  e.path[m] \in Seq(Ids) /\ e.path[m] = Append(Above(e, e.parent[m]), m)
  <2>1. CASE m = n
    <3>1. Above(e, e.parent[n]) = db.path[to]
      BY <1>2, <1>6 DEF Above
    <3> QED
      BY <1>3, <1>6, <2>1, <3>1
  <2>2. CASE m # n /\ m \in Below(db, n)
    <3> DEFINE p == db.parent[m]
    <3>1. p \in Rows(db) /\ p \in Below(db, n) /\ e.parent[m] = p
      BY <2>2, RowsForest, BelowIsInherited
    <3>2. db.path[p] \in Seq(Ids) /\ db.path[m] = Append(db.path[p], m) /\ S!IsPrefix(old, db.path[p]) /\ m \in Ids
      BY <1>1, <1>2, <3>1 DEF Above, Below
    <3>3. e.path[m] = Rebased(b, old, Append(db.path[p], m)) /\ e.path[p] = Rebased(b, old, db.path[p])
      BY <1>4, <2>2, <3>1, <3>2
    <3> HIDE DEF old, b, p
    <3>4. e.path[m] = Append(e.path[p], m)
      BY <1>3, <3>2, <3>3, RebasedLonger
    <3>5. e.path[p] \in Seq(Ids)
      BY <1>3, <3>2, <3>3, RebasedIsAPath
    <3>6. Above(e, e.parent[m]) = e.path[p]
      BY <1>2, <3>1 DEF Above
    <3> QED
      BY <3>2, <3>4, <3>5, <3>6, AppendProperties
  <2>3. CASE m # n /\ m \notin Below(db, n)
    <3>1. e.path[m] = db.path[m] /\ e.parent[m] = db.parent[m]
      BY <2>3
    <3>2. Above(e, db.parent[m]) = Above(db, db.parent[m])
      <4>1. db.parent[m] \in Rows(db) \cup {Nobody}
        BY DEF RowsInv
      <4>2. db.parent[m] \in Rows(db) => db.parent[m] \notin Below(db, n)
        BY <2>3, RowsForest, BelowIsInherited
      <4> QED
        BY <1>2, <4>1, <4>2 DEF Above
    <3> QED
      BY <1>1, <3>1, <3>2
  <2> QED
    BY <2>1, <2>2, <2>3
<1> QED
  BY <1>7 DEF Straight

LEMMA PathsLand ==
  ASSUME RowsInv, OpenInv, NEW r \in Requests, Commit(r), Straight(db), clash' \cap PathRaces = {}
  PROVE  Straight(db')
<1> DEFINE q == req[r]
           w == req[r].w
<1>1. /\ Landed(r) /\ RowsInv' /\ Plan(q) /\ q.pc = "ready"
      /\ \A o \in q.over : {q.op, o} \notin PathRaces
  BY CommitLands DEF OpenInv, Commit
<1>2. /\ q.op = "create" => "move" \notin q.over
      /\ q.op = "move" => q.over \cap {"move", "create"} = {}
  BY <1>1 DEF PathRaces
<1>3. /\ DOMAIN db.path = Rows(db) /\ DOMAIN db.parent = Rows(db) /\ Nobody \notin Rows(db)
      /\ Rows(db) \subseteq Ids /\ \A n \in Rows(db) : db.parent[n] \in Rows(db) \cup {Nobody}
  BY TreeAssumption DEF RowsInv, Rows
<1>4. Rows(db') = Rows(db) \cup (IF q.op = "create" THEN {q.node} ELSE {})
  BY <1>1 DEF Landed, Rows
<1>5. ASSUME q.op # "move", NEW m \in Rows(db)
      PROVE  db'.path[m] \in Seq(Ids) /\ db'.path[m] = Append(Above(db', db'.parent[m]), m)
  <2>1. \A n \in Rows(db) : db'.path[n] = db.path[n] /\ db'.parent[n] = db.parent[n]
    BY <1>1, <1>5 DEF Landed
  <2>2. Above(db', db'.parent[m]) = Above(db, db.parent[m])
    BY <1>3, <2>1 DEF Above
  <2> QED
    BY <2>1, <2>2 DEF Straight
<1>6. CASE q.op \notin {"create", "move"}
  BY <1>4, <1>5, <1>6 DEF Straight
<1>7. CASE q.op = "create"
  <2>1. Birth(q)
    BY <1>1, <1>7 DEF Plan, Idle, Setting, Moving, Closure
  <2>2. PICK p \in Rows(db) \cup {Nobody} :
          q.w.parent = q.node :> p /\ q.w.path[q.node] = Append(Above(db, p), q.node)
    BY <1>2, <1>7, <2>1 DEF Birth
  <2>3. /\ "parent" \in DOMAIN w /\ "path" \in DOMAIN w /\ q.node \in DOMAIN w.path /\ q.node \in Ids
        /\ q.node \in DOMAIN w.parent /\ w.parent[q.node] = p
    BY <2>1, <2>2 DEF Birth, Shape, :>
  <2>4. "path" \in Columns /\ "parent" \in Columns
    BY DEF Columns, RowColumns
  <2>5. db'.parent[q.node] = p
    BY <2>3, <2>4, Lands
  <2>6. db'.path[q.node] = Append(Above(db, p), q.node)
    BY <2>2, <2>3, <2>4, Lands
  <2>7. Above(db', p) = Above(db, p) /\ Above(db, p) \in Seq(Ids)
    <3>1. \A n \in Rows(db) : db'.path[n] = db.path[n]
      BY <1>1, <1>7 DEF Landed
    <3> QED
      BY <1>3, <3>1, EmptySeq DEF Above, Straight
  <2>8. db'.path[q.node] \in Seq(Ids) /\ db'.path[q.node] = Append(Above(db', db'.parent[q.node]), q.node)
    BY <2>3, <2>5, <2>6, <2>7, AppendProperties
  <2> QED
    BY <1>4, <1>5, <1>7, <2>8 DEF Straight
<1>8. CASE q.op = "move"
  <2>1. Moving(q) /\ Relocation(q)
    BY <1>1, <1>8 DEF Plan, Idle, Setting, Birth, Moving, Closure
  <2>2. PICK n \in Rows(db), to \in Rows(db) : n = q.node /\ to = q.to
    BY <2>1 DEF Moving
  <2>3. /\ to \notin Below(db, n) /\ w.path = NewPaths(n, to)
        /\ {"path", "parent"} \subseteq DOMAIN w /\ DOMAIN w.parent \subseteq {n}
        /\ \A m \in DOMAIN w.parent : w.parent[m] = to
        /\ n \notin DOMAIN w.parent => db.parent[n] = to
    BY <1>2, <1>8, <2>1, <2>2 DEF Moving, Relocation, Shape
  <2>4. "path" \in Columns /\ "parent" \in Columns
    BY DEF Columns, RowColumns
  <2>5. /\ \A m \in Below(db, n) : db'.path[m] = NewPaths(n, to)[m]
        /\ \A m \in Rows(db) \ Below(db, n) : db'.path[m] = db.path[m]
    <3>1. DOMAIN w.path = Below(db, n)
      BY <2>3 DEF NewPaths
    <3> QED
      BY <1>3, <2>3, <2>4, <3>1, Lands
  <2>6. db'.parent[n] = to /\ \A m \in Rows(db) \ {n} : db'.parent[m] = db.parent[m]
    BY <1>3, <2>3, <2>4, Lands
  <2>7. Rows(db') = Rows(db)
    BY <1>4, <1>8
  <2> QED
    BY <2>3, <2>5, <2>6, <2>7, MovedTree
<1> QED
  BY <1>6, <1>7, <1>8

PathInv == clash \cap PathRaces = {} => Straight(db)

LEMMA BornStraight == Init => Straight(db)
<1> SUFFICES ASSUME Init PROVE Straight(db)
  OBVIOUS
<1>1. /\ db.path = Born /\ Rows(db) = DOMAIN Born
      /\ db.parent = [n \in DOMAIN Born |-> IF Len(Born[n]) = 1 THEN Nobody ELSE S!Last(S!Front(Born[n]))]
  BY DEF Init, Rows
<1>2. ASSUME NEW n \in DOMAIN Born
      PROVE  Born[n] \in Seq(Ids) /\ Born[n] = Append(Above(db, db.parent[n]), n)
  <2>1. /\ Born[n] \in Seq(Ids) /\ Born[n] # <<>> /\ S!Last(Born[n]) = n
        /\ S!Front(Born[n]) \in {<<>>} \cup {Born[m] : m \in DOMAIN Born}
    BY TreeAssumption
  <2>2. Born[n] = Append(S!Front(Born[n]), n) /\ (S!Front(Born[n]) = <<>> <=> Len(Born[n]) = 1)
    BY <2>1, FrontAndLast
  <2>3. Above(db, db.parent[n]) = S!Front(Born[n])
    <3>1. CASE Len(Born[n]) = 1
      BY <1>1, <2>2, <3>1 DEF Above
    <3>2. CASE Len(Born[n]) # 1
      <4>1. PICK m \in DOMAIN Born : S!Front(Born[n]) = Born[m]
        BY <2>1, <2>2, <3>2
      <4>2. S!Last(Born[m]) = m /\ m # Nobody
        BY TreeAssumption DEF Ids
      <4> QED
        BY <1>1, <3>2, <4>1, <4>2 DEF Above
    <3> QED
      BY <3>1, <3>2
  <2> QED
    BY <2>1, <2>2, <2>3
<1> QED
  BY <1>1, <1>2 DEF Straight

LEMMA PathStep ==
  ASSUME RowsInv, OpenInv, PathInv, [Next]_vars
  PROVE  PathInv'
<1>1. ASSUME db' = db, clash' = clash PROVE PathInv'
  BY <1>1 DEF PathInv, PathRaces, Straight, Above, Rows
<1>2. ASSUME NEW r \in Requests, Commit(r) PROVE PathInv'
  <2>1. clash \subseteq clash' /\ PathRaces' = PathRaces
    BY <1>2 DEF Commit, PathRaces
  <2>2. clash' \cap PathRaces = {} => Straight(db')
    BY <1>2, <2>1, PathsLand DEF PathInv
  <2> QED
    BY <2>1, <2>2 DEF PathInv, Straight, Above, Rows
<1> QED
  BY <1>1, <1>2, NextCases DEF Proceeds, vars

\* The path column and the parent column tell the same tree, unless a move has
\* overlapped with a move or a creation: for every tree there is at the start,
\* and any number of requests (scope_service.py, profiles/services.py:65-477).
THEOREM PathsHold == Spec => []PathsFollowParents
<1>1. Init => RowsInv /\ OpenInv /\ PathInv
  BY OpenInit, BornStraight DEF PathInv
<1>2. RowsInv /\ OpenInv /\ PathInv /\ [Next]_vars => RowsInv' /\ OpenInv' /\ PathInv'
  BY OpenStep, PathStep
<1>3. PathInv => PathsFollowParents
  BY DEF PathInv, PathsFollowParents, Straight, Above
<1> QED
  BY <1>1, <1>2, <1>3, PTL DEF Spec

-----------------------------------------------------------------------------
(* Who is active.                                                          *)

LEMMA StraysLand ==
  ASSUME RowsInv, OpenInv, PathInv, StraysHaveACause, NEW r \in Requests, Commit(r),
         clash' \cap StrayRaces = {}, NEW n \in Rows(db)' \ grafts', db'.active[n], db'.parent[n] # Nobody
  PROVE  db'.active[db'.parent[n]]
<1> DEFINE q == req[r]
           w == req[r].w
           p == db'.parent[n]
<1>1. /\ Landed(r) /\ RowsInv' /\ Plan(q) /\ q.pc = "ready"
      /\ clash \subseteq clash' /\ grafts \subseteq grafts' /\ \A o \in q.over : {q.op, o} \notin StrayRaces
  BY CommitLands DEF OpenInv, Commit
<1>2. /\ q.op = "create" => q.over \cap {"deactivate", "move"} = {}
      /\ q.op = "move" => q.over \cap {"deactivate", "move", "create"} = {}
      /\ q.op = "deactivate" => q.over \cap {"create", "move"} = {}
  BY <1>1 DEF StrayRaces, PathRaces
<1>3. /\ DOMAIN db.active = Rows(db) /\ DOMAIN db.parent = Rows(db) /\ Nobody \notin Rows(db)
      /\ \A m \in Rows(db) : db.parent[m] \in Rows(db) \cup {Nobody}
  BY TreeAssumption DEF RowsInv, Rows
<1>4. \A m \in Rows(db) \ grafts : db.active[m] /\ db.parent[m] # Nobody => db.active[db.parent[m]]
  BY <1>1 DEF StraysHaveACause
<1>5. Straight(db)
  BY <1>1 DEF PathInv, StrayRaces
<1>6. /\ Rows(db)' = Rows(db) \cup (IF q.op = "create" THEN {q.node} ELSE {})
      /\ q.op # "move" => \A m \in Rows(db) : db'.parent[m] = db.parent[m]
      /\ \A m \in Rows(db) : db'.active[m] = db.active[m] \/ (q.op = "deactivate" /\ db'.active[m] = FALSE)
  BY <1>1 DEF Landed
<1>7. ASSUME q.by = "staff", q.op \in {"create", "move"}, n = q.node PROVE db.active[p]
  <2>1. db' = Overlaid(db, w)
    BY DEF Commit
  <2>2. n \notin {m \in {q.node} : /\ q.by = "staff" /\ q.op \in {"create", "move"}
                                   /\ Overlaid(db, w).parent[m] # Nobody /\ ~db.active[Overlaid(db, w).parent[m]]}
    BY DEF Commit
  <2> QED
    BY <1>7, <2>1, <2>2
<1>8. CASE n \in Rows(db) /\ db'.parent[n] = db.parent[n] /\ q.op # "deactivate"
  <2>1. p \in Rows(db) /\ db.active[p]
    BY <1>1, <1>3, <1>4, <1>6, <1>8
  <2> QED
    BY <1>6, <1>8, <2>1
<1>9. CASE q.op = "deactivate"
  <2>1. Closure(q)
    BY <1>1, <1>9 DEF Plan, Idle, Setting, Birth, Moving
  <2>2. /\ n \in Rows(db) /\ db.active[n] /\ p = db.parent[n] /\ p \in Rows(db) /\ db.active[p]
    BY <1>1, <1>3, <1>4, <1>6, <1>9
  <2>3. /\ "active" \in DOMAIN w /\ DOMAIN w.active \subseteq Below(db, q.node)
        /\ \A m \in DOMAIN w.active : w.active[m] = FALSE
        /\ \A m \in Below(db, q.node) : m \in DOMAIN w.active \/ ~db.active[m]
        /\ q.node \in Rows(db)
    BY <1>2, <1>9, <2>1 DEF Closure, Shape
  <2>4. "active" \in Columns
    BY DEF Columns, RowColumns
  <2>5. p \notin Below(db, q.node)
    <3>1. SUFFICES ASSUME p \in Below(db, q.node) PROVE FALSE
      OBVIOUS
    <3>2. n \in Below(db, q.node)
      <4>1. CASE n = q.node
        BY <1>5, <2>2, <4>1, PrefixOfItself DEF Below, Straight
      <4>2. CASE n # q.node
        BY <1>5, <2>2, <2>3, <3>1, <4>2, RowsForest, BelowIsInherited
      <4> QED
        BY <4>1, <4>2
    <3>3. n \in DOMAIN w.active /\ w.active[n] = FALSE
      BY <2>2, <2>3, <3>2
    <3>4. db'.active[n] = FALSE
      BY <2>3, <2>4, <3>3, Lands
    <3> QED
      BY <3>4
  <2>6. db'.active[p] = db.active[p]
    <3>1. p \in DOMAIN db.active \ DOMAIN w.active
      BY <1>3, <2>2, <2>3, <2>5
    <3> HIDE DEF p
    <3> QED
      BY <2>3, <2>4, <3>1, Lands
  <2> QED
    BY <2>2, <2>6
<1>10. CASE q.op = "create" /\ n \notin Rows(db)
  <2>1. Birth(q) /\ n = q.node
    BY <1>1, <1>6, <1>10 DEF Plan, Idle, Setting, Moving, Closure
  <2>2. PICK k \in Rows(db) \cup {Nobody} :
          q.w.parent = q.node :> k /\ (q.by = "staff" \/ k = Nobody \/ db.active[k])
    BY <1>2, <1>10, <2>1 DEF Birth
  <2>3. "parent" \in DOMAIN w /\ q.node \in DOMAIN w.parent /\ w.parent[q.node] = k
    BY <2>1, <2>2 DEF Birth, Shape, :>
  <2>4. "parent" \in Columns
    BY DEF Columns, RowColumns
  <2>5. p = k
    BY <2>1, <2>3, <2>4, Lands
  <2>6. p \in Rows(db) /\ db.active[p]
    BY <1>7, <1>10, <2>1, <2>2, <2>5
  <2> QED
    BY <1>6, <1>10, <2>6
<1>11. CASE q.op = "move"
  <2>1. Moving(q) /\ Relocation(q)
    BY <1>1, <1>11 DEF Plan, Idle, Setting, Birth, Moving, Closure
  <2>2. n \in Rows(db)
    BY <1>6, <1>11
  <2>3. CASE n # q.node
    <3>1. "parent" \in DOMAIN w /\ n \notin DOMAIN w.parent
      BY <2>1, <2>3 DEF Relocation, Shape
    <3>2. "parent" \in Columns
      BY DEF Columns, RowColumns
    <3>3. db'.parent[n] = db.parent[n]
      BY <1>3, <2>2, <3>1, <3>2, Lands
    <3> QED
      BY <1>8, <1>11, <2>2, <3>3
  <2>4. CASE n = q.node
    <3>1. db.active[p] /\ q.by = "staff"
      BY <1>7, <1>11, <2>1, <2>4 DEF Moving
    <3>2. p \in Rows(db)
      <4>1. p \in Rows(db)' \cup {Nobody}
        BY <1>1, <1>6, <1>11, <2>2 DEF RowsInv
      <4> QED
        BY <1>6, <1>11, <4>1
    <3> QED
      BY <1>6, <1>11, <3>1, <3>2
  <2> QED
    BY <2>3, <2>4
<1> QED
  BY <1>6, <1>8, <1>9, <1>10, <1>11

\* Below a deactivated group nothing is active, but for rows that staff put
\* there and for those that were created or moved there while the deactivation
\* ran (profiles/services.py:434-473): for any number of identities and requests.
THEOREM StraysAreCaused == Spec => []StraysHaveACause
<1>1. Init => RowsInv /\ OpenInv /\ PathInv /\ StraysHaveACause
  <2>1. Init => StraysHaveACause
    <3> SUFFICES ASSUME Init PROVE StraysHaveACause
      OBVIOUS
    <3>1. /\ db.active = [n \in DOMAIN Born |-> TRUE] /\ Rows(db) = DOMAIN Born
          /\ \A n \in DOMAIN Born : db.active[n]
      BY DEF Init, Rows
    <3> QED
      BY <3>1, OpenInit DEF StraysHaveACause, RowsInv
  <2> QED
    BY <2>1, OpenInit, BornStraight DEF PathInv
<1>2. ASSUME RowsInv, OpenInv, PathInv, StraysHaveACause, [Next]_vars PROVE StraysHaveACause'
  <2>1. ASSUME db' = db, clash' = clash, grafts' = grafts PROVE StraysHaveACause'
    BY <1>2, <2>1 DEF StraysHaveACause, StrayRaces, PathRaces, Rows
  <2>2. ASSUME NEW r \in Requests, Commit(r) PROVE StraysHaveACause'
    <3>1. StrayRaces' = StrayRaces
      BY DEF StrayRaces, PathRaces
    <3> QED
      BY <1>2, <2>2, <3>1, StraysLand DEF StraysHaveACause, Rows
  <2> QED
    BY <1>2, <2>1, <2>2, NextCases DEF Proceeds, vars
<1>3. RowsInv /\ OpenInv /\ PathInv /\ StraysHaveACause /\ [Next]_vars
        => RowsInv' /\ OpenInv' /\ PathInv' /\ StraysHaveACause'
  BY <1>2, OpenStep, PathStep
<1> QED
  BY <1>1, <1>3, PTL DEF Spec

-----------------------------------------------------------------------------
(* What a pass over a subtree computes.                                    *)

LEMMA LeastElement ==
  ASSUME NEW T, T \subseteq Nat, T # {}
  PROVE  \E x \in T : \A y \in T : x <= y
<1>1. PICK x \in T : \A y \in T : <<y, x>> \notin OpToRel(<, Nat)
  BY NatLessThanWellFounded, WFMin
<1>2. \A y \in T : ~(y < x)
  BY <1>1 DEF OpToRel
<1> QED
  BY <1>2

\* Rows of which each has one of a lower rank: there are none.
LEMMA NoLowest ==
  ASSUME NEW I, NEW rank, rank \in [I -> Nat], NEW odd, odd \subseteq I,
         \A n \in odd : \E m \in odd : rank[m] < rank[n]
  PROVE  odd = {}
<1> SUFFICES ASSUME odd # {} PROVE FALSE
  OBVIOUS
<1> DEFINE T == {rank[n] : n \in odd}
<1>1. T \subseteq Nat /\ T # {}
  OBVIOUS
<1> HIDE DEF T
<1>2. PICK t \in T : \A u \in T : t <= u
  BY <1>1, LeastElement
<1>3. PICK n \in odd : t = rank[n]
  BY <1>2 DEF T
<1>4. PICK m \in odd : rank[m] < rank[n]
  OBVIOUS
<1>5. rank[m] \in T /\ rank[m] \in Nat /\ rank[n] \in Nat
  BY DEF T
<1> QED
  BY <1>2, <1>3, <1>4, <1>5

\* Values in V for the members of I: each n of inner takes its own from that
\* of up[n], whose rank is lower, the others from init.
Descent(I, V, rank, inner, up, step, init) ==
  /\ rank \in [I -> Nat] /\ inner \subseteq I
  /\ \A n \in inner : up[n] \in I /\ rank[up[n]] < rank[n]
  /\ step \in [I -> [V -> V]] /\ init \in [I -> V]

Follows(f, I, inner, up, step, init) ==
  \A n \in I : f[n] = IF n \in inner THEN step[n][f[up[n]]] ELSE init[n]

LEMMA RecursionExists ==
  ASSUME NEW I, NEW V, NEW rank, NEW inner, NEW up, NEW step, NEW init,
         Descent(I, V, rank, inner, up, step, init)
  PROVE  \E f \in [I -> V] : Follows(f, I, inner, up, step, init)
<1> USE DEF Descent
<1> DEFINE Value(n, f) == IF n \in inner THEN step[n][f[up[n]]] ELSE init[n]
           Right(k, f) == f \in [I -> V] /\ \A n \in I : rank[n] < k => f[n] = Value(n, f)
<1>1. \A f \in [I -> V] : \A n \in I : Value(n, f) \in V
  OBVIOUS
<1>2. ASSUME NEW k \in Nat, NEW f, Right(k, f)
      PROVE  Right(k + 1, [n \in I |-> Value(n, f)])
  <2> DEFINE g == [n \in I |-> Value(n, f)]
  <2>1. g \in [I -> V]
    BY <1>1, <1>2
  <2>2. ASSUME NEW n \in I, rank[n] < k + 1 PROVE g[n] = Value(n, g)
    <3>1. CASE n \in inner
      <4>1. up[n] \in I /\ rank[up[n]] < k
        <5>1. up[n] \in I /\ rank[up[n]] \in Nat /\ rank[n] \in Nat /\ rank[up[n]] < rank[n]
          BY <3>1
        <5> QED
          BY <5>1, <2>2
      <4>2. f[up[n]] = g[up[n]]
        BY <4>1, <1>2
      <4> QED
        BY <3>1, <4>2
    <3>2. CASE n \notin inner
      BY <3>2
    <3> QED
      BY <3>1, <3>2
  <2> QED
    BY <2>1, <2>2
<1> HIDE DEF Right
<1>3. ASSUME NEW k \in Nat PROVE \E f : Right(k, f)
  <2> DEFINE T == {j \in Nat : ~\E f : Right(j, f)}
  <2>1. SUFFICES ASSUME T # {} PROVE FALSE
    OBVIOUS
  <2>2. PICK j \in T : \A i \in T : j <= i
    BY <2>1, LeastElement
  <2>3. j # 0
    <3>1. Right(0, init)
      BY DEF Right
    <3> QED
      BY <2>2, <3>1
  <2>4. j \in Nat /\ j - 1 \in Nat /\ (j - 1) + 1 = j /\ ~(j <= j - 1)
    <3>1. j \in Nat
      OBVIOUS
    <3> QED
      BY <2>3, <3>1
  <2>5. PICK f : Right(j - 1, f)
    BY <2>2, <2>4
  <2>6. \E g : Right((j - 1) + 1, g)
    BY <1>2, <2>4, <2>5
  <2> QED
    BY <2>2, <2>4, <2>6
<1>4. ASSUME NEW k \in Nat, NEW j \in Nat, NEW f, NEW g, Right(k, f), Right(j, g)
      PROVE  \A n \in I : rank[n] < k /\ rank[n] < j => f[n] = g[n]
  <2> DEFINE odd == {n \in I : rank[n] < k /\ rank[n] < j /\ f[n] # g[n]}
  <2>1. ASSUME NEW n \in odd PROVE \E m \in odd : rank[m] < rank[n]
    <3>1. f[n] = Value(n, f) /\ g[n] = Value(n, g)
      BY <1>4, <2>1 DEF Right
    <3>2. n \in inner
      BY <2>1, <3>1
    <3>3. up[n] \in I /\ rank[up[n]] \in Nat /\ rank[n] \in Nat /\ rank[up[n]] < rank[n]
      BY <3>2
    <3>4. rank[up[n]] < k /\ rank[up[n]] < j
      BY <2>1, <3>3
    <3>5. up[n] \in odd
      BY <2>1, <3>1, <3>2, <3>3, <3>4
    <3> QED
      BY <3>3, <3>5
  <2> HIDE DEF odd
  <2>2. odd \subseteq I
    BY DEF odd
  <2>3. odd = {}
    BY <2>1, <2>2, NoLowest
  <2> QED
    BY <2>3 DEF odd
<1> DEFINE upto == [k \in Nat |-> CHOOSE f : Right(k, f)]
           all == [n \in I |-> upto[rank[n] + 1][n]]
<1>5. \A k \in Nat : Right(k, upto[k])
  BY <1>3
<1> HIDE DEF upto
<1>6. ASSUME NEW n \in I PROVE all[n] \in V /\ all[n] = Value(n, all)
  <2>1. rank[n] \in Nat /\ rank[n] + 1 \in Nat /\ rank[n] < rank[n] + 1
    OBVIOUS
  <2> DEFINE f == upto[rank[n] + 1]
  <2>2. Right(rank[n] + 1, f)
    BY <1>5, <2>1
  <2>3. f \in [I -> V] /\ f[n] = Value(n, f) /\ all[n] = f[n]
    BY <2>1, <2>2 DEF Right
  <2>4. CASE n \in inner
    <3>1. up[n] \in I /\ rank[up[n]] \in Nat /\ rank[up[n]] < rank[n]
      BY <2>4
    <3> DEFINE g == upto[rank[up[n]] + 1]
    <3>2. rank[up[n]] + 1 \in Nat /\ rank[up[n]] < rank[up[n]] + 1 /\ rank[up[n]] < rank[n] + 1
      BY <2>1, <3>1
    <3>3. Right(rank[up[n]] + 1, g)
      BY <1>5, <3>2
    <3>4. all[up[n]] = g[up[n]]
      BY <3>1
    <3> HIDE DEF f, g, all
    <3>5. f[up[n]] = g[up[n]]
      BY <1>4, <2>1, <2>2, <3>1, <3>2, <3>3
    <3> QED
      BY <2>3, <2>4, <3>4, <3>5
  <2> QED
    BY <2>3, <2>4
<1> QED
  BY <1>6 DEF Follows

Kinds ==
  [parent |-> (Ids \ Members) \cup {Nobody}, path |-> Seq(Ids), active |-> BOOLEAN, invite |-> BOOLEAN,
   ownRight |-> Rights \cup {Inherit}, effRight |-> Rights,
   ownTool |-> Tools \cup {Inherit}, effTool |-> Tools]

\* Columns of one forest, with values of their kinds.
Formed(d) ==
  /\ DOMAIN d = Columns /\ Forest(d)
  /\ \A c \in RowColumns : DOMAIN d[c] = Rows(d) /\ \A n \in Rows(d) : d[c][n] \in Kinds[c]
  /\ DOMAIN d.default = {"slot"} /\ d.default["slot"] \in Tools

LEMMA FormedIs ==
  ASSUME NEW d, Formed(d)
  PROVE  /\ Nobody \notin Rows(d) /\ Rows(d) \subseteq Ids /\ d.default["slot"] \in Tools
         /\ \A n \in Rows(d) :
              /\ d.parent[n] \in (Rows(d) \ Members) \cup {Nobody} /\ d.path[n] \in Seq(Ids)
              /\ d.active[n] \in BOOLEAN /\ d.invite[n] \in BOOLEAN
              /\ d.ownRight[n] \in Rights \cup {Inherit} /\ d.effRight[n] \in Rights
              /\ d.ownTool[n] \in Tools \cup {Inherit} /\ d.effTool[n] \in Tools
<1>1. Nobody \notin Rows(d) /\ Rows(d) \subseteq Ids /\ d.default["slot"] \in Tools
  BY TreeAssumption DEF Formed, Forest
<1>2. ASSUME NEW n \in Rows(d)
      PROVE  /\ d.parent[n] \in (Ids \ Members) \cup {Nobody} /\ d.path[n] \in Seq(Ids)
             /\ d.active[n] \in BOOLEAN /\ d.invite[n] \in BOOLEAN
             /\ d.ownRight[n] \in Rights \cup {Inherit} /\ d.effRight[n] \in Rights
             /\ d.ownTool[n] \in Tools \cup {Inherit} /\ d.effTool[n] \in Tools
  BY DEF Formed, RowColumns, Kinds
<1>3. ASSUME NEW n \in Rows(d) PROVE d.parent[n] \in Rows(d) \cup {Nobody}
  BY DEF Formed, Forest
<1> QED
  BY <1>1, <1>2, <1>3

\* The parents that the pass below top has already left when it comes to n.
Seen(d, top, n) == d.parent[n] \in Below(d, top) /\ S!IsStrictPrefix(d.path[d.parent[n]], d.path[n])

LEMMA SeenIsShorter ==
  ASSUME NEW d, Formed(d), NEW top, NEW n \in Below(d, top), Seen(d, top, n)
  PROVE  /\ d.parent[n] \in Below(d, top) /\ d.parent[n] # Nobody
         /\ Len(d.path[d.parent[n]]) < Len(d.path[n])
<1> DEFINE s == d.path[d.parent[n]]
           t == d.path[n]
<1>1. n \in Rows(d) /\ d.parent[n] \in Below(d, top) /\ d.parent[n] \in Rows(d)
  BY DEF Below, Seen
<1>2. s \in Seq(Ids) /\ t \in Seq(Ids) /\ d.parent[n] # Nobody
  BY <1>1, FormedIs
<1>3. Len(s) <= Len(t) /\ SubSeq(s, 1, Len(s)) = SubSeq(t, 1, Len(s)) /\ s # t
  BY DEF Seen, S!IsStrictPrefix, S!IsPrefix
<1> HIDE DEF s, t
<1>4. Len(s) \in Nat /\ Len(t) \in Nat
  BY <1>2, LenProperties
<1>5. Len(s) # Len(t)
  <2>1. SUFFICES ASSUME Len(s) = Len(t) PROVE FALSE
    OBVIOUS
  <2>2. ASSUME NEW i \in 1..Len(s) PROVE s[i] = t[i]
    <3>1. SubSeq(s, 1, Len(s))[i] = s[i] /\ SubSeq(t, 1, Len(s))[i] = t[i]
      BY <1>2, <1>4, <2>1
    <3> QED
      BY <3>1, <1>3
  <2> QED
    BY <1>2, <1>3, <2>1, <2>2, SeqEqual
<1> QED
  BY <1>1, <1>2, <1>3, <1>4, <1>5 DEF s, t

LEMMA NarrowedIsRight ==
  ASSUME NEW own \in Rights \cup {Inherit}, NEW v \in Rights, NEW root \in BOOLEAN
  PROVE  Narrowed(own, v, root) \in Rights
BY DEF Narrowed

LEMMA RightFromIsRight ==
  ASSUME NEW d, Formed(d), NEW n \in Rows(d), NEW up, d.parent[n] # Nobody => up[d.parent[n]] \in Rights
  PROVE  RightFrom(d, n, up) \in Rights
BY FormedIs, NarrowedIsRight, TreeAssumption DEF RightFrom

LEMMA ToolFromIsTool ==
  ASSUME NEW d, Formed(d), NEW n \in Rows(d), NEW up, d.parent[n] # Nobody => up[d.parent[n]] \in Tools
  PROVE  ToolFrom(d, n, up) \in Tools
BY FormedIs DEF ToolFrom, Chosen

RightPass(d, top, f) == [n \in Below(d, top) |-> RightFrom(d, n, IF Seen(d, top, n) THEN f ELSE d.effRight)]
ToolPass(d, top, f) == [n \in Below(d, top) |-> ToolFrom(d, n, IF Seen(d, top, n) THEN f ELSE d.effTool)]

LEMMA RightPassExists ==
  ASSUME NEW d, Formed(d), NEW top
  PROVE  \E f \in [Below(d, top) -> Rights] : f = RightPass(d, top, f)
<1> DEFINE I == Below(d, top)
           inner == {n \in I : Seen(d, top, n)}
           rank == [n \in I |-> Len(d.path[n])]
           step == [n \in I |-> [v \in Rights |-> Narrowed(d.ownRight[n], v, FALSE)]]
           init == [n \in I |-> RightFrom(d, n, d.effRight)]
<1>1. I \subseteq Rows(d)
  BY DEF Below
<1>2. rank \in [I -> Nat]
  BY <1>1, FormedIs, LenProperties
<1>3. \A n \in inner : d.parent[n] \in I /\ d.parent[n] # Nobody /\ rank[d.parent[n]] < rank[n]
  BY SeenIsShorter
<1>4. step \in [I -> [Rights -> Rights]]
  BY <1>1, FormedIs, NarrowedIsRight
<1>5. init \in [I -> Rights]
  <2>1. ASSUME NEW n \in I PROVE RightFrom(d, n, d.effRight) \in Rights
    BY <1>1, FormedIs, RightFromIsRight
  <2> QED
    BY <2>1
<1>6. ASSUME NEW f \in [I -> Rights], NEW n \in inner
      PROVE  step[n][f[d.parent[n]]] = RightFrom(d, n, f)
  BY <1>3 DEF RightFrom
<1>7. ASSUME NEW f \in [I -> Rights], \A n \in I : f[n] = IF n \in inner THEN step[n][f[d.parent[n]]] ELSE init[n]
      PROVE  f = RightPass(d, top, f)
  <2>1. ASSUME NEW n \in I PROVE f[n] = RightFrom(d, n, IF Seen(d, top, n) THEN f ELSE d.effRight)
    BY <1>6, <1>7
  <2> QED
    BY <2>1 DEF RightPass
<1>8. inner \subseteq I
  OBVIOUS
<1> DEFINE up == d.parent
<1> HIDE DEF I, inner, rank, step, init, up
<1>a. \A n \in inner : up[n] \in I /\ rank[up[n]] < rank[n]
  BY <1>3 DEF up
<1>b. Descent(I, Rights, rank, inner, up, step, init)
  BY <1>2, <1>4, <1>5, <1>8, <1>a DEF Descent
<1>9. \E f \in [I -> Rights] : Follows(f, I, inner, up, step, init)
  BY <1>b, RecursionExists, Zenon
<1> QED
  BY <1>7, <1>9 DEF I, up, Follows

LEMMA ToolPassExists ==
  ASSUME NEW d, Formed(d), NEW top
  PROVE  \E f \in [Below(d, top) -> Tools] : f = ToolPass(d, top, f)
<1> DEFINE I == Below(d, top)
           inner == {n \in I : Seen(d, top, n)}
           rank == [n \in I |-> Len(d.path[n])]
           step == [n \in I |-> [v \in Tools |-> Chosen(d.ownTool[n], v)]]
           init == [n \in I |-> ToolFrom(d, n, d.effTool)]
<1>1. I \subseteq Rows(d)
  BY DEF Below
<1>2. rank \in [I -> Nat]
  BY <1>1, FormedIs, LenProperties
<1>3. \A n \in inner : d.parent[n] \in I /\ d.parent[n] # Nobody /\ rank[d.parent[n]] < rank[n]
  BY SeenIsShorter
<1>4. step \in [I -> [Tools -> Tools]]
  BY <1>1, FormedIs DEF Chosen
<1>5. init \in [I -> Tools]
  <2>1. ASSUME NEW n \in I PROVE ToolFrom(d, n, d.effTool) \in Tools
    BY <1>1, FormedIs, ToolFromIsTool
  <2> QED
    BY <2>1
<1>6. ASSUME NEW f \in [I -> Tools], NEW n \in inner
      PROVE  step[n][f[d.parent[n]]] = ToolFrom(d, n, f)
  BY <1>3 DEF ToolFrom
<1>7. ASSUME NEW f \in [I -> Tools], \A n \in I : f[n] = IF n \in inner THEN step[n][f[d.parent[n]]] ELSE init[n]
      PROVE  f = ToolPass(d, top, f)
  <2>1. ASSUME NEW n \in I PROVE f[n] = ToolFrom(d, n, IF Seen(d, top, n) THEN f ELSE d.effTool)
    BY <1>6, <1>7
  <2> QED
    BY <2>1 DEF ToolPass
<1>8. inner \subseteq I
  OBVIOUS
<1> DEFINE up == d.parent
<1> HIDE DEF I, inner, rank, step, init, up
<1>a. \A n \in inner : up[n] \in I /\ rank[up[n]] < rank[n]
  BY <1>3 DEF up
<1>b. Descent(I, Tools, rank, inner, up, step, init)
  BY <1>2, <1>4, <1>5, <1>8, <1>a DEF Descent
<1>9. \E f \in [I -> Tools] : Follows(f, I, inner, up, step, init)
  BY <1>b, RecursionExists, Zenon
<1> QED
  BY <1>7, <1>9 DEF I, up, Follows

\* The two recursive functions of the pass are what their definitions say:
\* functions that fit exist, and CHOOSE takes one of them.
LEMMA RecomputedFits ==
  ASSUME NEW d, Formed(d), NEW top
  PROVE  LET v == Recomputed(d, top) IN
         v.effRight = RightPass(d, top, v.effRight) /\ v.effTool = ToolPass(d, top, v.effTool)
<1>1. \E f : f = [n \in Below(d, top) |-> RightFrom(d, n, IF Seen(d, top, n) THEN f ELSE d.effRight)]
  BY RightPassExists, Zenon DEF RightPass
<1>2. \E f : f = [n \in Below(d, top) |-> ToolFrom(d, n, IF Seen(d, top, n) THEN f ELSE d.effTool)]
  BY ToolPassExists, Zenon DEF ToolPass
<1>3. LET f == Recomputed(d, top).effRight IN
      f = [n \in Below(d, top) |-> RightFrom(d, n, IF Seen(d, top, n) THEN f ELSE d.effRight)]
  BY <1>1, Zenon DEF Recomputed, Seen
<1>4. LET f == Recomputed(d, top).effTool IN
      f = [n \in Below(d, top) |-> ToolFrom(d, n, IF Seen(d, top, n) THEN f ELSE d.effTool)]
  BY <1>2, Zenon DEF Recomputed, Seen
<1> QED
  BY <1>3, <1>4, Zenon DEF RightPass, ToolPass

LEMMA RecomputedIs ==
  ASSUME NEW d, Formed(d), NEW top
  PROVE  LET v == Recomputed(d, top) IN
         /\ DOMAIN v = {"effRight", "effTool"}
         /\ v.effRight \in [Below(d, top) -> Rights] /\ v.effTool \in [Below(d, top) -> Tools]
         /\ \A n \in Below(d, top) :
              /\ v.effRight[n] = RightFrom(d, n, IF Seen(d, top, n) THEN v.effRight ELSE d.effRight)
              /\ v.effTool[n] = ToolFrom(d, n, IF Seen(d, top, n) THEN v.effTool ELSE d.effTool)
<1> DEFINE v == Recomputed(d, top)
<1>1. DOMAIN v = {"effRight", "effTool"}
  BY Zenon DEF Recomputed
<1>2. v.effRight = RightPass(d, top, v.effRight) /\ v.effTool = ToolPass(d, top, v.effTool)
  BY RecomputedFits
<1> HIDE DEF v
<1>3. /\ DOMAIN v.effRight = Below(d, top) /\ DOMAIN v.effTool = Below(d, top)
      /\ v.effRight = [n \in DOMAIN v.effRight |-> v.effRight[n]]
      /\ v.effTool = [n \in DOMAIN v.effTool |-> v.effTool[n]]
      /\ \A n \in Below(d, top) :
           /\ v.effRight[n] = RightFrom(d, n, IF Seen(d, top, n) THEN v.effRight ELSE d.effRight)
           /\ v.effTool[n] = ToolFrom(d, n, IF Seen(d, top, n) THEN v.effTool ELSE d.effTool)
  BY <1>2 DEF RightPass, ToolPass
<1>4. ASSUME NEW n \in Below(d, top), Seen(d, top, n) PROVE d.parent[n] \in Below(d, top)
  BY <1>4 DEF Seen
<1> DEFINE rank == [n \in Below(d, top) |-> Len(d.path[n])]
           odd == {n \in Below(d, top) : v.effRight[n] \notin Rights \/ v.effTool[n] \notin Tools}
<1>5. Below(d, top) \subseteq Rows(d)
  BY DEF Below
<1>6. rank \in [Below(d, top) -> Nat]
  BY <1>5, FormedIs, LenProperties
<1>7. ASSUME NEW n \in odd PROVE \E m \in odd : rank[m] < rank[n]
  <2> DEFINE p == d.parent[n]
  <2>1. n \in Rows(d) /\ (p # Nobody => d.effRight[p] \in Rights /\ d.effTool[p] \in Tools)
    BY <1>5, FormedIs
  <2>2. Seen(d, top, n)
    <3>1. SUFFICES ASSUME ~Seen(d, top, n) PROVE FALSE
      OBVIOUS
    <3>2. v.effRight[n] = RightFrom(d, n, d.effRight) /\ v.effTool[n] = ToolFrom(d, n, d.effTool)
      BY <1>3, <3>1
    <3> QED
      BY <2>1, <3>2, RightFromIsRight, ToolFromIsTool
  <2>3. v.effRight[n] = RightFrom(d, n, v.effRight) /\ v.effTool[n] = ToolFrom(d, n, v.effTool)
    BY <1>3, <2>2
  <2>4. p \in Below(d, top) /\ rank[p] < rank[n]
    BY <2>2, SeenIsShorter
  <2>5. v.effRight[p] \notin Rights \/ v.effTool[p] \notin Tools
    BY <2>1, <2>3, RightFromIsRight, ToolFromIsTool
  <2> QED
    BY <2>4, <2>5
<1>8. odd \subseteq Below(d, top)
  OBVIOUS
<1> HIDE DEF odd, rank
<1>9. odd = {}
  BY <1>6, <1>7, <1>8, NoLowest
<1>10. \A n \in Below(d, top) : v.effRight[n] \in Rights /\ v.effTool[n] \in Tools
  BY <1>9 DEF odd
<1>11. v.effRight \in [Below(d, top) -> Rights] /\ v.effTool \in [Below(d, top) -> Tools]
  BY <1>3, <1>10
<1> QED
  BY <1>1, <1>3, <1>11 DEF v

-----------------------------------------------------------------------------
(* Columns of rows, and writes laid over them.                             *)

LEMMA OverlaidIs ==
  ASSUME NEW d, NEW w
  PROVE  /\ DOMAIN Overlaid(d, w) = Columns
         /\ \A c \in Columns :
              /\ c \notin DOMAIN w => Overlaid(d, w)[c] = d[c]
              /\ c \in DOMAIN w =>
                   /\ DOMAIN Overlaid(d, w)[c] = DOMAIN w[c] \cup DOMAIN d[c]
                   /\ \A x \in DOMAIN w[c] : Overlaid(d, w)[c][x] = w[c][x]
                   /\ \A x \in DOMAIN d[c] \ DOMAIN w[c] : Overlaid(d, w)[c][x] = d[c][x]
BY DEF Overlaid, @@

\* Leaving out what does not change changes nothing.
LEMMA ChangesOverlaid ==
  ASSUME NEW d, NEW w
  PROVE  Overlaid(d, Changes(d, w)) = Overlaid(d, w)
<1> DEFINE u == Changes(d, w)
<1>1. DOMAIN u = DOMAIN w
  BY ChangesAre
<1>2. ASSUME NEW c \in DOMAIN w PROVE u[c] @@ d[c] = w[c] @@ d[c]
  <2>1. /\ DOMAIN u[c] = {n \in DOMAIN w[c] : n \notin DOMAIN d[c] \/ w[c][n] # d[c][n]}
        /\ \A n \in DOMAIN u[c] : u[c][n] = w[c][n]
    BY ChangesAre
  <2> HIDE DEF u
  <2>2. DOMAIN u[c] \cup DOMAIN d[c] = DOMAIN w[c] \cup DOMAIN d[c]
    BY <2>1
  <2>3. \A x \in DOMAIN w[c] \cup DOMAIN d[c] :
          (IF x \in DOMAIN u[c] THEN u[c][x] ELSE d[c][x]) = (IF x \in DOMAIN w[c] THEN w[c][x] ELSE d[c][x])
    BY <2>1
  <2> QED
    BY <2>2, <2>3 DEF @@
<1> HIDE DEF u
<1> QED
  BY <1>1, <1>2 DEF Overlaid, u

LEMMA OverlaidTwice ==
  ASSUME NEW d, NEW w, NEW v, DOMAIN w \cap DOMAIN v = {}
  PROVE  Overlaid(d, w @@ v) = Overlaid(Overlaid(d, w), v)
<1>1. DOMAIN (w @@ v) = DOMAIN w \cup DOMAIN v
  BY DEF @@
<1>2. \A c \in DOMAIN w : (w @@ v)[c] = w[c]
  BY DEF @@
<1>3. \A c \in DOMAIN v : (w @@ v)[c] = v[c]
  BY DEF @@
<1> DEFINE u == w @@ v
<1> HIDE DEF u
<1>4. \A c \in Columns : (IF c \in DOMAIN u THEN u[c] @@ d[c] ELSE d[c])
        = (IF c \in DOMAIN v THEN v[c] @@ Overlaid(d, w)[c] ELSE Overlaid(d, w)[c])
  BY <1>1, <1>2, <1>3 DEF Overlaid, u
<1> QED
  BY <1>4 DEF Overlaid, u

\* Writes to the rows of R, of the right kinds.
Fits(R, w) ==
  /\ DOMAIN w \subseteq Columns
  /\ \A c \in DOMAIN w \cap RowColumns : DOMAIN w[c] \subseteq R /\ \A n \in DOMAIN w[c] : w[c][n] \in Kinds[c]
  /\ "parent" \in DOMAIN w => \A n \in DOMAIN w["parent"] : w["parent"][n] \in R \cup {Nobody}
  /\ "default" \in DOMAIN w =>
       DOMAIN w["default"] \subseteq {"slot"} /\ \A s \in DOMAIN w["default"] : w["default"][s] \in Tools

\* The writes w make the rows those of R.
Makes(d, w, R) == \A c \in RowColumns : Rows(d) \cup (IF c \in DOMAIN w THEN DOMAIN w[c] ELSE {}) = R

LEMMA OverlaidFormed ==
  ASSUME NEW d, Formed(d), NEW R, R \subseteq Ids, NEW w, Fits(R, w), Makes(d, w, R)
  PROVE  Formed(Overlaid(d, w)) /\ Rows(Overlaid(d, w)) = R
<1> DEFINE e == Overlaid(d, w)
<1>1. DOMAIN e = Columns
  BY OverlaidIs
<1>2. ASSUME NEW c \in RowColumns
      PROVE  /\ DOMAIN e[c] = R
             /\ \A n \in R : IF c \in DOMAIN w /\ n \in DOMAIN w[c] THEN e[c][n] = w[c][n]
                             ELSE n \in Rows(d) /\ e[c][n] = d[c][n]
  <2>1. c \in Columns /\ DOMAIN d[c] = Rows(d)
    BY DEF Columns, Formed
  <2>2. Rows(d) \cup (IF c \in DOMAIN w THEN DOMAIN w[c] ELSE {}) = R
    BY DEF Makes
  <2>3. CASE c \in DOMAIN w
    <3>1. /\ DOMAIN e[c] = DOMAIN w[c] \cup DOMAIN d[c]
          /\ \A x \in DOMAIN w[c] : e[c][x] = w[c][x]
          /\ \A x \in DOMAIN d[c] \ DOMAIN w[c] : e[c][x] = d[c][x]
      BY <2>1, <2>3, OverlaidIs
    <3> QED
      BY <2>1, <2>2, <2>3, <3>1
  <2>4. CASE c \notin DOMAIN w
    BY <2>1, <2>2, <2>4, OverlaidIs
  <2> QED
    BY <2>3, <2>4
<1> HIDE DEF e
<1>3. Rows(e) = R
  BY <1>2 DEF Rows, RowColumns
<1>4. ASSUME NEW c \in RowColumns, NEW n \in R PROVE e[c][n] \in Kinds[c]
  BY <1>2 DEF Formed, Fits
<1>5. ASSUME NEW n \in R PROVE e.parent[n] \in R \cup {Nobody}
  <2>1. "parent" \in RowColumns
    BY DEF RowColumns
  <2>2. Rows(d) \subseteq R
    BY <2>1 DEF Makes
  <2> QED
    BY <1>2, <2>1, <2>2 DEF Fits, Formed, Forest
<1>6. DOMAIN e.default = {"slot"} /\ e.default["slot"] \in Tools
  <2>1. "default" \in Columns
    BY DEF Columns
  <2>2. "default" \notin DOMAIN w => e.default = d.default
    BY <2>1, OverlaidIs DEF e
  <2>3. "default" \in DOMAIN w =>
                   /\ DOMAIN e["default"] = DOMAIN w["default"] \cup DOMAIN d["default"]
                   /\ \A x \in DOMAIN w["default"] : e["default"][x] = w["default"][x]
                   /\ \A x \in DOMAIN d["default"] \ DOMAIN w["default"] : e["default"][x] = d["default"][x]
    BY <2>1, OverlaidIs DEF e
  <2> QED
    BY <2>2, <2>3 DEF Formed, Fits
<1>7. Formed(e)
  BY <1>1, <1>2, <1>3, <1>4, <1>5, <1>6 DEF Formed, Forest
<1> QED
  BY <1>3, <1>7 DEF e

\* What decides whether row n is in step is the same in d and in e.
Alike(d, e, n) ==
  /\ d.parent[n] = e.parent[n] /\ d.default["slot"] = e.default["slot"]
  /\ d.ownRight[n] = e.ownRight[n] /\ d.effRight[n] = e.effRight[n]
  /\ d.ownTool[n] = e.ownTool[n] /\ d.effTool[n] = e.effTool[n]
  /\ LET p == e.parent[n] IN
     p # Nobody => d.effRight[p] = e.effRight[p] /\ d.effTool[p] = e.effTool[p]

LEMMA AlikeInStep ==
  ASSUME NEW d, NEW e, NEW n, Alike(d, e, n)
  PROVE  InStep(d, n) <=> InStep(e, n)
BY DEF Alike, InStep, RightFrom, ToolFrom

\* The pass writes the effective columns of the rows below top, and no others.
LEMMA RecomputedFitsRows ==
  ASSUME NEW d, Formed(d), NEW top
  PROVE  Fits(Rows(d), Recomputed(d, top))
<1>1. Below(d, top) \subseteq Rows(d)
  BY DEF Below
<1> DEFINE v == Recomputed(d, top)
<1>2. /\ DOMAIN v = {"effRight", "effTool"}
      /\ v.effRight \in [Below(d, top) -> Rights] /\ v.effTool \in [Below(d, top) -> Tools]
  BY RecomputedIs
<1> HIDE DEF v
<1> QED
  BY <1>1, <1>2 DEF Fits, Columns, RowColumns, Kinds, v

LEMMA SubtreeRecomputed ==
  ASSUME NEW d, Formed(d), Straight(d), NEW top \in Rows(d)
  PROVE  LET e == Overlaid(d, Recomputed(d, top)) IN
         /\ \A m \in Below(d, top) : InStep(e, m)
         /\ \A m \in Rows(d) \ Below(d, top) : InStep(d, m) <=> InStep(e, m)
<1> DEFINE v == Recomputed(d, top)
           e == Overlaid(d, v)
           sub == Below(d, top)
<1>1. /\ DOMAIN v = {"effRight", "effTool"}
      /\ v.effRight \in [sub -> Rights] /\ v.effTool \in [sub -> Tools]
      /\ \A n \in sub :
           /\ v.effRight[n] = RightFrom(d, n, IF Seen(d, top, n) THEN v.effRight ELSE d.effRight)
           /\ v.effTool[n] = ToolFrom(d, n, IF Seen(d, top, n) THEN v.effTool ELSE d.effTool)
  BY RecomputedIs
<1>2. /\ Forest(d) /\ DOMAIN d.effRight = Rows(d) /\ DOMAIN d.effTool = Rows(d)
      /\ Nobody \notin Rows(d) /\ \A n \in Rows(d) : d.parent[n] \in Rows(d) \cup {Nobody}
  BY FormedIs DEF Formed, RowColumns
<1> HIDE DEF v
<1>3. /\ e.parent = d.parent /\ e.ownRight = d.ownRight /\ e.ownTool = d.ownTool /\ e.default = d.default
  BY <1>1, OverlaidIs DEF Columns, RowColumns
<1>4. /\ \A n \in sub : e.effRight[n] = v.effRight[n] /\ e.effTool[n] = v.effTool[n]
      /\ \A n \in Rows(d) \ sub : e.effRight[n] = d.effRight[n] /\ e.effTool[n] = d.effTool[n]
  <2>1. "effRight" \in Columns /\ "effTool" \in Columns
    BY DEF Columns, RowColumns
  <2> QED
    BY <1>1, <1>2, <2>1, OverlaidIs
<1>5. sub \subseteq Rows(d)
  BY DEF Below
<1> HIDE DEF e
<1>6. ASSUME NEW m \in sub PROVE InStep(e, m)
  <2> DEFINE p == d.parent[m]
  <2>1. m \in Rows(d) /\ p \in Rows(d) \cup {Nobody}
    BY <1>2, <1>5
  <2>2. CASE p = Nobody
    BY <1>1, <1>3, <1>4, <2>2 DEF InStep, RightFrom, ToolFrom
  <2>3. CASE p \in sub
    <3>1. p \in Rows(d) /\ p # Nobody
      BY <1>2, <1>5, <2>3
    <3>2. d.path[m] = Append(d.path[p], m) /\ d.path[p] \in Seq(Ids) /\ m \in Ids
      BY <2>1, <3>1, FormedIs DEF Straight, Above
    <3> HIDE DEF p
    <3>3. S!IsPrefix(d.path[p], Append(d.path[p], m)) /\ d.path[p] # Append(d.path[p], m)
      BY <3>2, PrefixOfItself, PrefixOfLonger
    <3>4. Seen(d, top, m)
      BY <2>3, <3>2, <3>3 DEF Seen, S!IsStrictPrefix, p
    <3>5. v.effRight[m] = RightFrom(d, m, v.effRight) /\ v.effTool[m] = ToolFrom(d, m, v.effTool)
      BY <1>1, <3>4
    <3> QED
      BY <1>3, <1>4, <2>3, <3>5 DEF InStep, RightFrom, ToolFrom, p
  <2>4. CASE p \in Rows(d) \ sub
    <3>1. ~Seen(d, top, m)
      BY <2>4 DEF Seen
    <3>2. v.effRight[m] = RightFrom(d, m, d.effRight) /\ v.effTool[m] = ToolFrom(d, m, d.effTool)
      BY <1>1, <3>1
    <3>3. e.effRight[p] = d.effRight[p] /\ e.effTool[p] = d.effTool[p]
      BY <1>4, <2>4
    <3> QED
      BY <1>3, <1>4, <3>2, <3>3 DEF InStep, RightFrom, ToolFrom
  <2> QED
    BY <2>1, <2>2, <2>3, <2>4
<1>7. ASSUME NEW m \in Rows(d) \ sub PROVE InStep(d, m) <=> InStep(e, m)
  <2> DEFINE p == d.parent[m]
  <2>1. m # top
    <3>1. top \in sub
      BY PrefixOfItself, FormedIs DEF Below
    <3> QED
      BY <3>1
  <2>2. p \in Rows(d) \cup {Nobody} /\ p \notin sub
    <3>1. m \in Below(d, top) <=> d.parent[m] \in Rows(d) /\ d.parent[m] \in Below(d, top)
      BY <1>2, <2>1, BelowIsInherited
    <3>2. d.parent[m] \in Rows(d) \cup {Nobody} /\ Nobody \notin Below(d, top)
      BY <1>2, <1>5
    <3> QED
      BY <3>1, <3>2
  <2>3. p # Nobody => e.effRight[p] = d.effRight[p] /\ e.effTool[p] = d.effTool[p]
    BY <1>4, <2>2
  <2>4. Alike(d, e, m)
    BY <1>3, <1>4, <2>3 DEF Alike
  <2> QED
    BY <2>4, AlikeInStep
<1> QED
  BY <1>6, <1>7 DEF e, v

-----------------------------------------------------------------------------
(* Everything in step: what a cascade has to leave behind.                 *)

AllInStep(d) == \A n \in Rows(d) : InStep(d, n)

LEMMA FitsBoth ==
  ASSUME NEW R, NEW w, NEW v, Fits(R, w), Fits(R, v)
  PROVE  Fits(R, w @@ v)
<1> DEFINE u == w @@ v
<1>1. DOMAIN u = DOMAIN w \cup DOMAIN v /\ \A c \in DOMAIN u : u[c] = IF c \in DOMAIN w THEN w[c] ELSE v[c]
  BY DEF @@
<1> HIDE DEF u
<1> QED
  BY <1>1 DEF Fits, u

LEMMA FitsChanges ==
  ASSUME NEW d, NEW R, NEW w, Fits(R, w)
  PROVE  Fits(R, Changes(d, w))
<1> DEFINE u == Changes(d, w)
<1>1. /\ DOMAIN u = DOMAIN w
      /\ \A c \in DOMAIN w : DOMAIN u[c] \subseteq DOMAIN w[c] /\ \A n \in DOMAIN u[c] : u[c][n] = w[c][n]
  BY ChangesAre
<1> HIDE DEF u
<1>2. \A c \in DOMAIN u \cap RowColumns : DOMAIN u[c] \subseteq R /\ \A n \in DOMAIN u[c] : u[c][n] \in Kinds[c]
  BY <1>1 DEF Fits
<1>3. "parent" \in DOMAIN u => \A n \in DOMAIN u["parent"] : u["parent"][n] \in R \cup {Nobody}
  BY <1>1 DEF Fits
<1>4. "default" \in DOMAIN u =>
       DOMAIN u["default"] \subseteq {"slot"} /\ \A s \in DOMAIN u["default"] : u["default"][s] \in Tools
  BY <1>1 DEF Fits
<1> QED
  BY <1>1, <1>2, <1>3, <1>4 DEF Fits, u

\* A cascade below n that follows from what is written to n, and to paths.
LEMMA CascadeFollows ==
  ASSUME Formed(db), NEW n \in Rows(db), NEW w, Fits(Rows(db), w),
         DOMAIN w \subseteq {"parent", "path", "ownRight", "ownTool"},
         \A c \in DOMAIN w \ {"path"} : DOMAIN w[c] \subseteq {n}
  PROVE  LET d == Overlaid(db, w)
             e == Overlaid(db, WithCascade(w, n))
         IN  /\ Fits(Rows(db), WithCascade(w, n))
             /\ Straight(d) => /\ \A m \in Below(d, n) : InStep(e, m)
                               /\ AllInStep(db) => AllInStep(e)
<1> DEFINE d == Overlaid(db, w)
           v == Recomputed(d, n)
           e == Overlaid(d, v)
<1>1. Makes(db, w, Rows(db)) /\ Rows(db) \subseteq Ids
  BY FormedIs DEF Makes, Fits
<1>2. Formed(d) /\ Rows(d) = Rows(db)
  BY <1>1, OverlaidFormed
<1>3. WithCascade(w, n) = w @@ v
  BY DEF WithCascade
<1>4. Fits(Rows(db), v)
  <2> HIDE DEF d
  <2> QED
    BY <1>2, RecomputedFitsRows
<1>5. Fits(Rows(db), WithCascade(w, n))
  <2> HIDE DEF v
  <2> QED
    BY <1>3, <1>4, FitsBoth
<1>6. Overlaid(db, WithCascade(w, n)) = e
  <2>1. DOMAIN w \cap DOMAIN v = {}
    <3> HIDE DEF d
    <3>1. DOMAIN v = {"effRight", "effTool"}
      BY <1>2, RecomputedIs
    <3> QED
      BY <3>1
  <2> HIDE DEF v
  <2> QED
    BY <1>3, <2>1, OverlaidTwice
<1>7. ASSUME NEW m \in Rows(db) \ {n} PROVE Alike(db, d, m)
  <2>1. /\ \A c \in Columns : c \notin DOMAIN w => d[c] = db[c]
        /\ \A c \in Columns : c \in DOMAIN w => \A x \in DOMAIN db[c] \ DOMAIN w[c] : d[c][x] = db[c][x]
    BY OverlaidIs
  <2> HIDE DEF d
  <2>2. ASSUME NEW c \in {"parent", "ownRight", "ownTool"} PROVE d[c][m] = db[c][m]
    <3>1. c \in Columns /\ m \in DOMAIN db[c]
      BY DEF Columns, RowColumns, Formed
    <3> QED
      BY <2>1, <3>1
  <2>3. d.default = db.default /\ d.effRight = db.effRight /\ d.effTool = db.effTool
    BY <2>1 DEF Columns, RowColumns
  <2>4. d.parent[m] = db.parent[m] /\ d.ownRight[m] = db.ownRight[m] /\ d.ownTool[m] = db.ownTool[m]
    BY <2>2
  <2> QED
    BY <2>3, <2>4 DEF Alike
<1> HIDE DEF d
<1>8. ASSUME Straight(d)
      PROVE  (\A m \in Below(d, n) : InStep(e, m)) /\ (AllInStep(db) => AllInStep(e))
  <2>1. /\ \A m \in Below(d, n) : InStep(e, m)
        /\ \A m \in Rows(d) \ Below(d, n) : InStep(d, m) <=> InStep(e, m)
    BY <1>2, <1>8, SubtreeRecomputed
  <2>2. n \in Below(d, n)
    BY <1>2, PrefixOfItself, FormedIs DEF Below
  <2>3. Rows(e) = Rows(d)
    <3>1. "parent" \in Columns /\ "parent" \notin DOMAIN v
      BY <1>2, RecomputedIs DEF Columns, RowColumns
    <3> HIDE DEF v
    <3> QED
      BY <3>1, OverlaidIs DEF Rows
  <2> HIDE DEF e
  <2>4. ASSUME AllInStep(db), NEW m \in Rows(db) \ Below(d, n) PROVE InStep(e, m)
    <3>1. InStep(db, m) /\ Alike(db, d, m)
      BY <1>7, <2>2, <2>4 DEF AllInStep
    <3> QED
      BY <1>2, <2>1, <3>1, AlikeInStep
  <2> QED
    BY <1>2, <2>1, <2>3, <2>4 DEF AllInStep
<1> QED
  BY <1>5, <1>6, <1>8 DEF d

LEMMA EveryRowHasARoot ==
  ASSUME NEW d, Formed(d), Straight(d), NEW m \in Rows(d)
  PROVE  \E n \in Rows(d) : d.parent[n] = Nobody /\ m \in Below(d, n)
<1> DEFINE rank == [x \in Rows(d) |-> Len(d.path[x])]
           odd == {x \in Rows(d) : ~\E n \in Rows(d) : d.parent[n] = Nobody /\ x \in Below(d, n)}
<1>1. rank \in [Rows(d) -> Nat]
  BY FormedIs, LenProperties
<1>2. ASSUME NEW x \in odd PROVE \E y \in odd : rank[y] < rank[x]
  <2> DEFINE p == d.parent[x]
  <2>1. x \in Rows(d) /\ x \in Below(d, x)
    BY PrefixOfItself, FormedIs DEF Below
  <2>2. p \in Rows(d)
    BY <2>1, FormedIs
  <2>3. d.path[x] = Append(d.path[p], x) /\ d.path[p] \in Seq(Ids)
    BY <2>1, <2>2, FormedIs DEF Straight, Above
  <2>4. rank[p] < rank[x]
    <3> HIDE DEF p
    <3>1. Len(d.path[x]) = Len(d.path[p]) + 1 /\ Len(d.path[p]) \in Nat
      BY <2>3, AppendProperties, LenProperties
    <3> QED
      BY <2>1, <2>2, <3>1
  <2>5. p \in odd
    <3>1. SUFFICES ASSUME NEW n \in Rows(d), d.parent[n] = Nobody, p \in Below(d, n) PROVE FALSE
      BY <2>2
    <3>2. x # n
      BY <2>2, <3>1, FormedIs
    <3>3. x \in Below(d, n)
      BY <2>1, <2>2, <3>1, <3>2, BelowIsInherited DEF Formed
    <3> QED
      BY <3>1, <3>3
  <2> QED
    BY <2>4, <2>5
<1>3. odd \subseteq Rows(d)
  OBVIOUS
<1> HIDE DEF odd, rank
<1>4. odd = {}
  BY <1>1, <1>2, <1>3, NoLowest
<1> QED
  BY <1>4 DEF odd

\* A row has the roots of its parent.
LEMMA RootsInherited ==
  ASSUME NEW d, Formed(d), Straight(d), NEW m \in Rows(d), d.parent[m] # Nobody,
         NEW n \in Rows(d), d.parent[n] = Nobody
  PROVE  m \in Below(d, n) <=> d.parent[m] \in Below(d, n)
<1>1. m # n /\ d.parent[m] \in Rows(d) /\ Forest(d)
  BY FormedIs DEF Formed
<1>2. m \in Below(d, n) <=> d.parent[m] \in Rows(d) /\ d.parent[m] \in Below(d, n)
  BY <1>1, BelowIsInherited
<1> QED
  BY <1>1, <1>2

RootsOf(d, m) == {n \in Rows(d) : d.parent[n] = Nobody /\ m \in Below(d, n)}
RootOf(d, m) == CHOOSE n \in RootsOf(d, m) : TRUE

LEMMA FromRootsIs ==
  ASSUME NEW d
  PROVE  LET v == RecomputedFromRoots(d)
             ids == {m \in Rows(d) : RootsOf(d, m) # {}}
         IN  /\ DOMAIN v = {"effRight", "effTool"}
             /\ v.effRight = [m \in ids |-> Recomputed(d, RootOf(d, m)).effRight[m]]
             /\ v.effTool = [m \in ids |-> Recomputed(d, RootOf(d, m)).effTool[m]]
<1> DEFINE top == {m \in Rows(d) : d.parent[m] = Nobody}
           of == [n \in top |-> Recomputed(d, n)]
           roots(m) == {n \in DOMAIN of : m \in Below(d, n)}
           ids == {m \in Rows(d) : roots(m) # {}}
           Root(m) == CHOOSE n \in roots(m) : TRUE
<1>1. RecomputedFromRoots(d) =
        [effRight |-> [m \in ids |-> of[Root(m)].effRight[m]],
         effTool |-> [m \in ids |-> of[Root(m)].effTool[m]]]
  BY Zenon DEF RecomputedFromRoots
<1>2. \A m : roots(m) = RootsOf(d, m)
  BY DEF RootsOf
<1>3. \A m : Root(m) = RootOf(d, m)
  <2> HIDE DEF roots
  <2> QED
    BY <1>2, Zenon DEF RootOf
<1>4. ASSUME NEW m \in ids PROVE of[Root(m)] = Recomputed(d, RootOf(d, m))
  <2>1. RootOf(d, m) \in RootsOf(d, m)
    BY <1>2 DEF RootOf
  <2> HIDE DEF roots, Root
  <2>2. Root(m) = RootOf(d, m) /\ RootOf(d, m) \in top
    BY <1>3, <2>1 DEF RootsOf
  <2> QED
    BY <2>2
<1>5. ids = {m \in Rows(d) : RootsOf(d, m) # {}}
  BY <1>2
<1> HIDE DEF ids, of, Root, roots
<1> QED
  BY <1>1, <1>4, <1>5

LEMMA RootsRecomputed ==
  ASSUME NEW d, Formed(d)
  PROVE  /\ Fits(Rows(d), RecomputedFromRoots(d))
         /\ Straight(d) => AllInStep(Overlaid(d, RecomputedFromRoots(d)))
<1> DEFINE v == RecomputedFromRoots(d)
           e == Overlaid(d, v)
           ids == {m \in Rows(d) : RootsOf(d, m) # {}}
           Pass(m) == Recomputed(d, RootOf(d, m))
<1>1. /\ DOMAIN v = {"effRight", "effTool"} /\ DOMAIN v.effRight = ids /\ DOMAIN v.effTool = ids
      /\ \A m \in ids : v.effRight[m] = Pass(m).effRight[m] /\ v.effTool[m] = Pass(m).effTool[m]
  <2>1. /\ DOMAIN v = {"effRight", "effTool"}
        /\ v.effRight = [m \in ids |-> Pass(m).effRight[m]]
        /\ v.effTool = [m \in ids |-> Pass(m).effTool[m]]
    BY FromRootsIs, Zenon
  <2> HIDE DEF v, ids, Pass
  <2> QED
    BY <2>1
<1>2. ASSUME NEW m \in ids
      PROVE  LET n == RootOf(d, m) IN
             /\ n \in Rows(d) /\ d.parent[n] = Nobody /\ m \in Below(d, n)
             /\ \A x \in Below(d, n) : Pass(m).effRight[x] \in Rights /\ Pass(m).effTool[x] \in Tools
             /\ \A x \in Below(d, n) :
                  /\ Pass(m).effRight[x] = RightFrom(d, x, IF Seen(d, n, x) THEN Pass(m).effRight ELSE d.effRight)
                  /\ Pass(m).effTool[x] = ToolFrom(d, x, IF Seen(d, n, x) THEN Pass(m).effTool ELSE d.effTool)
  <2> DEFINE n == RootOf(d, m)
  <2>1. n \in RootsOf(d, m)
    BY DEF RootOf
  <2>2. n \in Rows(d) /\ d.parent[n] = Nobody /\ m \in Below(d, n)
    BY <2>1 DEF RootsOf
  <2> HIDE DEF n
  <2> DEFINE u == Recomputed(d, n)
  <2>3. /\ u.effRight \in [Below(d, n) -> Rights] /\ u.effTool \in [Below(d, n) -> Tools]
        /\ \A x \in Below(d, n) :
             /\ u.effRight[x] = RightFrom(d, x, IF Seen(d, n, x) THEN u.effRight ELSE d.effRight)
             /\ u.effTool[x] = ToolFrom(d, x, IF Seen(d, n, x) THEN u.effTool ELSE d.effTool)
    BY RecomputedIs
  <2> HIDE DEF u
  <2>4. \A x \in Below(d, n) : u.effRight[x] \in Rights /\ u.effTool[x] \in Tools
    BY <2>3
  <2> QED
    BY <2>2, <2>3, <2>4 DEF u, n
<1> HIDE DEF v, Pass
<1>3. Fits(Rows(d), v)
  <2>1. \A m \in ids : v.effRight[m] \in Rights /\ v.effTool[m] \in Tools
    BY <1>1, <1>2
  <2> HIDE DEF ids
  <2>2. ids \subseteq Rows(d)
    BY DEF ids
  <2> QED
    BY <1>1, <2>1, <2>2 DEF Fits, Columns, RowColumns, Kinds
<1>4. ASSUME Straight(d) PROVE AllInStep(e)
  <2>1. /\ e.parent = d.parent /\ e.ownRight = d.ownRight /\ e.ownTool = d.ownTool /\ e.default = d.default
    BY <1>1, OverlaidIs DEF Columns, RowColumns
  <2>2. ids = Rows(d)
    BY <1>4, EveryRowHasARoot DEF RootsOf
  <2>3. \A m \in Rows(d) : e.effRight[m] = v.effRight[m] /\ e.effTool[m] = v.effTool[m]
    <3>1. "effRight" \in Columns /\ "effTool" \in Columns
      BY DEF Columns, RowColumns
    <3> QED
      BY <1>1, <2>2, <3>1, OverlaidIs
  <2> HIDE DEF e
  <2>4. ASSUME NEW m \in Rows(d) PROVE InStep(e, m)
    <3> DEFINE p == d.parent[m]
               n == RootOf(d, m)
    <3>1. p \in Rows(d) \cup {Nobody} /\ Nobody \notin Rows(d)
      BY FormedIs
    <3>2. /\ n \in Rows(d) /\ d.parent[n] = Nobody /\ m \in Below(d, n)
          /\ v.effRight[m] = RightFrom(d, m, IF Seen(d, n, m) THEN Pass(m).effRight ELSE d.effRight)
          /\ v.effTool[m] = ToolFrom(d, m, IF Seen(d, n, m) THEN Pass(m).effTool ELSE d.effTool)
      BY <1>1, <1>2, <2>2
    <3>3. CASE p = Nobody
      BY <2>1, <2>3, <3>2, <3>3 DEF InStep, RightFrom, ToolFrom
    <3>4. CASE p \in Rows(d)
      <4>1. p \in Below(d, n)
        BY <1>4, <3>1, <3>2, <3>4, RootsInherited
      <4>2. Pass(p) = Pass(m)
        <5>1. RootsOf(d, p) = RootsOf(d, m)
          BY <1>4, <3>1, <3>4, RootsInherited DEF RootsOf
        <5> QED
          BY <5>1 DEF Pass, RootOf
      <4>3. d.path[m] = Append(d.path[p], m) /\ d.path[p] \in Seq(Ids) /\ m \in Ids
        BY <1>4, <3>1, <3>4, FormedIs DEF Straight, Above
      <4>4. Seen(d, n, m)
        <5> HIDE DEF p, n
        <5>1. S!IsPrefix(d.path[p], Append(d.path[p], m)) /\ d.path[p] # Append(d.path[p], m)
          BY <4>3, PrefixOfItself, PrefixOfLonger
        <5> QED
          BY <4>1, <4>3, <5>1 DEF Seen, S!IsStrictPrefix, p
      <4>5. /\ v.effRight[m] = RightFrom(d, m, Pass(m).effRight)
            /\ v.effTool[m] = ToolFrom(d, m, Pass(m).effTool)
        BY <3>2, <4>4
      <4>6. e.effRight[p] = Pass(m).effRight[p] /\ e.effTool[p] = Pass(m).effTool[p]
        BY <1>1, <2>2, <2>3, <3>4, <4>2
      <4> QED
        BY <2>1, <2>3, <3>4, <4>5, <4>6 DEF InStep, RightFrom, ToolFrom
    <3> QED
      BY <3>1, <3>3, <3>4
  <2>5. Rows(e) = Rows(d)
    BY <2>1 DEF Rows
  <2> QED
    BY <2>4, <2>5 DEF AllInStep
<1> QED
  BY <1>3, <1>4 DEF v

-----------------------------------------------------------------------------
(* What a request is going to write leaves the rows in step.               *)

TypedPlan(q) ==
  /\ q.over \subseteq Ops /\ q.op \in Ops \cup {"none"}
  /\ q.onto \in Seq(Ids) /\ q.from \in Seq(Ids) /\ q.to \in (Ids \ Members) \cup {Nobody}
  /\ q.op = "create" => /\ Fits(Rows(db) \cup {q.node}, q.w) /\ DOMAIN q.w = RowColumns
                        /\ \A c \in RowColumns : DOMAIN q.w[c] = {q.node}
  /\ q.op # "create" => Fits(Rows(db), q.w)

\* What the rows would be if request q committed now.
After(q) == Overlaid(db, q.w)

\* A request that cascades leaves every row in step, unless another one that
\* cascades has committed since it began; two creations do not disturb each other.
CascadePlan(q) ==
  /\ q.pc = "ready" /\ q.op \in Cascading \ {"create"} /\ q.over \cap Cascading = {} => AllInStep(After(q))
  /\ q.pc = "ready" /\ q.op = "create" /\ q.over \cap Cascading \subseteq {"create"} => InStep(After(q), q.node)
  /\ q.op \in {"deactivate", "rotate"} => DOMAIN q.w \subseteq {"active", "invite"}

HealPlan(q) ==
  q.op \in {"set", "select"} /\ q.pc = "ready" /\ q.over = {} => \A n \in Below(db, q.node) : InStep(After(q), n)

\* Request q, as it has just gone on, is as the invariants below want it.
Settled(q) ==
  /\ TypedPlan(q)
  /\ Straight(db) => HealPlan(q)
  /\ Straight(db) /\ AllInStep(db) => CascadePlan(q)

LEMMA ReadyIs ==
  ASSUME DOMAIN req = Requests, NEW r \in Requests, NEW op, NEW n, NEW w, Ready(r, op, n, w)
  PROVE  LET q == req'[r] IN
         /\ q.pc = "ready" /\ q.op = op /\ q.node = n /\ q.over = {} /\ q.w = Changes(db, w)
         /\ q.onto = <<>> /\ q.from = <<>> /\ q.to = Nobody
<1>1. req'[r] = [pc |-> "ready", op |-> op, node |-> n, w |-> Changes(db, w)] @@ Fresh
  BY DEF Ready, Begin
<1> QED
  BY <1>1 DEF @@, Fresh

LEMMA ReadySettles ==
  ASSUME OpenInv, NEW r \in Requests, NEW op \in Ops \ {"create", "move"}, NEW n, NEW w, Ready(r, op, n, w),
         Fits(Rows(db), w),
         op \in {"set", "select"} /\ Straight(db) => \A m \in Below(db, n) : InStep(Overlaid(db, w), m),
         op \in {"set", "select", "default"} /\ Straight(db) /\ AllInStep(db) => AllInStep(Overlaid(db, w)),
         op \in {"deactivate", "rotate"} => DOMAIN w \subseteq {"active", "invite"}
  PROVE  Settled(req'[r])
<1> DEFINE q == req'[r]
<1>1. /\ q.pc = "ready" /\ q.op = op /\ q.node = n /\ q.over = {} /\ q.w = Changes(db, w)
      /\ q.onto = <<>> /\ q.from = <<>> /\ q.to = Nobody
  BY ReadyIs DEF OpenInv
<1> HIDE DEF q
<1>2. Fits(Rows(db), q.w) /\ After(q) = Overlaid(db, w) /\ DOMAIN q.w = DOMAIN w
  BY <1>1, FitsChanges, ChangesOverlaid, ChangesAre DEF After
<1>3. <<>> \in Seq(Ids)
  BY EmptySeq
<1>4. TypedPlan(q)
  BY <1>1, <1>2, <1>3 DEF TypedPlan
<1>5. op \in {"set", "select", "default", "deactivate", "rotate"}
  BY DEF Ops, Cascading
<1>6. Straight(db) => HealPlan(q)
  BY <1>1, <1>2 DEF HealPlan
<1>7. Straight(db) /\ AllInStep(db) => CascadePlan(q)
  <2>1. op \in {"set", "select", "default"} \/ op \in {"deactivate", "rotate"}
    BY <1>5
  <2>2. /\ Straight(db) /\ AllInStep(db) /\ op \in {"set", "select", "default"} => AllInStep(After(q))
        /\ op \in {"deactivate", "rotate"} => DOMAIN q.w \subseteq {"active", "invite"}
    BY <1>2
  <2>3. op # "create" /\ ("deactivate" \notin Cascading) /\ ("rotate" \notin Cascading)
    BY <1>5 DEF Cascading
  <2> QED
    BY <1>1, <2>1, <2>2, <2>3 DEF CascadePlan
<1> QED
  BY <1>4, <1>6, <1>7 DEF Settled, q

LEMMA OwnSettles ==
  ASSUME Formed(db), OpenInv, NEW r \in Requests, NEW op \in {"set", "select"}, NEW n \in Rows(db), NEW w,
         DOMAIN w \subseteq {"ownRight", "ownTool"}, Fits(Rows(db), w), \A c \in DOMAIN w : DOMAIN w[c] = {n},
         Ready(r, op, n, WithCascade(w, n))
  PROVE  Settled(req'[r])
<1> DEFINE d == Overlaid(db, w)
           all == WithCascade(w, n)
<1>1. d.parent = db.parent /\ d.path = db.path
  BY OverlaidIs DEF Columns, RowColumns
<1> HIDE DEF d
<1>2. Below(d, n) = Below(db, n) /\ (Straight(db) => Straight(d))
  BY <1>1 DEF Below, Rows, Straight, Above
<1>3. /\ Fits(Rows(db), all)
      /\ Straight(d) => /\ \A m \in Below(d, n) : InStep(Overlaid(db, all), m)
                        /\ AllInStep(db) => AllInStep(Overlaid(db, all))
  BY CascadeFollows DEF d
<1> HIDE DEF all
<1>4. op \in Ops \ {"create", "move"} /\ op \notin {"deactivate", "rotate"}
  BY DEF Ops, Cascading
<1>5. Ready(r, op, n, all)
  BY DEF all
<1> QED
  BY <1>2, <1>3, <1>4, <1>5, ReadySettles

LEMMA SetSettles ==
  ASSUME Formed(db), OpenInv, NEW r \in Requests, NEW n, NEW v \in Rights, NEW by, Set(r, n, v, by)
  PROVE  Settled(req'[r])
<1> DEFINE w == [ownRight |-> n :> v]
<1>1. n \in Rows(db) /\ Ready(r, "set", n, WithCascade(w, n))
  BY DEF Set
<1>2. DOMAIN w = {"ownRight"} /\ DOMAIN w.ownRight = {n} /\ w.ownRight[n] = v
  BY DEF :>
<1> HIDE DEF w
<1>3. Fits(Rows(db), w)
  BY <1>1, <1>2 DEF Fits, Columns, RowColumns, Kinds
<1> QED
  BY <1>1, <1>2, <1>3, OwnSettles

LEMMA SelectSettles ==
  ASSUME Formed(db), OpenInv, NEW r \in Requests, NEW n, NEW t \in Tools \cup {Inherit}, NEW by, Select(r, n, t, by)
  PROVE  Settled(req'[r])
<1> DEFINE w == [ownTool |-> n :> t]
<1>1. n \in Rows(db) /\ Ready(r, "select", n, WithCascade(w, n))
  BY DEF Select
<1>2. DOMAIN w = {"ownTool"} /\ DOMAIN w.ownTool = {n} /\ w.ownTool[n] = t
  BY DEF :>
<1> HIDE DEF w
<1>3. Fits(Rows(db), w)
  BY <1>1, <1>2 DEF Fits, Columns, RowColumns, Kinds
<1> QED
  BY <1>1, <1>2, <1>3, OwnSettles

LEMMA DefaultSettles ==
  ASSUME Formed(db), OpenInv, NEW r \in Requests, NEW t \in Tools, SetDefault(r, t)
  PROVE  Settled(req'[r])
<1> DEFINE w == [default |-> "slot" :> t]
           d == Overlaid(db, w)
           v == RecomputedFromRoots(d)
<1>1. Ready(r, "default", Nobody, w @@ v)
  BY DEF SetDefault
<1>2. DOMAIN w = {"default"} /\ DOMAIN w.default = {"slot"} /\ w.default["slot"] = t
  BY DEF :>
<1> HIDE DEF w
<1>3. Fits(Rows(db), w) /\ Makes(db, w, Rows(db)) /\ Rows(db) \subseteq Ids
  BY <1>2, FormedIs DEF Fits, Makes, Columns, RowColumns
<1>4. Formed(d) /\ Rows(d) = Rows(db)
  BY <1>3, OverlaidFormed
<1>5. d.parent = db.parent /\ d.path = db.path
  BY <1>2, OverlaidIs DEF Columns, RowColumns
<1> HIDE DEF d
<1>6. Straight(db) => Straight(d)
  BY <1>5 DEF Rows, Straight, Above
<1>7. Fits(Rows(db), v) /\ (Straight(d) => AllInStep(Overlaid(d, v)))
  BY <1>4, RootsRecomputed
<1>8. DOMAIN v = {"effRight", "effTool"}
  BY FromRootsIs
<1> HIDE DEF v
<1>9. Overlaid(db, w @@ v) = Overlaid(d, v) /\ Fits(Rows(db), w @@ v)
  BY <1>2, <1>3, <1>7, <1>8, OverlaidTwice, FitsBoth DEF d
<1> DEFINE all == w @@ v
<1> HIDE DEF all
<1>10. Ready(r, "default", Nobody, all) /\ Fits(Rows(db), all) /\ (Straight(db) => AllInStep(Overlaid(db, all)))
  BY <1>1, <1>6, <1>7, <1>9 DEF all
<1>11. "default" \in Ops \ {"create", "move"}
  BY DEF Ops, Cascading
<1> QED
  BY <1>10, <1>11, ReadySettles

LEMMA DeactivateSettles ==
  ASSUME Formed(db), OpenInv, NEW r \in Requests, NEW n, Deactivate(r, n)
  PROVE  Settled(req'[r])
<1> DEFINE w == [active |-> [m \in Below(db, n) |-> FALSE], invite |-> n :> FALSE]
<1>1. n \in Rows(db) /\ Ready(r, "deactivate", n, w)
  BY DEF Deactivate, MayDelete
<1>2. /\ DOMAIN w = {"active", "invite"} /\ DOMAIN w.active \subseteq Rows(db) /\ DOMAIN w.invite \subseteq Rows(db)
      /\ \A m \in DOMAIN w.active : w.active[m] = FALSE
      /\ \A m \in DOMAIN w.invite : w.invite[m] = FALSE
  BY <1>1 DEF Below, :>
<1> HIDE DEF w
<1>3. Fits(Rows(db), w)
  <2>1. /\ \A m \in DOMAIN w.active : w.active[m] \in BOOLEAN
        /\ \A m \in DOMAIN w.invite : w.invite[m] \in BOOLEAN
    BY <1>2, Zenon
  <2> QED
    BY <1>2, <2>1 DEF Fits, Columns, RowColumns, Kinds
<1>4. "deactivate" \in Ops \ {"create", "move"}
  BY DEF Ops, Cascading
<1> QED
  BY <1>1, <1>2, <1>3, <1>4, ReadySettles

LEMMA RotateSettles ==
  ASSUME Formed(db), OpenInv, NEW r \in Requests, NEW n, Rotate(r, n)
  PROVE  Settled(req'[r])
<1> DEFINE w == [invite |-> n :> TRUE]
<1>1. n \in Rows(db) /\ Ready(r, "rotate", n, w)
  BY DEF Rotate, GroupRow
<1>2. DOMAIN w = {"invite"} /\ DOMAIN w.invite \subseteq Rows(db) /\ \A m \in DOMAIN w.invite : w.invite[m] = TRUE
  BY <1>1 DEF :>
<1> HIDE DEF w
<1>3. Fits(Rows(db), w)
  <2>1. \A m \in DOMAIN w.invite : w.invite[m] \in BOOLEAN
    BY <1>2, Zenon
  <2> QED
    BY <1>2, <2>1 DEF Fits, Columns, RowColumns, Kinds
<1>4. "rotate" \in Ops \ {"create", "move"}
  BY DEF Ops, Cascading
<1> QED
  BY <1>1, <1>2, <1>3, <1>4, ReadySettles

\* The columns of a new row.
IsNewRow(w, n, p, right, open) ==
  LET root == p = Nobody IN
  /\ DOMAIN w = RowColumns /\ \A c \in RowColumns : DOMAIN w[c] = {n}
  /\ w.parent[n] = p /\ w.path[n] \in Seq(Ids) /\ w.active[n] = TRUE /\ w.invite[n] = open
  /\ w.ownRight[n] = right /\ w.ownTool[n] = Inherit
  /\ w.effRight[n] = Narrowed(right, IF root THEN RootRight ELSE db.effRight[p], root)
  /\ w.effTool[n] = Chosen(Inherit, IF root THEN db.default["slot"] ELSE db.effTool[p])

LEMMA NewRowIs ==
  ASSUME Formed(db), NEW n \in Ids \ Rows(db), NEW p \in (Rows(db) \ Members) \cup {Nobody},
         NEW right \in Rights \cup {Inherit}, NEW open \in BOOLEAN
  PROVE  IsNewRow(NewRow(n, p, right, open), n, p, right, open)
<1> DEFINE base == [parent |-> n :> p,
                    path |-> n :> Append(IF p = Nobody THEN <<>> ELSE db.path[p], n),
                    active |-> n :> TRUE, invite |-> n :> open,
                    ownRight |-> n :> right, ownTool |-> n :> Inherit]
           d == Overlaid(db, base)
           eff == [effRight |-> n :> RightFrom(d, n, db.effRight), effTool |-> n :> ToolFrom(d, n, db.effTool)]
           w == base @@ eff
<1>1. NewRow(n, p, right, open) = w
  BY DEF NewRow
<1>2. /\ DOMAIN base = {"parent", "path", "active", "invite", "ownRight", "ownTool"}
      /\ \A c \in DOMAIN base : DOMAIN base[c] = {n}
      /\ base.parent[n] = p /\ base.active[n] = TRUE /\ base.invite[n] = open
      /\ base.path[n] = Append(IF p = Nobody THEN <<>> ELSE db.path[p], n)
      /\ base.ownRight[n] = right /\ base.ownTool[n] = Inherit
  BY DEF :>
<1> HIDE DEF base
<1>3. d.parent[n] = p /\ d.ownRight[n] = right /\ d.ownTool[n] = Inherit /\ d.default = db.default
  <2>1. {"parent", "ownRight", "ownTool", "default"} \subseteq Columns
    BY DEF Columns, RowColumns
  <2>2. "default" \notin DOMAIN base /\ "parent" \in DOMAIN base /\ "ownRight" \in DOMAIN base /\ "ownTool" \in DOMAIN base
    BY <1>2
  <2> QED
    BY <1>2, <2>1, <2>2, OverlaidIs
<1> HIDE DEF d
<1>4. /\ DOMAIN eff = {"effRight", "effTool"} /\ DOMAIN eff.effRight = {n} /\ DOMAIN eff.effTool = {n}
      /\ eff.effRight[n] = RightFrom(d, n, db.effRight) /\ eff.effTool[n] = ToolFrom(d, n, db.effTool)
  BY DEF :>
<1>5. /\ RightFrom(d, n, db.effRight) = Narrowed(right, IF p = Nobody THEN RootRight ELSE db.effRight[p], p = Nobody)
      /\ ToolFrom(d, n, db.effTool) = Chosen(Inherit, IF p = Nobody THEN db.default["slot"] ELSE db.effTool[p])
  BY <1>3 DEF RightFrom, ToolFrom
<1> HIDE DEF eff
<1>6. DOMAIN w = RowColumns /\ \A c \in RowColumns : w[c] = IF c \in DOMAIN base THEN base[c] ELSE eff[c]
  BY <1>2, <1>4 DEF RowColumns, @@
<1> HIDE DEF w
<1>7. base.path[n] \in Seq(Ids)
  BY <1>2, FormedIs, EmptySeq, AppendProperties
<1>8. \A c \in RowColumns : DOMAIN w[c] = {n}
  BY <1>2, <1>4, <1>6 DEF RowColumns
<1>9. /\ w.parent = base.parent /\ w.path = base.path /\ w.active = base.active /\ w.invite = base.invite
      /\ w.ownRight = base.ownRight /\ w.ownTool = base.ownTool
      /\ w.effRight = eff.effRight /\ w.effTool = eff.effTool
  BY <1>2, <1>6 DEF RowColumns
<1> QED
  BY <1>1, <1>2, <1>4, <1>5, <1>6, <1>7, <1>8, <1>9 DEF IsNewRow

LEMMA CreateSettles ==
  ASSUME Formed(db), OpenInv, NEW r \in Requests, NEW n \in Ids, NEW by, NEW p \in (Rows(db) \ Members) \cup {Nobody},
         NEW right \in Rights \cup {Inherit}, NEW open \in BOOLEAN,
         Create(r, n, by, NewRow(n, p, right, open))
  PROVE  Settled(req'[r])
<1> DEFINE w == NewRow(n, p, right, open)
           q == req'[r]
           root == p = Nobody
<1>1. n \in Ids \ Rows(db) /\ Begin(r, [pc |-> "ready", op |-> "create", node |-> n, by |-> by, w |-> w])
  BY DEF Create, Unused
<1>a. IsNewRow(w, n, p, right, open)
  BY <1>1, NewRowIs
<1> HIDE DEF w
<1>2. /\ DOMAIN w = RowColumns /\ \A c \in RowColumns : DOMAIN w[c] = {n}
      /\ w.parent[n] = p /\ w.path[n] \in Seq(Ids) /\ w.active[n] = TRUE /\ w.invite[n] = open
      /\ w.ownRight[n] = right /\ w.ownTool[n] = Inherit
      /\ w.effRight[n] = Narrowed(right, IF root THEN RootRight ELSE db.effRight[p], root)
      /\ w.effTool[n] = Chosen(Inherit, IF root THEN db.default["slot"] ELSE db.effTool[p])
  BY <1>a DEF IsNewRow
<1>3. q = [pc |-> "ready", op |-> "create", node |-> n, by |-> by, w |-> w] @@ Fresh
  BY <1>1 DEF Begin, OpenInv
<1>4. /\ q.pc = "ready" /\ q.op = "create" /\ q.node = n /\ q.over = {} /\ q.w = w
      /\ q.onto = <<>> /\ q.from = <<>> /\ q.to = Nobody
  BY <1>3 DEF @@, Fresh
<1> HIDE DEF q
<1>5. /\ root => w.effRight[n] \in Rights /\ w.effTool[n] \in Tools
      /\ ~root => w.effRight[n] \in Rights /\ w.effTool[n] \in Tools
  <2>1. /\ (IF root THEN RootRight ELSE db.effRight[p]) \in Rights
        /\ (IF root THEN db.default["slot"] ELSE db.effTool[p]) \in Tools
    BY FormedIs, TreeAssumption
  <2> QED
    BY <1>2, <2>1, NarrowedIsRight DEF Chosen
<1>6. ASSUME NEW c \in RowColumns PROVE w[c][n] \in Kinds[c]
  <2>1. p \in (Ids \ Members) \cup {Nobody}
    BY FormedIs
  <2>2. w.active[n] \in BOOLEAN /\ w.invite[n] \in BOOLEAN
    BY <1>2, Zenon
  <2> QED
    BY <1>2, <1>5, <2>1, <2>2 DEF RowColumns, Kinds
<1>7. Fits(Rows(db) \cup {n}, w)
  <2>1. RowColumns \subseteq Columns /\ "default" \notin RowColumns
    BY DEF Columns, RowColumns
  <2>2. \A m \in DOMAIN w["parent"] : w["parent"][m] \in (Rows(db) \cup {n}) \cup {Nobody}
    BY <1>2 DEF RowColumns
  <2> QED
    BY <1>2, <1>6, <2>1, <2>2 DEF Fits
<1>8. TypedPlan(q)
  <2>1. <<>> \in Seq(Ids)
    BY EmptySeq
  <2> QED
    BY <1>2, <1>4, <1>7, <2>1 DEF TypedPlan, Ops, Cascading
<1>9. InStep(After(q), n)
  <2> DEFINE e == Overlaid(db, w)
  <2>1. RowColumns \subseteq Columns /\ "default" \in Columns /\ "default" \notin RowColumns
    BY DEF Columns, RowColumns
  <2>2. \A c \in RowColumns : e[c][n] = w[c][n] /\ \A m \in Rows(db) : m # n => e[c][m] = db[c][m]
    BY <1>2, <2>1, OverlaidIs DEF Formed
  <2>3. e.default = db.default
    BY <1>2, <2>1, OverlaidIs
  <2> HIDE DEF e
  <2>4. /\ e.parent[n] = p /\ e.ownRight[n] = right /\ e.ownTool[n] = Inherit
        /\ e.effRight[n] = w.effRight[n] /\ e.effTool[n] = w.effTool[n]
    BY <1>2, <2>2 DEF RowColumns
  <2>5. ~root => e.effRight[p] = db.effRight[p] /\ e.effTool[p] = db.effTool[p]
    BY <1>1, <2>2 DEF RowColumns
  <2>6. InStep(e, n)
    BY <1>2, <2>3, <2>4, <2>5 DEF InStep, RightFrom, ToolFrom
  <2> QED
    BY <1>4, <2>6 DEF After, e
<1>10. HealPlan(q) /\ CascadePlan(q)
  BY <1>4, <1>9 DEF HealPlan, CascadePlan
<1> QED
  BY <1>8, <1>10 DEF Settled, q

LEMMA CreationSettles ==
  ASSUME Formed(db), OpenInv, NEW r \in Requests,
         \/ \E n \in Groups : CreateOrg(r, n)
         \/ \E n \in Ids, p \in Groups : CreateByStaff(r, n, p)
         \/ \E n, p \in Groups : CreateCommunity(r, n, p)
         \/ \E n \in Members, p \in Groups : AddMember(r, n, p) \/ RegisterMember(r, n, p)
  PROVE  Settled(req'[r])
<1>0. /\ Inherit \in Rights \cup {Inherit} /\ Top \in Rights \cup {Inherit}
      /\ TRUE \in BOOLEAN /\ FALSE \in BOOLEAN
  <2>1. Top \in Rights
    BY TreeAssumption DEF Rights
  <2> QED
    BY <2>1, Zenon
<1>1. ASSUME NEW n \in Groups, CreateOrg(r, n) PROVE Settled(req'[r])
  BY <1>0, <1>1, CreateSettles DEF CreateOrg, Ids
<1>2. ASSUME NEW n \in Ids, NEW p, CreateByStaff(r, n, p) PROVE Settled(req'[r])
  BY <1>0, <1>2, CreateSettles DEF CreateByStaff, GroupRow
<1>3. ASSUME NEW n \in Groups, NEW p, CreateCommunity(r, n, p) PROVE Settled(req'[r])
  BY <1>0, <1>3, CreateSettles DEF CreateCommunity, OpenedRow, GroupRow, Ids
<1>4. ASSUME NEW n \in Members, NEW p, AddMember(r, n, p) PROVE Settled(req'[r])
  BY <1>0, <1>4, CreateSettles DEF AddMember, GroupRow, Ids
<1>5. ASSUME NEW n \in Members, NEW p, RegisterMember(r, n, p) PROVE Settled(req'[r])
  BY <1>0, <1>5, CreateSettles DEF RegisterMember, Invites, GroupRow, Ids
<1> QED
  BY <1>1, <1>2, <1>3, <1>4, <1>5

LEMMA CheckSettles ==
  ASSUME Formed(db), OpenInv, NEW r \in Requests, NEW n, NEW p, MoveCheck(r, n, p)
  PROVE  Settled(req'[r])
<1> DEFINE new == [pc |-> "checked", op |-> "move", node |-> n, by |-> "staff", to |-> p, onto |-> db.path[p]]
           q == req'[r]
<1>1. n \in Rows(db) /\ p \in Rows(db) \ Members /\ Begin(r, new)
  BY DEF MoveCheck
<1>2. q = new @@ Fresh
  BY <1>1 DEF Begin, OpenInv
<1>3. /\ q.pc = "checked" /\ q.op = "move" /\ q.over = {} /\ DOMAIN q.w = {}
      /\ q.to = p /\ q.onto = db.path[p] /\ q.from = <<>>
  BY <1>2 DEF @@, Fresh
<1> HIDE DEF q
<1>4. <<>> \in Seq(Ids) /\ db.path[p] \in Seq(Ids) /\ p \in Ids \ Members
  BY <1>1, FormedIs, EmptySeq
<1>5. Fits(Rows(db), q.w)
  BY <1>3 DEF Fits
<1>6. TypedPlan(q)
  BY <1>3, <1>4, <1>5 DEF TypedPlan, Ops, Cascading
<1>7. HealPlan(q) /\ CascadePlan(q)
  BY <1>3 DEF HealPlan, CascadePlan
<1> QED
  BY <1>6, <1>7 DEF Settled, q

LEMMA LocateSettles ==
  ASSUME Formed(db), OpenInv, NEW r \in Requests, TypedPlan(req[r]), MoveLocate(r)
  PROVE  Settled(req'[r])
<1> DEFINE q == req'[r]
<1>1. Moving(req[r]) /\ DOMAIN req[r].w = {}
  BY Underway DEF MoveLocate
<1>2. q = [req[r] EXCEPT !.pc = "located", !.from = db.path[req[r].node]] /\ Whole(req[r])
  BY DEF MoveLocate, OpenInv
<1>3. /\ q.pc = "located" /\ q.op = req[r].op /\ q.w = req[r].w /\ q.over = req[r].over /\ q.to = req[r].to
      /\ q.onto = req[r].onto /\ q.from = db.path[req[r].node]
  BY <1>2 DEF Whole
<1> HIDE DEF q
<1>4. db.path[req[r].node] \in Seq(Ids) /\ q.op = "move"
  BY <1>1, <1>3, FormedIs DEF Moving
<1>5. TypedPlan(q)
  BY <1>3, <1>4 DEF TypedPlan
<1>6. HealPlan(q) /\ CascadePlan(q)
  BY <1>3, <1>4 DEF HealPlan, CascadePlan
<1> QED
  BY <1>5, <1>6 DEF Settled, q

LEMMA FailSettles ==
  ASSUME OpenInv, NEW r \in Requests, Fail(r)
  PROVE  Settled(req'[r])
<1>1. req'[r] = Done
  BY DEF Fail, OpenInv
<1>2. TypedPlan(Done)
  BY EmptySeq DEF TypedPlan, Done, Fresh, Fits
<1>3. HealPlan(Done) /\ CascadePlan(Done)
  BY DEF HealPlan, CascadePlan, Done, Fresh
<1> QED
  BY <1>1, <1>2, <1>3 DEF Settled

LEMMA RewriteSettles ==
  ASSUME Formed(db), RowsInv, OpenInv, NEW r \in Requests, TypedPlan(req[r]), MoveRewrite(r)
  PROVE  Settled(req'[r])
<1> DEFINE n == req[r].node
           to == req[r].to
           old == req[r].from
           onto == req[r].onto
           moved == {m \in Rows(db) : S!IsPrefix(old, db.path[m])}
           paths == [m \in moved |-> Append(onto, n) \o SubSeq(db.path[m], Len(old) + 1, Len(db.path[m]))]
           w == [path |-> paths, parent |-> n :> to]
           all == WithCascade(w, n)
           new == [Changes(db, all) EXCEPT !.path = paths]
           d == Overlaid(db, w)
           q == req'[r]
<1>1. /\ Moving(req[r]) /\ req[r].pc = "located" /\ n \in Rows(db) /\ n \in Ids /\ to \in Rows(db)
      /\ onto \in Seq(Ids) /\ old \in Seq(Ids) /\ to \in (Ids \ Members) \cup {Nobody}
      /\ req[r].op = "move" /\ req[r].over \subseteq Ops
  BY Underway, FormedIs DEF MoveRewrite, Moving, TypedPlan
<1>2. q = [req[r] EXCEPT !.pc = "ready", !.w = new] /\ Whole(req[r])
  BY DEF MoveRewrite, OpenInv
<1>3. DOMAIN w = {"path", "parent"} /\ DOMAIN w.parent = {n} /\ w.parent[n] = to /\ w.path = paths
  BY DEF :>
<1>4. /\ DOMAIN paths = moved /\ moved \subseteq Rows(db)
      /\ \A m \in moved : paths[m] \in Seq(Ids)
      /\ req[r].over \cap {"move", "create"} = {} =>
           onto = db.path[to] /\ old = db.path[n] /\ to \notin Below(db, n) /\ paths = NewPaths(n, to)
  <2>1. DOMAIN paths = moved /\ moved \subseteq Rows(db)
    OBVIOUS
  <2>2. ASSUME NEW m \in moved PROVE paths[m] \in Seq(Ids)
    <3>1. paths[m] = Rebased(Append(onto, n), old, db.path[m])
      BY DEF Rebased
    <3>2. Append(onto, n) \in Seq(Ids) /\ db.path[m] \in Seq(Ids)
      BY <1>1, FormedIs, AppendProperties
    <3> HIDE DEF old, onto, n, paths, moved
    <3> QED
      BY <1>1, <3>1, <3>2, RebasedIsAPath
  <2>3. req[r].over \cap {"move", "create"} = {} =>
           onto = db.path[to] /\ old = db.path[n] /\ to \notin Below(db, n)
    BY <1>1 DEF Moving
  <2>4. onto = db.path[to] /\ old = db.path[n] => paths = NewPaths(n, to)
    BY DEF NewPaths, Rebased, Below
  <2> QED
    BY <2>1, <2>2, <2>3, <2>4
<1> HIDE DEF paths, moved
<1> HIDE DEF w, n, to, old, onto
<1>5. Fits(Rows(db), w) /\ \A c \in DOMAIN w \ {"path"} : DOMAIN w[c] \subseteq {n}
  BY <1>1, <1>3, <1>4 DEF Fits, Columns, RowColumns, Kinds
<1>6. /\ Fits(Rows(db), all)
      /\ Straight(d) => (AllInStep(db) => AllInStep(Overlaid(db, all)))
  BY <1>1, <1>3, <1>5, CascadeFollows
<1>7. DOMAIN all = {"path", "parent", "effRight", "effTool"} /\ all.path = paths
  <2>1. DOMAIN all = DOMAIN w \cup {"effRight", "effTool"} /\ \A c \in DOMAIN w : all[c] = w[c]
    BY CascadeWrites
  <2> QED
    BY <1>3, <2>1
<1> HIDE DEF all
<1>8. DOMAIN Changes(db, all) = DOMAIN all /\ Fits(Rows(db), Changes(db, all))
      /\ Overlaid(db, Changes(db, all)) = Overlaid(db, all)
  BY <1>6, ChangesAre, FitsChanges, ChangesOverlaid
<1>9. DOMAIN new = DOMAIN all /\ new.path = paths /\ \A c \in DOMAIN all \ {"path"} : new[c] = Changes(db, all)[c]
  BY <1>7, <1>8
<1> HIDE DEF new
<1>10. Fits(Rows(db), new)
  BY <1>4, <1>7, <1>8, <1>9 DEF Fits, RowColumns, Kinds
<1>11. Overlaid(db, new) = Overlaid(db, all)
  <2>1. \A c \in Columns : (IF c \in DOMAIN new THEN new[c] @@ db[c] ELSE db[c])
                             = Overlaid(db, Changes(db, all))[c]
    <3>1. \A c \in Columns : Overlaid(db, Changes(db, all))[c]
                               = IF c \in DOMAIN all THEN Changes(db, all)[c] @@ db[c] ELSE db[c]
      BY <1>8 DEF Overlaid
    <3>2. Overlaid(db, all)["path"] = paths @@ db["path"]
      BY <1>7 DEF Overlaid, Columns, RowColumns
    <3> QED
      BY <1>7, <1>8, <1>9, <3>1, <3>2
  <2>2. Overlaid(db, Changes(db, all)) = [c \in Columns |-> Overlaid(db, Changes(db, all))[c]]
    BY DEF Overlaid
  <2> QED
    BY <1>8, <2>1, <2>2 DEF Overlaid
<1>12. ASSUME Straight(db), req[r].over \cap {"move", "create"} = {} PROVE Straight(d)
  <2>1. Rows(d) = Rows(db)
    <3>1. Makes(db, w, Rows(db)) /\ Rows(db) \subseteq Ids
      BY <1>5, FormedIs DEF Makes, Fits
    <3> QED
      BY <1>5, <3>1, OverlaidFormed
  <2>2. /\ DOMAIN paths = Below(db, n) /\ paths = NewPaths(n, to) /\ to \notin Below(db, n)
    BY <1>4, <1>12 DEF NewPaths
  <2>3. "path" \in Columns /\ "parent" \in Columns /\ DOMAIN db["path"] = Rows(db) /\ DOMAIN db["parent"] = Rows(db)
    BY DEF Columns, RowColumns, Formed
  <2>4. /\ \A m \in Below(db, n) : d.path[m] = NewPaths(n, to)[m]
        /\ \A m \in Rows(db) \ Below(db, n) : d.path[m] = db.path[m]
        /\ d.parent[n] = to /\ \A m \in Rows(db) \ {n} : d.parent[m] = db.parent[m]
    BY <1>3, <2>2, <2>3, OverlaidIs
  <2> HIDE DEF d
  <2> QED
    BY <1>1, <1>12, <2>1, <2>2, <2>4, MovedTree
<1>13. /\ q.pc = "ready" /\ q.w = new /\ q.op = "move" /\ q.over = req[r].over /\ q.onto = onto
       /\ q.from = old /\ q.to = to
  BY <1>1, <1>2 DEF Whole, onto, old, to
<1> HIDE DEF q
<1>14. TypedPlan(q)
  BY <1>1, <1>10, <1>13 DEF TypedPlan
<1>15. Straight(db) /\ AllInStep(db) => CascadePlan(q)
  <2>1. ASSUME Straight(db), AllInStep(db), q.over \cap Cascading = {} PROVE AllInStep(After(q))
    <3>1. Straight(d)
      BY <1>12, <1>13, <2>1 DEF Cascading
    <3> QED
      BY <1>6, <1>11, <1>13, <2>1, <3>1 DEF After
  <2> QED
    BY <1>13, <2>1 DEF CascadePlan
<1> QED
  BY <1>13, <1>14, <1>15 DEF Settled, HealPlan, q

\* Every step but a commit changes one request, to one that is settled.
LEMMA StepSettles ==
  ASSUME Formed(db), RowsInv, OpenInv, \A r \in Requests : TypedPlan(req[r]), Next
  PROVE  \E r \in Requests : Commit(r) \/ (Proceeds(r) /\ Settled(req'[r]))
<1>1. PICK r \in Requests :
  \/ \E n \in Groups : CreateOrg(r, n)
  \/ \E n \in Ids, p \in Groups : CreateByStaff(r, n, p)
  \/ \E n, p \in Groups : CreateCommunity(r, n, p)
  \/ \E n \in Members, p \in Groups : AddMember(r, n, p) \/ RegisterMember(r, n, p)
  \/ \E n \in Ids, by \in {"staff", "client"} :
       \/ \E v \in Rights : Set(r, n, v, by)
       \/ \E t \in Tools \cup {Inherit} : Select(r, n, t, by)
  \/ \E t \in Tools : SetDefault(r, t)
  \/ \E n, p \in Ids : MoveCheck(r, n, p)
  \/ \E n \in Ids : Deactivate(r, n)
  \/ \E n \in Groups : Rotate(r, n)
  \/ MoveLocate(r)
  \/ MoveRewrite(r)
  \/ Commit(r)
  \/ Fail(r)
  BY Zenon DEF Next
<1>2. TypedPlan(req[r])
  OBVIOUS
<1>3. Commit(r) \/ Settled(req'[r])
  BY <1>1, <1>2, CreationSettles, SetSettles, SelectSettles, DefaultSettles, CheckSettles, DeactivateSettles,
     RotateSettles, LocateSettles, RewriteSettles, FailSettles, Zenon
<1>4. Commit(r) \/ Proceeds(r)
  BY <1>1, CreationProceeds, SetProceeds, SelectProceeds, DefaultProceeds, CheckProceeds, DeactivateProceeds,
     RotateProceeds, LocateProceeds, RewriteProceeds, FailProceeds, Zenon
<1> QED
  BY <1>3, <1>4

-----------------------------------------------------------------------------
(* Commits, for the settings and the cascade.                              *)

LEMMA FitsMore ==
  ASSUME NEW R, NEW T, R \subseteq T, NEW w, Fits(R, w)
  PROVE  Fits(T, w)
BY DEF Fits

LEMMA FormedLands ==
  ASSUME Formed(db), RowsInv, OpenInv, NEW r \in Requests, TypedPlan(req[r]), Commit(r)
  PROVE  Formed(db')
<1> DEFINE q == req[r]
           R == Rows(db) \cup (IF q.op = "create" THEN {q.node} ELSE {})
<1>1. q.pc = "ready" /\ Plan(q) /\ db' = Overlaid(db, q.w) /\ Rows(db) \subseteq Ids
  BY DEF Commit, OpenInv, RowsInv
<1>2. q.op = "create" => q.node \in Ids
  BY <1>1 DEF Plan, Idle, Setting, Birth, Moving, Closure
<1>3. R \subseteq Ids
  BY <1>1, <1>2
<1>4. Fits(R, q.w)
  BY DEF TypedPlan
<1>5. Makes(db, q.w, R)
  BY DEF TypedPlan, Makes, Fits
<1> QED
  BY <1>1, <1>3, <1>4, <1>5, OverlaidFormed

LEMMA TypedPlanStays ==
  ASSUME RowsInv, OpenInv, NEW r \in Requests, Commit(r), NEW s \in Requests \ {r}, TypedPlan(req[s])
  PROVE  TypedPlan(req[s])'
<1>1. Landed(r)
  BY CommitLands
<1>2. Rows(db) \subseteq Rows(db)' /\ req[r].op \in Ops
  BY <1>1 DEF Landed
<1>3. /\ req'[s].op = req[s].op /\ req'[s].node = req[s].node /\ req'[s].to = req[s].to
      /\ req'[s].onto = req[s].onto /\ req'[s].from = req[s].from /\ req'[s].w = req[s].w
      /\ req'[s].over \subseteq req[s].over \cup {req[r].op}
  BY OthersKeep
<1> DEFINE R == Rows(db)
           T == Rows(db)'
           w == req[s].w
           n == req[s].node
<1> HIDE DEF R, T, w
<1>4. Fits(R, w) => Fits(T, w)
  BY <1>2, FitsMore DEF R, T
<1>5. Fits(R \cup {n}, w) => Fits(T \cup {n}, w)
  <2>1. R \cup {n} \subseteq T \cup {n}
    BY <1>2 DEF R, T
  <2> QED
    BY <2>1, FitsMore
<1>6. Fits(T, w) = Fits(Rows(db)', req'[s].w) /\ Fits(T \cup {n}, w) = Fits(Rows(db)' \cup {req'[s].node}, req'[s].w)
  BY <1>3 DEF T, w
<1> QED
  BY <1>2, <1>3, <1>4, <1>5, <1>6 DEF TypedPlan, R, w

LEMMA CascadesRace ==
  ASSUME NEW a \in Cascading, NEW b \in Cascading, a # "create" \/ b # "create"
  PROVE  {a, b} \in CascadeRaces
<1>1. {a, b} # {"create"}
  <2>1. a \in {a, b} /\ b \in {a, b}
    OBVIOUS
  <2> QED
    BY <2>1
<1> QED
  BY <1>1 DEF CascadeRaces

\* Requests that overlap without a race.
LEMMA NoRaceCommits ==
  ASSUME NEW r \in Requests, Commit(r), clash' \cap CascadeRaces = {}, req[r].op \in Cascading
  PROVE  /\ req[r].op # "create" => req[r].over \cap Cascading = {}
         /\ req[r].op = "create" => req[r].over \cap Cascading \subseteq {"create"}
<1>1. \A o \in req[r].over : {req[r].op, o} \notin CascadeRaces
  BY DEF Commit
<1> QED
  BY <1>1, CascadesRace

Followed == {"parent", "ownRight", "effRight", "ownTool", "effTool"}

\* Columns e in which the rows of R are as in d, as far as the cascade goes.
Spares(d, e, R) ==
  e.default = d.default /\ \A c \in Followed : \A m \in R : e[c][m] = d[c][m]

LEMMA CommitSpares ==
  ASSUME Formed(db), RowsInv, OpenInv, NEW r \in Requests, TypedPlan(req[r]), CascadePlan(req[r]), Commit(r),
         req[r].op \notin Cascading \ {"create"}
  PROVE  Spares(db, db', Rows(db))
<1> DEFINE q == req[r]
           w == q.w
<1>1. q.op \in Ops /\ Plan(q) /\ q.pc = "ready" /\ db' = Overlaid(db, w)
  BY CommitLands DEF Landed, Commit, OpenInv
<1> HIDE DEF w
<1>2. Followed \subseteq Columns /\ Followed \subseteq RowColumns /\ "default" \in Columns /\ "default" \notin RowColumns
  BY DEF Followed, Columns, RowColumns
<1>3. CASE q.op = "create"
  <2>1. DOMAIN w = RowColumns /\ \A c \in RowColumns : DOMAIN w[c] = {q.node}
    BY <1>3 DEF TypedPlan, w
  <2>2. q.node \notin Rows(db)
    BY <1>1, <1>3 DEF Plan, Idle, Setting, Birth, Moving, Closure
  <2>3. db'["default"] = db["default"]
    BY <1>1, <1>2, <2>1, OverlaidIs
  <2>4. ASSUME NEW c \in Followed, NEW m \in Rows(db) PROVE db'[c][m] = db[c][m]
    <3>1. c \in Columns /\ m \in DOMAIN db[c] /\ m \notin DOMAIN w[c]
      BY <1>2, <2>1, <2>2 DEF Formed
    <3> QED
      BY <1>1, <1>2, <2>1, <3>1, OverlaidIs
  <2> QED
    BY <2>3, <2>4 DEF Spares
<1>4. CASE q.op \in {"deactivate", "rotate"}
  <2>1. DOMAIN w \subseteq {"active", "invite"}
    BY <1>4 DEF CascadePlan, w
  <2>2. \A c \in Followed \cup {"default"} : c \notin DOMAIN w /\ c \in Columns
    BY <1>2, <2>1 DEF Followed
  <2>3. \A c \in Followed \cup {"default"} : db'[c] = db[c]
    BY <1>1, <2>2, OverlaidIs
  <2> QED
    BY <2>3 DEF Spares
<1> QED
  BY <1>1, <1>3, <1>4 DEF Ops

\* The same writes over rows that the cascade finds as they were.
LEMMA SparedAlike ==
  ASSUME NEW d, Formed(d), NEW e, Formed(e), NEW R, R \subseteq Rows(d) \cap Rows(e), Spares(d, e, R),
         NEW w, NEW n,
         \A c \in Followed : n \in R \/ (c \in DOMAIN w /\ n \in DOMAIN w[c]),
         LET p == Overlaid(e, w).parent[n] IN p # Nobody => p \in R
  PROVE  Alike(Overlaid(d, w), Overlaid(e, w), n)
<1> DEFINE a == Overlaid(d, w)
           b == Overlaid(e, w)
<1>1. Followed \subseteq Columns /\ Followed \subseteq RowColumns /\ "default" \in Columns
  BY DEF Followed, Columns, RowColumns
<1>2. ASSUME NEW c \in Followed, NEW m, m \in R \/ (c \in DOMAIN w /\ m \in DOMAIN w[c])
      PROVE  a[c][m] = b[c][m]
  <2>1. c \in Columns /\ DOMAIN d[c] = Rows(d) /\ DOMAIN e[c] = Rows(e)
    BY <1>1 DEF Formed
  <2>2. CASE c \in DOMAIN w /\ m \in DOMAIN w[c]
    BY <2>1, <2>2, OverlaidIs
  <2>3. CASE c \notin DOMAIN w
    BY <1>2, <2>1, <2>3, OverlaidIs DEF Spares
  <2>4. CASE c \in DOMAIN w /\ m \notin DOMAIN w[c]
    <3>1. m \in R /\ m \in DOMAIN d[c] /\ m \in DOMAIN e[c]
      BY <1>2, <2>1, <2>4
    <3> QED
      BY <2>1, <2>4, <3>1, OverlaidIs DEF Spares
  <2> QED
    BY <2>2, <2>3, <2>4
<1>3. a["default"]["slot"] = b["default"]["slot"]
  <2>1. e["default"] = d["default"]
    BY DEF Spares
  <2>2. "default" \notin DOMAIN w => a["default"] = d["default"] /\ b["default"] = e["default"]
    BY <1>1, OverlaidIs
  <2>3. "default" \in DOMAIN w => a["default"] = w["default"] @@ d["default"] /\ b["default"] = w["default"] @@ e["default"]
    BY <1>1 DEF Overlaid
  <2> QED
    BY <2>1, <2>2, <2>3
<1> HIDE DEF a
<1>4. LET p == b.parent[n] IN p # Nobody => p \in R
  OBVIOUS
<1> HIDE DEF b
<1>5. \A c \in Followed : a[c][n] = b[c][n]
  BY <1>2
<1>6. LET p == b.parent[n] IN
      p # Nobody => a["effRight"][p] = b["effRight"][p] /\ a["effTool"][p] = b["effTool"][p]
  BY <1>2, <1>4 DEF Followed
<1> QED
  BY <1>3, <1>5, <1>6 DEF Alike, Followed, a, b

LEMMA InStepLands ==
  ASSUME Formed(db), RowsInv, OpenInv, NEW r \in Requests, TypedPlan(req[r]), CascadePlan(req[r]), Commit(r),
         clash' \cap CascadeRaces = {}, AllInStep(db)
  PROVE  AllInStep(db')
<1> DEFINE q == req[r]
<1>1. /\ Landed(r) /\ Formed(db') /\ q.pc = "ready" /\ db' = After(q)
      /\ Rows(db') = Rows(db) \cup (IF q.op = "create" THEN {q.node} ELSE {})
  BY CommitLands, FormedLands DEF Landed, Commit, After, Rows
<1>2. CASE q.op \in Cascading \ {"create"}
  BY <1>1, <1>2, NoRaceCommits DEF CascadePlan
<1>3. ASSUME q.op \notin Cascading \ {"create"}, NEW m \in Rows(db) PROVE InStep(db', m)
  <2>1. Spares(db, db', Rows(db))
    BY <1>3, CommitSpares
  <2>2. db.parent[m] \in Rows(db) \cup {Nobody}
    BY FormedIs
  <2>3. Alike(db, db', m)
    BY <2>1, <2>2 DEF Spares, Followed, Alike
  <2> QED
    BY <2>3, AlikeInStep DEF AllInStep
<1>4. CASE q.op = "create"
  <2>1. InStep(db', q.node)
    BY <1>1, <1>4, NoRaceCommits DEF CascadePlan, Cascading
  <2> QED
    BY <1>1, <1>3, <1>4, <2>1 DEF AllInStep
<1>5. CASE q.op \notin Cascading
  BY <1>1, <1>3, <1>5 DEF AllInStep, Cascading
<1> QED
  BY <1>2, <1>4, <1>5

LEMMA CascadePlanStays ==
  ASSUME Formed(db), RowsInv, OpenInv, NEW r \in Requests, TypedPlan(req[r]), CascadePlan(req[r]), Commit(r),
         NEW s \in Requests \ {r}, TypedPlan(req[s]), CascadePlan(req[s])
  PROVE  CascadePlan(req[s])'
<1> DEFINE q == req[s]
           op == req[r].op
<1>1. CASE req'[s] = q /\ Idle(q)
  BY <1>1 DEF CascadePlan, Idle, Cascading
<1>2. CASE /\ req'[s].over = q.over \cup {op} /\ req'[s].pc = q.pc /\ req'[s].op = q.op
           /\ req'[s].node = q.node /\ req'[s].w = q.w
  <2>1. /\ Landed(r) /\ Formed(db') /\ op \in Ops /\ Plan(q) /\ (q.op = "create" => q.node # req[r].node)
        /\ Rows(db') = Rows(db) \cup (IF op = "create" THEN {req[r].node} ELSE {})
    BY CommitLands, FormedLands DEF Landed, OpenInv, Rows
  <2>2. ASSUME q.pc = "ready", q.op \in Cascading \ {"create"}, req'[s].over \cap Cascading = {}
        PROVE  AllInStep(Overlaid(db', q.w))
    <3>1. op \notin Cascading /\ q.over \cap Cascading = {}
      BY <1>2, <2>2
    <3>2. Spares(db, db', Rows(db)) /\ Rows(db') = Rows(db)
      BY <2>1, <3>1, CommitSpares DEF Cascading
    <3>3. AllInStep(Overlaid(db, q.w))
      BY <2>2, <3>1 DEF CascadePlan, After
    <3> DEFINE w == q.w
    <3>4. Fits(Rows(db), w) /\ Makes(db, w, Rows(db)) /\ Makes(db', w, Rows(db)) /\ Rows(db) \subseteq Ids
      BY <2>2, <3>2, FormedIs DEF TypedPlan, Fits, Makes
    <3> HIDE DEF w
    <3>5. /\ Rows(Overlaid(db, w)) = Rows(db)
          /\ Formed(Overlaid(db', w)) /\ Rows(Overlaid(db', w)) = Rows(db)
      BY <2>1, <3>4, OverlaidFormed
    <3>6. ASSUME NEW m \in Rows(db) PROVE InStep(Overlaid(db', w), m)
      <4>1. LET p == Overlaid(db', w).parent[m] IN p # Nobody => p \in Rows(db)
        BY <3>5, FormedIs
      <4>2. Alike(Overlaid(db, w), Overlaid(db', w), m)
        BY <2>1, <3>2, <4>1, SparedAlike
      <4>3. InStep(Overlaid(db, w), m)
        BY <3>3, <3>5 DEF AllInStep, w
      <4> QED
        BY <4>2, <4>3, AlikeInStep
    <3> QED
      BY <3>5, <3>6 DEF AllInStep, w
  <2>3. ASSUME q.pc = "ready", q.op = "create", req'[s].over \cap Cascading \subseteq {"create"}
        PROVE  InStep(Overlaid(db', q.w), q.node)
    <3>1. op \notin Cascading \ {"create"} /\ q.over \cap Cascading \subseteq {"create"}
      BY <1>2, <2>3
    <3>2. Spares(db, db', Rows(db)) /\ Rows(db) \subseteq Rows(db')
      BY <2>1, <3>1, CommitSpares
    <3>3. InStep(Overlaid(db, q.w), q.node)
      BY <2>3, <3>1 DEF CascadePlan, After
    <3> DEFINE w == q.w
               n == q.node
    <3>4. DOMAIN w = RowColumns /\ \A c \in RowColumns : DOMAIN w[c] = {n}
      BY <2>3 DEF TypedPlan
    <3>5. w.parent[n] \in Rows(db) \cup {Nobody}
      <4>1. Birth(q)
        BY <2>1, <2>3 DEF Plan, Idle, Setting, Moving, Closure
      <4> QED
        BY <4>1 DEF Birth, :>
    <3> HIDE DEF w, n
    <3>6. LET p == Overlaid(db', w).parent[n] IN p # Nobody => p \in Rows(db)
      <4>1. "parent" \in Columns /\ "parent" \in RowColumns
        BY DEF Columns, RowColumns
      <4>2. Overlaid(db', w)["parent"][n] = w["parent"][n]
        BY <3>4, <4>1, OverlaidIs
      <4> QED
        BY <3>5, <4>2
    <3>7. \A c \in Followed : n \in Rows(db) \/ (c \in DOMAIN w /\ n \in DOMAIN w[c])
      BY <3>4 DEF Followed, RowColumns
    <3>8. Alike(Overlaid(db, w), Overlaid(db', w), n)
      BY <2>1, <3>2, <3>6, <3>7, SparedAlike
    <3> QED
      BY <3>3, <3>8, AlikeInStep DEF w, n
  <2>4. q.op \in {"deactivate", "rotate"} => DOMAIN q.w \subseteq {"active", "invite"}
    BY DEF CascadePlan
  <2>5. /\ req'[s].pc = "ready" /\ req'[s].op \in Cascading \ {"create"} /\ req'[s].over \cap Cascading = {}
             => AllInStep(Overlaid(db', req'[s].w))
        /\ req'[s].pc = "ready" /\ req'[s].op = "create" /\ req'[s].over \cap Cascading \subseteq {"create"}
             => InStep(Overlaid(db', req'[s].w), req'[s].node)
        /\ req'[s].op \in {"deactivate", "rotate"} => DOMAIN req'[s].w \subseteq {"active", "invite"}
    BY <1>2, <2>2, <2>3, <2>4
  <2> QED
    BY <2>5 DEF CascadePlan, After
<1> QED
  BY <1>1, <1>2, OthersKeep

-----------------------------------------------------------------------------
(* The invariant of the tree.                                              *)

TypedInv == Formed(db) /\ (\A r \in Requests : TypedPlan(req[r])) /\ grafts \subseteq Ids

CascadeInv ==
  clash \cap CascadeRaces = {} => AllInStep(db) /\ \A r \in Requests : CascadePlan(req[r])

HealInv == clash \cap PathRaces = {} => \A r \in Requests : HealPlan(req[r])

LEMMA BornFormed == Init => Formed(db) /\ AllInStep(db)
<1> SUFFICES ASSUME Init PROVE Formed(db) /\ AllInStep(db)
  OBVIOUS
<1> DEFINE t == CHOOSE x \in Tools : TRUE
<1>1. /\ DOMAIN db = Columns /\ Rows(db) = DOMAIN Born /\ db.path = Born
      /\ db.active = [n \in DOMAIN Born |-> TRUE] /\ db.invite = [n \in DOMAIN Born |-> FALSE]
      /\ db.ownRight = [n \in DOMAIN Born |-> Inherit] /\ db.effRight = [n \in DOMAIN Born |-> RootRight]
      /\ db.ownTool = [n \in DOMAIN Born |-> Inherit] /\ db.effTool = [n \in DOMAIN Born |-> t]
      /\ db.default = [s \in {"slot"} |-> t]
      /\ DOMAIN db.parent = DOMAIN Born
  BY DEF Init, Columns, RowColumns, Rows
<1>2. t \in Tools
  BY TreeAssumption
<1> HIDE DEF t
<1>3. RowsInv /\ Straight(db)
  BY OpenInit, BornStraight
<1>4. DOMAIN Born \subseteq Ids /\ DOMAIN Born \cap Members = {}
  BY TreeAssumption DEF Ids
<1>5. Forest(db) /\ \A n \in DOMAIN Born : db.parent[n] \in (Ids \ Members) \cup {Nobody}
  BY <1>1, <1>3, <1>4, RowsForest DEF Forest
<1>6. ASSUME NEW c \in RowColumns PROVE DOMAIN db[c] = Rows(db) /\ \A n \in Rows(db) : db[c][n] \in Kinds[c]
  <2>1. \A n \in DOMAIN Born : Born[n] \in Seq(Ids)
    BY TreeAssumption
  <2>2. RootRight \in Rights
    BY TreeAssumption
  <2>3. /\ \A n \in DOMAIN Born : db.active[n] \in BOOLEAN
        /\ \A n \in DOMAIN Born : db.invite[n] \in BOOLEAN
    <3>1. TRUE \in BOOLEAN /\ FALSE \in BOOLEAN
      BY Zenon
    <3>2. (\A n \in DOMAIN Born : db.active[n] = TRUE) /\ (\A n \in DOMAIN Born : db.invite[n] = FALSE)
      BY <1>1
    <3> QED
      BY <3>1, <3>2, Zenon
  <2>4. DOMAIN db.active = DOMAIN Born /\ DOMAIN db.invite = DOMAIN Born
    BY <1>1
  <2>5. CASE c = "active"
    BY <1>1, <2>3, <2>4, <2>5 DEF Kinds
  <2>6. CASE c = "invite"
    BY <1>1, <2>3, <2>4, <2>6 DEF Kinds
  <2>7. CASE c \notin {"active", "invite"}
    BY <1>1, <1>2, <1>5, <2>1, <2>2, <2>7 DEF Kinds, RowColumns
  <2> QED
    BY <2>5, <2>6, <2>7
<1>7. Formed(db)
  BY <1>1, <1>2, <1>5, <1>6 DEF Formed
<1>8. ASSUME NEW n \in Rows(db) PROVE InStep(db, n)
  <2>1. db.parent[n] \in DOMAIN Born \cup {Nobody}
    BY <1>1, <1>5 DEF Forest
  <2> QED
    BY <1>1, <2>1 DEF InStep, RightFrom, ToolFrom, Narrowed, Chosen
<1> QED
  BY <1>7, <1>8 DEF AllInStep

LEMMA TypedInit == Init => TypedInv /\ CascadeInv /\ HealInv
<1> SUFFICES ASSUME Init PROVE TypedInv /\ CascadeInv /\ HealInv
  OBVIOUS
<1>1. \A r \in Requests : req[r] = Fresh
  BY DEF Init
<1>2. TypedPlan(Fresh) /\ CascadePlan(Fresh) /\ HealPlan(Fresh)
  BY EmptySeq DEF TypedPlan, CascadePlan, HealPlan, Fresh, Fits
<1>3. grafts = {}
  BY DEF Init
<1> QED
  BY <1>1, <1>2, <1>3, BornFormed DEF TypedInv, CascadeInv, HealInv

\* A step that leaves the rows as they are, and request s as it will be.
LEMMA Unmoved ==
  ASSUME db' = db, NEW s
  PROVE  /\ TypedPlan(req'[s]) => TypedPlan(req[s])'
         /\ CascadePlan(req'[s]) => CascadePlan(req[s])'
         /\ HealPlan(req'[s]) => HealPlan(req[s])'
<1>1. TypedPlan(req'[s]) => TypedPlan(req[s])'
  BY DEF TypedPlan
<1>2. CascadePlan(req'[s]) => CascadePlan(req[s])'
  BY DEF CascadePlan, After
<1>3. HealPlan(req'[s]) => HealPlan(req[s])'
  BY DEF HealPlan, After
<1> QED
  BY <1>1, <1>2, <1>3

LEMMA GraftsAreIds ==
  ASSUME RowsInv, OpenInv, grafts \subseteq Ids, NEW r \in Requests, Commit(r)
  PROVE  grafts' \subseteq Ids
<1>1. Plan(req[r]) /\ Rows(db) \subseteq Ids
  BY DEF OpenInv, RowsInv
<1>2. req[r].op \in {"create", "move"} => req[r].node \in Ids
  BY <1>1 DEF Plan, Idle, Setting, Birth, Moving, Closure
<1>3. grafts' \subseteq grafts \cup {n \in {req[r].node} : req[r].op \in {"create", "move"}}
  BY DEF Commit
<1> QED
  BY <1>2, <1>3

LEMMA CascadeRacesCoverPaths == PathRaces \subseteq CascadeRaces
<1>1. "move" \in Cascading /\ "create" \in Cascading
  BY DEF Cascading
<1>2. {"move", "move"} \in CascadeRaces /\ {"move", "create"} \in CascadeRaces
  BY <1>1, CascadesRace
<1>3. {"move", "move"} = {"move"}
  OBVIOUS
<1> QED
  BY <1>2, <1>3 DEF PathRaces

LEMMA TypedStep ==
  ASSUME RowsInv, OpenInv, PathInv, TypedInv, CascadeInv, HealInv, [Next]_vars
  PROVE  TypedInv' /\ CascadeInv' /\ HealInv'
<1>1. ASSUME NEW r \in Requests, Proceeds(r), Settled(req'[r]) PROVE TypedInv' /\ CascadeInv' /\ HealInv'
  <2>1. db' = db /\ clash' = clash /\ grafts' = grafts /\ \A s \in Requests \ {r} : req'[s] = req[s]
    BY <1>1 DEF Proceeds
  <2>2. \A s \in Requests : TypedPlan(req'[s])
    BY <1>1, <2>1 DEF TypedInv, Settled
  <2>3. TypedInv'
    BY <2>1, <2>2, Unmoved DEF TypedInv
  <2>4. ASSUME clash \cap CascadeRaces = {} PROVE AllInStep(db) /\ \A s \in Requests : CascadePlan(req'[s])
    <3>1. Straight(db) /\ AllInStep(db) /\ \A s \in Requests : CascadePlan(req[s])
      BY <2>4, CascadeRacesCoverPaths DEF PathInv, CascadeInv
    <3> QED
      BY <1>1, <2>1, <3>1 DEF Settled
  <2>5. CascadeInv'
    BY <2>1, <2>4, Unmoved DEF CascadeInv
  <2>6. ASSUME clash \cap PathRaces = {} PROVE \A s \in Requests : HealPlan(req'[s])
    BY <1>1, <2>1, <2>6 DEF Settled, PathInv, HealInv
  <2>7. HealInv'
    BY <2>1, <2>6, Unmoved DEF HealInv
  <2> QED
    BY <2>3, <2>5, <2>7
<1>2. ASSUME NEW r \in Requests, Commit(r) PROVE TypedInv' /\ CascadeInv' /\ HealInv'
  <2>1. req'[r] = Done /\ clash \subseteq clash'
    BY <1>2 DEF Commit
  <2>2. TypedPlan(req[r])' /\ CascadePlan(req[r])' /\ HealPlan(req[r])'
    BY <2>1, EmptySeq DEF TypedPlan, CascadePlan, HealPlan, Done, Fresh, Fits
  <2>3. TypedInv'
    <3>1. Formed(db)' /\ (grafts \subseteq Ids)'
      BY <1>2, FormedLands, GraftsAreIds DEF TypedInv
    <3>2. ASSUME NEW s \in Requests PROVE TypedPlan(req[s])'
      BY <1>2, <2>2, TypedPlanStays DEF TypedInv
    <3> QED
      BY <3>1, <3>2 DEF TypedInv
  <2>4. ASSUME clash' \cap CascadeRaces = {} PROVE AllInStep(db') /\ \A s \in Requests : CascadePlan(req[s])'
    <3>1. AllInStep(db) /\ \A s \in Requests : CascadePlan(req[s])
      BY <2>1, <2>4 DEF CascadeInv
    <3>2. AllInStep(db')
      BY <1>2, <2>4, <3>1, InStepLands DEF TypedInv
    <3>3. ASSUME NEW s \in Requests PROVE CascadePlan(req[s])'
      BY <1>2, <2>2, <3>1, CascadePlanStays DEF TypedInv
    <3> QED
      BY <3>2, <3>3
  <2>5. CascadeInv'
    BY <2>4 DEF CascadeInv
  <2>6. ASSUME NEW s \in Requests PROVE HealPlan(req[s])'
    <3>1. CASE s = r
      BY <2>2, <3>1
    <3>2. CASE s # r
      <4>1. (req'[s] = req[s] /\ Idle(req[s])) \/ req'[s].over = req[s].over \cup {req[r].op}
        BY <1>2, <3>2, OthersKeep
      <4>2. ~(req'[s].op \in {"set", "select"}) \/ req'[s].over # {}
        BY <4>1 DEF Idle
      <4> QED
        BY <4>2 DEF HealPlan
    <3> QED
      BY <3>1, <3>2
  <2> QED
    BY <2>3, <2>5, <2>6 DEF HealInv
<1>3. CASE UNCHANGED vars
  <2>1. db' = db /\ req' = req /\ clash' = clash /\ grafts' = grafts
    BY <1>3 DEF vars
  <2> QED
    BY <2>1, Unmoved DEF TypedInv, CascadeInv, HealInv
<1> QED
  BY <1>1, <1>2, <1>3, StepSettles DEF TypedInv

\* What an inductive invariant of the tree takes.
TreeInv == RowsInv /\ OpenInv /\ PathInv /\ TypedInv /\ CascadeInv /\ HealInv

LEMMA TreeHolds == Spec => []TreeInv
<1>1. Init => TreeInv
  BY OpenInit, BornStraight, TypedInit DEF TreeInv, PathInv
<1>2. TreeInv /\ [Next]_vars => TreeInv'
  BY OpenStep, PathStep, TypedStep DEF TreeInv
<1> QED
  BY <1>1, <1>2, PTL DEF Spec

\* The rows are a forest of identities with settings of the right kinds, and
\* what a request will write fits the columns.
THEOREM TypesHold == Spec => []TypeOK
<1>1. TreeInv => TypeOK
  <2> SUFFICES ASSUME TreeInv PROVE TypeOK
    OBVIOUS
  <2>1. /\ Formed(db) /\ DOMAIN db = Columns /\ \A c \in RowColumns : DOMAIN db[c] = Rows(db)
        /\ grafts \subseteq Ids /\ \A r \in Requests : DOMAIN req[r].w \subseteq Columns /\ req[r].over \subseteq Ops
    BY DEF TreeInv, TypedInv, Formed, TypedPlan, Fits
  <2> QED
    BY <2>1, FormedIs DEF TypeOK
<1> QED
  BY <1>1, TreeHolds, PTL

\* A change of settings that nothing overlapped leaves everything below it in
\* step (recompute_cascade, profiles/services.py:178-294): for every tree, and
\* whatever earlier races have left there, as long as the paths are right.
THEOREM RecomputesHeal == Spec => RecomputeHeals
<1>1. ASSUME TreeInv, [Next]_vars, NEW r \in Requests,
             req[r].op \in {"set", "select"}, req[r].pc = "ready", req'[r].pc = "done",
             db' # db, req[r].over = {}, clash \cap PathRaces = {},
             NEW n \in Below(db, req[r].node)
      PROVE  InStep(db', n)
  <2>1. PICK s \in Requests : Commit(s)
    BY <1>1, NextCases DEF TreeInv, Proceeds, vars
  <2>2. s = r
    <3>1. SUFFICES ASSUME s # r PROVE FALSE
      OBVIOUS
    <3>2. req'[r].pc = req[r].pc
      BY <1>1, <2>1, <3>1, OthersKeep DEF TreeInv
    <3> QED
      BY <1>1, <3>2
  <2>3. db' = After(req[r])
    BY <2>1, <2>2 DEF Commit, After
  <2>4. HealPlan(req[r])
    BY <1>1 DEF TreeInv, HealInv
  <2> QED
    BY <1>1, <2>3, <2>4 DEF HealPlan
<1>2. TreeInv /\ [Next]_vars => [
  \A r \in Requests :
    /\ req[r].op \in {"set", "select"} /\ req[r].pc = "ready" /\ req'[r].pc = "done"
    /\ db' # db /\ req[r].over = {} /\ clash \cap PathRaces = {}
    => \A n \in Below(db, req[r].node) : InStep(db', n)]_vars
  BY <1>1
<1> QED
  BY <1>2, TreeHolds, PTL DEF Spec, RecomputeHeals

-----------------------------------------------------------------------------
(* What the settings along a path amount to.                               *)

\* The head of a path is the root above the row, and every id on it a row.
LEMMA PathOfRows ==
  ASSUME NEW d, Formed(d), Straight(d), NEW n \in Rows(d)
  PROVE  LET p == d.parent[n] IN
         /\ p = Nobody => d.path[n] = <<n>>
         /\ p # Nobody => /\ p \in Rows(d) /\ d.path[p] \in Seq(Ids) /\ d.path[n] = Append(d.path[p], n)
<1>1. d.path[n] = Append(Above(d, d.parent[n]), n) /\ d.parent[n] \in Rows(d) \cup {Nobody}
  BY FormedIs DEF Straight
<1>2. Append(<<>>, n) = <<n>>
  OBVIOUS
<1> QED
  BY <1>1, <1>2, FormedIs DEF Above

\* Rows of which each has an odd parent: there are none.
LEMMA NoOddRows ==
  ASSUME NEW d, Formed(d), Straight(d), NEW odd, odd \subseteq Rows(d),
         \A n \in odd : d.parent[n] \in odd
  PROVE  odd = {}
<1> DEFINE rank == [n \in Rows(d) |-> Len(d.path[n])]
<1>1. rank \in [Rows(d) -> Nat]
  BY FormedIs, LenProperties
<1>2. ASSUME NEW n \in odd PROVE rank[d.parent[n]] < rank[n]
  <2> DEFINE p == d.parent[n]
  <2>1. n \in Rows(d) /\ p \in Rows(d) /\ p # Nobody
    BY FormedIs
  <2>2. d.path[p] \in Seq(Ids) /\ d.path[n] = Append(d.path[p], n)
    BY <2>1, PathOfRows
  <2> HIDE DEF p
  <2>3. Len(d.path[n]) = Len(d.path[p]) + 1 /\ Len(d.path[p]) \in Nat
    BY <2>2, AppendProperties, LenProperties
  <2> QED
    BY <2>1, <2>3 DEF p
<1> HIDE DEF rank
<1>3. \A n \in odd : \E m \in odd : rank[m] < rank[n]
  BY <1>2
<1> QED
  BY <1>1, <1>3, NoLowest

LEMMA HeadIsRoot ==
  ASSUME NEW d, Formed(d), Straight(d), NEW n \in Rows(d)
  PROVE  /\ d.path[n] # <<>> /\ Head(d.path[n]) \in Rows(d) /\ d.parent[Head(d.path[n])] = Nobody
         /\ S!Range(d.path[n]) \subseteq Rows(d)
         /\ LET p == d.parent[n] IN
            p # Nobody => Head(d.path[n]) = Head(d.path[p]) /\ S!Range(d.path[n]) = S!Range(d.path[p]) \cup {n}
<1> DEFINE Good(m) == /\ d.path[m] # <<>> /\ Head(d.path[m]) \in Rows(d) /\ d.parent[Head(d.path[m])] = Nobody
                      /\ S!Range(d.path[m]) \subseteq Rows(d)
           odd == {m \in Rows(d) : ~Good(m)}
<1>1. ASSUME NEW m \in Rows(d), d.parent[m] = Nobody PROVE Good(m)
  <2>1. d.path[m] = <<m>>
    BY <1>1, PathOfRows
  <2> QED
    BY <1>1, <2>1 DEF S!Range
<1>2. ASSUME NEW s \in Seq(Ids), NEW x \in Ids
      PROVE  /\ S!Range(Append(s, x)) = S!Range(s) \cup {x} /\ Append(s, x) # <<>>
             /\ s # <<>> => Head(Append(s, x)) = Head(s)
  <2>1. /\ Append(s, x) \in Seq(Ids) /\ Len(Append(s, x)) = Len(s) + 1 /\ Len(s) \in Nat
        /\ \A i \in 1..Len(s) : Append(s, x)[i] = s[i]
        /\ Append(s, x)[Len(s) + 1] = x
    BY AppendProperties, LenProperties
  <2>2. DOMAIN s = 1..Len(s) /\ DOMAIN Append(s, x) = 1..Len(s) + 1
    BY <2>1, LenProperties
  <2>3. S!Range(Append(s, x)) = S!Range(s) \cup {x}
    BY <2>1, <2>2 DEF S!Range
  <2>4. Append(s, x) # <<>> /\ (s # <<>> => Head(Append(s, x)) = Head(s))
    BY <2>1, EmptySeq, HeadTailProperties
  <2> QED
    BY <2>3, <2>4
<1>3. ASSUME NEW m \in Rows(d), d.parent[m] # Nobody
      PROVE  LET p == d.parent[m] IN
             /\ p \in Rows(d) /\ m \in Ids /\ d.path[m] # <<>>
             /\ d.path[p] # <<>> => Head(d.path[m]) = Head(d.path[p])
             /\ S!Range(d.path[m]) = S!Range(d.path[p]) \cup {m}
  <2>1. d.parent[m] \in Rows(d) /\ d.path[d.parent[m]] \in Seq(Ids) /\ d.path[m] = Append(d.path[d.parent[m]], m) /\ m \in Ids
    BY <1>3, PathOfRows, FormedIs
  <2> QED
    BY <1>2, <2>1
<1>4. odd = {}
  <2>1. ASSUME NEW m \in odd PROVE d.parent[m] \in odd
    BY <1>1, <1>3
  <2>2. odd \subseteq Rows(d)
    OBVIOUS
  <2> HIDE DEF odd
  <2> QED
    BY <2>1, <2>2, NoOddRows
<1>5. \A m \in Rows(d) : Good(m)
  BY <1>4
<1> QED
  BY <1>3, <1>5, FormedIs

\* The settings that count for a row's right, and their least.
Settings(d, n) ==
  {IF d.ownRight[m] # Inherit THEN d.ownRight[m]
   ELSE IF m = Head(d.path[n]) THEN RootRight ELSE Top : m \in S!Range(d.path[n])}

LEMMA MinOfOne ==
  ASSUME NEW x \in Nat
  PROVE  S!Min({x}) = x
BY DEF S!Min

LEMMA MinIs ==
  ASSUME NEW T, T \subseteq Nat, T # {}
  PROVE  S!Min(T) \in T /\ \A y \in T : S!Min(T) <= y
<1>1. \E x \in T : \A y \in T : x <= y
  BY LeastElement
<1> QED
  BY <1>1 DEF S!Min

LEMMA MinOfMore ==
  ASSUME NEW T, T \subseteq Nat, T # {}, NEW x \in Nat
  PROVE  S!Min(T \cup {x}) = IF x < S!Min(T) THEN x ELSE S!Min(T)
<1> DEFINE a == S!Min(T)
           b == S!Min(T \cup {x})
<1>1. a \in T /\ \A y \in T : a <= y
  BY MinIs
<1>2. b \in T \cup {x} /\ \A y \in T \cup {x} : b <= y
  <2>1. T \cup {x} \subseteq Nat /\ T \cup {x} # {}
    OBVIOUS
  <2> QED
    BY <2>1, MinIs
<1> HIDE DEF a, b
<1>3. a \in Nat /\ b \in Nat
  BY <1>1, <1>2
<1>4. b = IF x < a THEN x ELSE a
  BY <1>1, <1>2, <1>3
<1> QED
  BY <1>4 DEF a, b

LEMMA MaxIs ==
  ASSUME NEW k \in Nat, NEW T, T \subseteq 1..k, T # {}
  PROVE  S!Max(T) \in T /\ \A y \in T : S!Max(T) >= y
<1> DEFINE U == {k - i : i \in T}
<1>1. U \subseteq Nat /\ U # {}
  <2>1. \A i \in T : k - i \in Nat
    <3> SUFFICES ASSUME NEW i \in T PROVE k - i \in Nat
      OBVIOUS
    <3>1. i \in Int /\ 1 <= i /\ i <= k
      OBVIOUS
    <3> QED
      BY <3>1
  <2>2. PICK i \in T : TRUE
    OBVIOUS
  <2>3. k - i \in U
    BY <2>2
  <2>4. U \subseteq Nat
    BY Zenon, <2>1
  <2> QED
    BY <2>3, <2>4
<1> HIDE DEF U
<1>2. PICK u \in U : \A y \in U : u <= y
  BY <1>1, LeastElement
<1>3. PICK i \in T : u = k - i
  BY <1>2 DEF U
<1>4. ASSUME NEW j \in T PROVE i >= j
  <2>1. k - i <= k - j
    BY <1>2, <1>3 DEF U
  <2> QED
    BY <2>1
<1> QED
  BY <1>4 DEF S!Max

LEMMA SettingsAreRights ==
  ASSUME NEW d, Formed(d), Straight(d), NEW n \in Rows(d)
  PROVE  Settings(d, n) \subseteq Rights /\ Settings(d, n) # {} /\ Settings(d, n) \subseteq Nat
<1>1. S!Range(d.path[n]) \subseteq Rows(d) /\ d.path[n] # <<>> /\ d.path[n] \in Seq(Ids)
  BY HeadIsRoot, FormedIs
<1>2. S!Range(d.path[n]) # {}
  <2>1. 1 \in DOMAIN d.path[n]
    BY <1>1, EmptySeq, LenProperties
  <2> QED
    BY <2>1 DEF S!Range
<1>3. RootRight \in Rights /\ Top \in Rights /\ Rights \subseteq Nat
  BY TreeAssumption DEF Rights
<1>4. \A m \in Rows(d) : d.ownRight[m] # Inherit => d.ownRight[m] \in Rights
  BY FormedIs
<1> QED
  BY <1>1, <1>2, <1>3, <1>4 DEF Settings

LEMMA LeastFollows ==
  ASSUME NEW d, Formed(d), Straight(d), AllInStep(d), NEW n \in Rows(d),
         d.parent[n] # Nobody => d.effRight[d.parent[n]] = S!Min(Settings(d, d.parent[n]))
  PROVE  d.effRight[n] = S!Min(Settings(d, n))
<1> DEFINE p == d.parent[n]
           own == d.ownRight[n]
<1>1. /\ d.effRight[n] = Narrowed(own, IF p = Nobody THEN RootRight ELSE d.effRight[p], p = Nobody)
      /\ own \in Rights \cup {Inherit} /\ RootRight \in Rights /\ Top \in Rights /\ Rights = 0..Top /\ Top \in Nat
      /\ Inherit \notin Rights
  BY FormedIs, TreeAssumption DEF AllInStep, InStep, RightFrom, Rights
<1> HIDE DEF own
<1>2. CASE p = Nobody
  <2>1. d.path[n] = <<n>>
    BY <1>2, PathOfRows
  <2>2. Head(d.path[n]) = n /\ S!Range(d.path[n]) = {n}
    BY <2>1 DEF S!Range
  <2>3. Settings(d, n) = {IF own # Inherit THEN own ELSE RootRight}
    BY <2>2 DEF Settings, own
  <2>4. S!Min(Settings(d, n)) = IF own # Inherit THEN own ELSE RootRight
    <3> DEFINE x == IF own # Inherit THEN own ELSE RootRight
    <3>1. x \in Nat
      BY <1>1
    <3> HIDE DEF x
    <3>2. S!Min({x}) = x
      BY <3>1, MinOfOne
    <3> QED
      BY <2>3, <3>2 DEF x
  <2> QED
    BY <1>1, <1>2, <2>4 DEF Narrowed
<1>3. CASE p # Nobody
  <2>1. /\ p \in Rows(d) /\ Head(d.path[n]) = Head(d.path[p]) /\ S!Range(d.path[n]) = S!Range(d.path[p]) \cup {n}
        /\ Head(d.path[n]) # n
    <3>1. p \in Rows(d)
      BY <1>3, PathOfRows
    <3>2. /\ d.parent[Head(d.path[n])] = Nobody
          /\ Head(d.path[n]) = Head(d.path[p]) /\ S!Range(d.path[n]) = S!Range(d.path[p]) \cup {n}
      BY <1>3, HeadIsRoot
    <3> QED
      BY <1>3, <3>1, <3>2
  <2> DEFINE x == IF own # Inherit THEN own ELSE Top
             T == Settings(d, p)
  <2>2. Settings(d, n) = T \cup {x}
    BY <2>1 DEF Settings, own
  <2>3. T \subseteq Rights /\ T # {} /\ T \subseteq Nat
    BY <2>1, SettingsAreRights
  <2>4. d.effRight[p] = S!Min(T)
    BY <1>3
  <2> HIDE DEF T, x
  <2>5. x \in Nat
    BY <1>1 DEF x
  <2>6. S!Min(T \cup {x}) = IF x < S!Min(T) THEN x ELSE S!Min(T)
    BY <2>3, <2>5, MinOfMore
  <2>7. S!Min(T) \in Rights
    BY <2>3, MinIs
  <2> DEFINE a == S!Min(T)
  <2>8. d.effRight[n] = IF own = Inherit THEN a ELSE IF own < a THEN own ELSE a
    BY <1>1, <1>3, <2>4 DEF Narrowed
  <2> HIDE DEF a
  <2>9. d.effRight[n] = IF x < a THEN x ELSE a
    <3>1. a \in Nat /\ a <= Top
      BY <1>1, <2>7 DEF a
    <3>2. CASE own = Inherit
      BY <1>1, <2>8, <3>1, <3>2 DEF x
    <3>3. CASE own # Inherit
      BY <2>8, <3>3 DEF x
    <3> QED
      BY <3>2, <3>3
  <2> QED
    BY <2>2, <2>6, <2>9 DEF a
<1> QED
  BY <1>2, <1>3

\* The nearest choice on a path, as Nearest has it.
NearestOn(d, path) ==
  LET choosing == {i \in DOMAIN path : d.ownTool[path[i]] # Inherit}
  IN  IF choosing = {} THEN d.default["slot"] ELSE d.ownTool[path[S!Max(choosing)]]

LEMMA NearestFollows ==
  ASSUME NEW d, NEW s \in Seq(Ids), NEW x \in Ids
  PROVE  NearestOn(d, Append(s, x)) = Chosen(d.ownTool[x], NearestOn(d, s))
<1> DEFINE t == Append(s, x)
           k == Len(s)
           A == {i \in DOMAIN s : d.ownTool[s[i]] # Inherit}
           B == {i \in DOMAIN t : d.ownTool[t[i]] # Inherit}
<1>1. /\ DOMAIN s = 1..k /\ DOMAIN t = 1..k + 1 /\ k \in Nat
      /\ \A i \in 1..k : t[i] = s[i]
      /\ t[k + 1] = x
  BY AppendProperties, LenProperties
<1>2. NearestOn(d, s) = IF A = {} THEN d.default["slot"] ELSE d.ownTool[s[S!Max(A)]]
  BY DEF NearestOn
<1>3. NearestOn(d, t) = IF B = {} THEN d.default["slot"] ELSE d.ownTool[t[S!Max(B)]]
  BY DEF NearestOn
<1>4. CASE d.ownTool[x] = Inherit
  <2>1. A = B
    BY <1>1, <1>4
  <2>2. A # {} => S!Max(A) \in 1..k
    <3>1. A \subseteq 1..k
      BY <1>1
    <3> HIDE DEF A, k
    <3> QED
      BY <1>1, <3>1, MaxIs
  <2>3. A # {} => t[S!Max(A)] = s[S!Max(A)]
    <3> HIDE DEF A, t, k
    <3> QED
      BY <1>1, <2>2
  <2> HIDE DEF A, B, t
  <2> QED
    BY <1>2, <1>3, <1>4, <2>1, <2>3 DEF Chosen, t
<1>5. CASE d.ownTool[x] # Inherit
  <2>1. k + 1 \in B /\ B \subseteq 1..k + 1
    BY <1>1, <1>5
  <2> HIDE DEF A, B, t, k
  <2>2. S!Max(B) = k + 1
    <3>1. k + 1 \in Nat
      BY <1>1
    <3>2. S!Max(B) \in B /\ \A y \in B : S!Max(B) >= y
      BY <2>1, <3>1, MaxIs
    <3> DEFINE m == S!Max(B)
    <3>3. m \in 1..k + 1 /\ m >= k + 1
      BY <2>1, <3>2
    <3> HIDE DEF m
    <3>4. m = k + 1
      BY <1>1, <3>3
    <3> QED
      BY <3>4 DEF m
  <2> QED
    BY <1>1, <1>3, <1>5, <2>1, <2>2 DEF Chosen, t
<1> QED
  BY <1>4, <1>5

LEMMA InStepAmounts ==
  ASSUME NEW d, Formed(d), Straight(d), AllInStep(d), NEW n \in Rows(d)
  PROVE  d.effRight[n] = S!Min(Settings(d, n)) /\ d.effTool[n] = NearestOn(d, d.path[n])
<1> DEFINE oddRight == {m \in Rows(d) : d.effRight[m] # S!Min(Settings(d, m))}
           oddTool == {m \in Rows(d) : d.effTool[m] # NearestOn(d, d.path[m])}
<1>1. ASSUME NEW m \in oddRight PROVE d.parent[m] \in oddRight
  <2>1. m \in Rows(d) /\ d.parent[m] \in Rows(d) \cup {Nobody}
    BY FormedIs
  <2> QED
    BY <2>1, LeastFollows
<1>2. ASSUME NEW m \in oddTool PROVE d.parent[m] \in oddTool
  <2> DEFINE p == d.parent[m]
  <2>1. m \in Rows(d) /\ m \in Ids /\ p \in Rows(d) \cup {Nobody}
    BY FormedIs
  <2>2. d.effTool[m] = Chosen(d.ownTool[m], IF p = Nobody THEN d.default["slot"] ELSE d.effTool[p])
    BY <2>1 DEF AllInStep, InStep, ToolFrom
  <2>3. CASE p = Nobody
    <3>1. d.path[m] = Append(<<>>, m) /\ <<>> \in Seq(Ids)
      BY <2>1, <2>3, PathOfRows, EmptySeq
    <3>2. NearestOn(d, d.path[m]) = Chosen(d.ownTool[m], NearestOn(d, <<>>))
      BY <2>1, <3>1, NearestFollows
    <3>3. NearestOn(d, <<>>) = d.default["slot"]
      <4>1. {i \in DOMAIN <<>> : d.ownTool[<<>>[i]] # Inherit} = {}
        OBVIOUS
      <4> QED
        BY <4>1 DEF NearestOn
    <3> QED
      BY <2>2, <2>3, <3>2, <3>3
  <2>4. CASE p \in Rows(d)
    <3>1. p # Nobody /\ d.path[p] \in Seq(Ids) /\ d.path[m] = Append(d.path[p], m)
      BY <2>1, <2>4, PathOfRows, FormedIs
    <3>2. NearestOn(d, d.path[m]) = Chosen(d.ownTool[m], NearestOn(d, d.path[p]))
      <4> HIDE DEF p
      <4> QED
        BY <2>1, <3>1, NearestFollows
    <3> QED
      BY <2>2, <2>4, <3>1, <3>2
  <2> QED
    BY <2>1, <2>3, <2>4
<1>3. oddRight \subseteq Rows(d) /\ oddTool \subseteq Rows(d)
  OBVIOUS
<1> HIDE DEF oddRight, oddTool
<1>4. oddRight = {} /\ oddTool = {}
  BY <1>1, <1>2, <1>3, NoOddRows
<1> QED
  BY <1>4 DEF oddRight, oddTool

\* The promise of the permission cascade (profiles/services.py:1-11, 178-191),
\* for every tree, any number of identities and requests: nobody has more than
\* the least right among its own and its ancestors' settings, and everybody the
\* nearest tool chosen above it, unless two requests that cascade, other than
\* two creations, have overlapped.
THEOREM CascadeHolds == Spec => []Cascaded
<1>1. TreeInv => Cascaded
  <2> SUFFICES ASSUME TreeInv, clash \cap CascadeRaces = {}, NEW n \in Rows(db)
               PROVE  db.effRight[n] = Least(n) /\ db.effTool[n] = Nearest(n)
    BY DEF Cascaded
  <2>1. Formed(db) /\ Straight(db) /\ AllInStep(db)
    BY CascadeRacesCoverPaths DEF TreeInv, TypedInv, PathInv, CascadeInv
  <2>2. Least(n) = S!Min(Settings(db, n)) /\ Nearest(n) = NearestOn(db, db.path[n])
    BY DEF Least, Nearest, Settings, NearestOn
  <2> QED
    BY <2>1, <2>2, InStepAmounts
<1> QED
  BY <1>1, TreeHolds, PTL

================================================================================
