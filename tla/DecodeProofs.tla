---------------------------- MODULE DecodeProofs ----------------------------
(***************************************************************************)
(* Theorems about Decode, for any tables, any columns and any sequence of  *)
(* schemas: the cached descriptions keep in step with the messages.        *)
(***************************************************************************)
EXTENDS Decode, FiniteSetTheorems, SequenceTheorems, TLAPS

Operations == {"insert", "update", "delete"}
SchemasOf(t) == Range(Schemas[t])
RowsOf(s) == {Null} \cup [Range(s.columns) -> {"n", "u", "t"}]

LEMMA SchemaFacts ==
  ASSUME NEW t \in Tables, NEW s \in SchemasOf(t)
  PROVE  /\ s # Null
         /\ s.columns \in Seq(Range(s.columns))
         /\ IsInjective(s.columns)
         /\ Null \notin [Range(s.columns) -> {"n", "u", "t"}]
         /\ Null \notin [DOMAIN s.columns -> [type : {"n", "u", "t"}, data : Range(s.columns)]]
         /\ \A sent \in SUBSET Range(s.columns) :
                Null \notin [sent -> Range(s.columns) \cup {Null}]
BY DecodeAssumption DEF DecodeAssumption, SchemasOf

(* The map from a tuple back to the names is the inverse of the tuple.     *)
LEMMA TupleOfRow ==
  ASSUME NEW t \in Tables, NEW s \in SchemasOf(t), NEW row \in RowsOf(s), row # Null
  PROVE  /\ Tuple(s, row) \in [DOMAIN s.columns -> [type : {"n", "u", "t"}, data : Range(s.columns)]]
         /\ \A i \in DOMAIN s.columns : /\ Tuple(s, row)[i].type = row[s.columns[i]]
                                        /\ Tuple(s, row)[i].data = s.columns[i]
<1>1. row \in [Range(s.columns) -> {"n", "u", "t"}]
  BY DEF RowsOf
<1>2. \A i \in DOMAIN s.columns : s.columns[i] \in Range(s.columns)
  BY DEF Range
<1>3. Tuple(s, row) = [i \in DOMAIN s.columns |->
                          [type |-> row[s.columns[i]], data |-> s.columns[i]]]
  BY DEF Tuple
<1>4. QED
  BY <1>1, <1>2, <1>3

\* The tuple of a row, under the description it was sent under, gives the row
\* back: every value under the name of its column, NULLs kept, unchanged values
\* left out.
LEMMA NamesPutBack ==
  ASSUME NEW t \in Tables, NEW s \in SchemasOf(t), NEW row \in RowsOf(s)
  PROVE  /\ Fits(Tuple(s, row), s)
         /\ TupleToMap(Tuple(s, row), s) = Written(row)
         /\ Written(row) = Null <=> row = Null
<1>1. CASE row = Null
  BY <1>1 DEF Fits, Tuple, TupleToMap, Written
<1>2. CASE row # Null
  <2> DEFINE tuple == Tuple(s, row)
             cols == s.columns
             sent == {i \in DOMAIN tuple : tuple[i].type # "u"}
             names == {c \in DOMAIN row : row[c] # "u"}
             At(c) == CHOOSE i \in sent : cols[i] = c
  <2>1. /\ DOMAIN tuple = DOMAIN cols /\ tuple # Null
        /\ \A i \in DOMAIN cols : tuple[i].type = row[cols[i]] /\ tuple[i].data = cols[i]
    <3>1. tuple \in [DOMAIN cols -> [type : {"n", "u", "t"}, data : Range(cols)]]
      BY <1>2, TupleOfRow
    <3>2. tuple # Null
      BY <3>1, SchemaFacts, Zenon
    <3>3. \A i \in DOMAIN cols : tuple[i].type = row[cols[i]] /\ tuple[i].data = cols[i]
      BY <1>2, TupleOfRow
    <3> HIDE DEF tuple, cols
    <3>4. QED
      BY <3>1, <3>2, <3>3
  <2>2. /\ DOMAIN row = Range(cols)
        /\ \A c \in Range(cols) : \E i \in DOMAIN cols : cols[i] = c
        /\ \A i \in DOMAIN cols : cols[i] \in Range(cols)
    BY <1>2 DEF RowsOf, Range
  <2>3. \A i, j \in DOMAIN cols : cols[i] = cols[j] => i = j
    BY SchemaFacts DEF IsInjective
  <2>4. Fits(tuple, s)
    <3>1. cols \in Seq(Range(cols))
      BY SchemaFacts
    <3>2. DOMAIN tuple = DOMAIN cols
      BY <2>1
    <3>3. Fits(tuple, s) <=> tuple = Null \/ Len(tuple) <= Len(cols)
      BY DEF Fits
    <3> HIDE DEF tuple, cols
    <3>4. DOMAIN cols = 1 .. Len(cols) /\ Len(cols) \in Nat
      BY <3>1
    <3>5. Len(tuple) = Len(cols)
      BY <3>2, <3>4
    <3>6. QED
      BY <3>3, <3>4, <3>5
  <2> HIDE DEF tuple, cols
  <2>5. {cols[i] : i \in sent} = names
    BY <2>1, <2>2
  <2>6. \A c \in names : At(c) \in sent /\ cols[At(c)] = c
    BY <2>5
  <2>7. \A c \in names : /\ tuple[At(c)].type = row[c]
                         /\ tuple[At(c)].data = c
    BY <2>1, <2>6
  <2>8. TupleToMap(tuple, s) = [c \in {cols[i] : i \in sent} |->
            IF tuple[At(c)].type = "n" THEN Null ELSE tuple[At(c)].data]
    BY <2>1 DEF TupleToMap, cols
  <2>9. Written(row) = [c \in names |-> IF row[c] = "n" THEN Null ELSE c]
    BY <1>2 DEF Written
  <2>10. TupleToMap(tuple, s) = Written(row)
    <3> HIDE DEF At, sent, names
    <3>1. QED
      BY <2>5, <2>7, <2>8, <2>9
  <2>11. Written(row) # Null
    <3>1. names \in SUBSET Range(cols)
      BY <2>2
    <3>2. Written(row) \in [names -> Range(cols) \cup {Null}]
      BY <2>9, <3>1
    <3>3. QED
      BY <3>1, <3>2, SchemaFacts DEF cols
  <2>12. QED
    BY <1>2, <2>4, <2>10, <2>11 DEF tuple
<1>3. QED
  BY <1>1, <1>2

-----------------------------------------------------------------------------
(* Sequences of messages.                                                  *)
IsSeq(w) == w \in Seq(Range(w))

LEMMA MemberIsSeq ==
  ASSUME NEW S, NEW w \in Seq(S)
  PROVE  IsSeq(w)
BY SeqOfRange, Zenon DEF IsSeq

LEMMA SeqConcat ==
  ASSUME NEW w, IsSeq(w), NEW d, IsSeq(d)
  PROVE  /\ IsSeq(w \o d) /\ Len(w) \in Nat /\ Len(d) \in Nat
         /\ Len(w \o d) = Len(w) + Len(d)
         /\ \A i \in 1 .. Len(w) : (w \o d)[i] = w[i]
         /\ \A i \in 1 .. Len(d) : (w \o d)[Len(w) + i] = d[i]
<1> DEFINE S == Range(w) \cup Range(d)
<1>1. w \in Seq(S) /\ d \in Seq(S)
  <2>1. \A T, U : Seq(T) \subseteq Seq(T \cup U) /\ Seq(U) \subseteq Seq(T \cup U)
    BY SeqDef
  <2>2. QED
    BY <2>1 DEF IsSeq
<1> HIDE DEF S
<1>2. IsSeq(w \o d)
  <2>1. w \o d \in Seq(S)
    BY <1>1
  <2>2. QED
    BY <2>1, MemberIsSeq, Zenon
<1>3. QED
  BY <1>1, <1>2

LEMMA SeqAppended ==
  ASSUME NEW w, IsSeq(w), NEW m
  PROVE  /\ IsSeq(w \o <<m>>) /\ Len(w) \in Nat /\ Len(w \o <<m>>) = Len(w) + 1
         /\ \A i \in 1 .. Len(w) : (w \o <<m>>)[i] = w[i]
         /\ (w \o <<m>>)[Len(w) + 1] = m
         /\ IsSeq(<<m>>) /\ Len(<<m>>) = 1 /\ <<m>>[1] = m
<1>1. <<m>> \in Seq({m}) /\ Len(<<m>>) = 1 /\ <<m>>[1] = m
  OBVIOUS
<1>2. IsSeq(<<m>>)
  BY <1>1, MemberIsSeq
<1>3. QED
  BY <1>1, <1>2, SeqConcat

LEMMA SeqTail ==
  ASSUME NEW w, IsSeq(w), w # <<>>
  PROVE  /\ IsSeq(Tail(w)) /\ Len(w) \in Nat \ {0} /\ Head(w) = w[1]
         /\ Len(Tail(w)) = Len(w) - 1
         /\ \A i \in 1 .. Len(w) - 1 : Tail(w)[i] = w[i + 1]
<1>1. IsSeq(Tail(w))
  <2>1. Tail(w) \in Seq(Range(w))
    BY DEF IsSeq
  <2>2. QED
    BY <2>1, MemberIsSeq, Zenon
<1>2. QED
  BY <1>1 DEF IsSeq

\* A set put in a sequence is there once, every element of it.
LEMMA SetInSeq ==
  ASSUME NEW S, IsFiniteSet(S)
  PROVE  LET d == SetToSeq(S)
         IN  /\ d \in Seq(S) /\ IsSeq(d)
             /\ \A x \in S : \E i \in 1 .. Len(d) : d[i] = x
             /\ \A i, j \in 1 .. Len(d) : d[i] = d[j] => i = j
<1> DEFINE d == SetToSeq(S)
           n == Cardinality(S)
<1>1. n \in Nat /\ ExistsBijection(1 .. n, S)
  BY FS_CardinalityType
<1>2. \E f \in [1 .. n -> S] : IsInjective(f)
  BY <1>1 DEF ExistsBijection, Bijection, Injection
<1>3. d \in [1 .. n -> S] /\ IsInjective(d)
  BY <1>2 DEF SetToSeq
<1>4. d \in Injection(1 .. n, S) /\ Cardinality(1 .. n) = n
  BY <1>1, <1>3, FS_Interval DEF Injection
<1>5. d \in Surjection(1 .. n, S)
  BY <1>4, FS_Injection
<1> HIDE DEF d, n
<1>6. d \in Seq(S) /\ Len(d) = n
  BY <1>1, <1>3, SeqDef
<1>7. \A x \in S : \E i \in 1 .. n : d[i] = x
  BY <1>5 DEF Surjection
<1>8. \A i, j \in 1 .. n : d[i] = d[j] => i = j
  BY <1>3 DEF IsInjective
<1>9. IsSeq(d)
  BY <1>6, MemberIsSeq, Zenon
<1>10. QED
  BY <1>6, <1>7, <1>8, <1>9 DEF d

-----------------------------------------------------------------------------
(* What the decoder will have in its cache.  Knows(w, R, t, s, i): with    *)
(* the cache R and the messages w on their way, it will have s for table t *)
(* when it has seen i of them.                                             *)
Describes(m, t) == m.kind = "relation" /\ m.id = t

Silent(w, t, i, j) == \A k \in i .. j : ~Describes(w[k], t)

Knows(w, R, t, s, i) ==
    \/ R[t] = s /\ Silent(w, t, 1, i)
    \/ \E j \in 1 .. i : /\ Describes(w[j], t) /\ w[j].relation = s
                         /\ Silent(w, t, j + 1, i)

LEMMA KnowsPrefix ==
  ASSUME NEW w, IsSeq(w), NEW d, IsSeq(d), NEW R, NEW t, NEW s,
         NEW i \in 0 .. Len(w), Knows(w, R, t, s, i)
  PROVE  Knows(w \o d, R, t, s, i)
<1>1. /\ Len(w) \in Nat
      /\ \A k \in 1 .. i : (w \o d)[k] = w[k]
  BY SeqConcat
<1>2. QED
  BY <1>1 DEF Knows, Silent

LEMMA KnowsOld ==
  ASSUME NEW w, IsSeq(w), NEW d, IsSeq(d), NEW R, NEW t, NEW s,
         NEW i \in 0 .. Len(d), Silent(d, t, 1, i), Knows(w, R, t, s, Len(w))
  PROVE  Knows(w \o d, R, t, s, Len(w) + i)
<1>1. /\ Len(w) \in Nat /\ Len(d) \in Nat
      /\ \A k \in 1 .. Len(w) : (w \o d)[k] = w[k]
      /\ \A k \in 1 .. Len(d) : (w \o d)[Len(w) + k] = d[k]
  BY SeqConcat
<1>2. \A k \in (Len(w) + 1) .. (Len(w) + i) : k - Len(w) \in 1 .. i /\ k = Len(w) + (k - Len(w))
  BY <1>1
<1>3. \A k \in (Len(w) + 1) .. (Len(w) + i) : ~Describes((w \o d)[k], t)
  BY <1>1, <1>2 DEF Silent
<1>4. \A j \in 1 .. Len(w) + 1 : Silent(w, t, j, Len(w)) => Silent(w \o d, t, j, Len(w) + i)
  BY <1>1, <1>3 DEF Silent
<1>5. CASE R[t] = s /\ Silent(w, t, 1, Len(w))
  BY <1>1, <1>4, <1>5 DEF Knows
<1>6. ASSUME NEW j \in 1 .. Len(w), Describes(w[j], t), w[j].relation = s,
             Silent(w, t, j + 1, Len(w))
      PROVE  Knows(w \o d, R, t, s, Len(w) + i)
  <2>1. Silent(w \o d, t, j + 1, Len(w) + i)
    BY <1>1, <1>4, <1>6
  <2>2. j \in 1 .. (Len(w) + i) /\ (w \o d)[j] = w[j]
    BY <1>1
  <2>3. QED
    BY <1>6, <2>1, <2>2 DEF Knows
<1>7. QED
  BY <1>5, <1>6 DEF Knows

LEMMA KnowsNew ==
  ASSUME NEW w, IsSeq(w), NEW d, IsSeq(d), NEW R, NEW t, NEW s,
         NEW i \in 0 .. Len(d), NEW j \in 1 .. i, Describes(d[j], t), d[j].relation = s,
         \A k \in 1 .. i : Describes(d[k], t) => k = j
  PROVE  Knows(w \o d, R, t, s, Len(w) + i)
<1>1. /\ Len(w) \in Nat /\ Len(d) \in Nat
      /\ \A k \in 1 .. Len(d) : (w \o d)[Len(w) + k] = d[k]
  BY SeqConcat
<1>2. \A k \in (Len(w) + j + 1) .. (Len(w) + i) : /\ k - Len(w) \in (j + 1) .. i
                                                  /\ k = Len(w) + (k - Len(w))
  BY <1>1
<1>3. Silent(w \o d, t, Len(w) + j + 1, Len(w) + i)
  <2>1. \A k \in (j + 1) .. i : ~Describes(d[k], t) /\ k \in 1 .. Len(d)
    BY <1>1
  <2>2. QED
    BY <1>1, <1>2, <2>1 DEF Silent
<1>4. Len(w) + j \in 1 .. (Len(w) + i) /\ (w \o d)[Len(w) + j] = d[j]
  BY <1>1
<1>5. QED
  BY <1>3, <1>4 DEF Knows

LEMMA KnowsTail ==
  ASSUME NEW w, IsSeq(w), w # <<>>, NEW R, NEW Q, NEW t, NEW s,
         NEW i \in 1 .. Len(w), Knows(w, R, t, s, i),
         Q[t] = IF Describes(w[1], t) THEN w[1].relation ELSE R[t]
  PROVE  Knows(Tail(w), Q, t, s, i - 1)
<1>1. /\ Len(w) \in Nat \ {0}
      /\ \A k \in 1 .. Len(w) - 1 : Tail(w)[k] = w[k + 1]
  BY SeqTail
<1>2. \A j \in 2 .. i + 1 : Silent(w, t, j, i) => Silent(Tail(w), t, j - 1, i - 1)
  <2>1. ASSUME NEW j \in 2 .. i + 1, Silent(w, t, j, i), NEW k \in (j - 1) .. (i - 1)
        PROVE  ~Describes(Tail(w)[k], t)
    <3>1. k + 1 \in j .. i /\ Tail(w)[k] = w[k + 1]
      BY <1>1
    <3>2. QED
      BY <2>1, <3>1 DEF Silent
  <2>2. QED
    BY <2>1 DEF Silent
<1>3. CASE R[t] = s /\ Silent(w, t, 1, i)
  <2>1. ~Describes(w[1], t) /\ Silent(w, t, 2, i)
    BY <1>3 DEF Silent
  <2>2. Silent(Tail(w), t, 1, i - 1)
    BY <1>2, <2>1
  <2>3. QED
    BY <1>3, <2>1, <2>2 DEF Knows
<1>4. ASSUME NEW j \in 1 .. i, Describes(w[j], t), w[j].relation = s, Silent(w, t, j + 1, i)
      PROVE  Knows(Tail(w), Q, t, s, i - 1)
  <2>1. Silent(Tail(w), t, j, i - 1)
    <3>1. j + 1 \in 2 .. i + 1 /\ (j + 1) - 1 = j
      OBVIOUS
    <3>2. QED
      BY <1>2, <1>4, <3>1
  <2>2. CASE j = 1
    BY <1>4, <2>1, <2>2 DEF Knows
  <2>3. CASE j # 1
    <3>1. j - 1 \in 1 .. (i - 1) /\ Tail(w)[j - 1] = w[j]
      <4>1. j - 1 \in 1 .. Len(w) - 1 /\ j - 1 \in 1 .. (i - 1) /\ (j - 1) + 1 = j
        BY <1>1, <2>3
      <4>2. Tail(w)[j - 1] = w[(j - 1) + 1]
        BY <1>1, <4>1
      <4>3. QED
        BY <4>1, <4>2
    <3>2. Silent(Tail(w), t, (j - 1) + 1, i - 1)
      BY <2>1
    <3>3. QED
      BY <1>4, <3>1, <3>2 DEF Knows
  <2>4. QED
    BY <2>2, <2>3
<1>5. QED
  BY <1>3, <1>4 DEF Knows
-----------------------------------------------------------------------------
(* The inductive invariant.  A message on its way is right if the decoder  *)
(* will know, when it gets there, the very description under which the     *)
(* server built it.                                                        *)
RowRight(m, s) ==
    \E old, new \in RowsOf(s) :
        /\ m.old = Tuple(s, old) /\ m.new = Tuple(s, new)
        /\ m.meant = <<Change(s.name, m.kind, Written(old), Written(new))>>
        /\ (new = Null) = (m.kind = "delete")
        /\ m.kind = "insert" => old = Null

TruncateRight(m, k, s) == m.meant[k] = Change(s.name, "truncate", Null, Null)

Right(w, R, i) ==
    \/ /\ w[i].kind = "relation" /\ w[i].meant = <<>>
       /\ w[i].id \in Tables /\ w[i].relation \in SchemasOf(w[i].id)
    \/ /\ w[i].kind \in Operations /\ w[i].id \in Tables
       /\ \E s \in SchemasOf(w[i].id) : Knows(w, R, w[i].id, s, i - 1) /\ RowRight(w[i], s)
    \/ /\ w[i].kind = "truncate" /\ w[i].ids \in Seq(Tables)
       /\ w[i].meant = [k \in DOMAIN w[i].ids |-> w[i].meant[k]]
       /\ \A k \in DOMAIN w[i].ids : \E s \in SchemasOf(w[i].ids[k]) :
             Knows(w, R, w[i].ids[k], s, i - 1) /\ TruncateRight(w[i], k, s)

\* Every message says how many changes were written before it.
Counted(w, p, q) ==
    /\ p \in Nat /\ q \in Nat
    /\ w = <<>> => p = q
    /\ w # <<>> => p = w[1].before /\ q = w[Len(w)].before + Len(w[Len(w)].meant)
    /\ \A i \in 1 .. Len(w) - 1 : w[i + 1].before = w[i].before + Len(w[i].meant)

State ==
    /\ version \in [Tables -> Nat] /\ \A t \in Tables : version[t] \in DOMAIN Schemas[t]
    /\ relations \in [Tables -> {Null} \cup UNION {SchemasOf(t) : t \in Tables}]
    /\ \A t \in Tables : relations[t] \in {Null} \cup SchemasOf(t)
    /\ described \subseteq Tables
    /\ sessions \in 1 .. MaxSessions
    /\ IsSeq(wire)

WellFormed(c) ==
    /\ c.operation \in {"insert", "update", "delete", "truncate"}
    /\ (c.newRow = Null) = (c.operation \in {"delete", "truncate"})
    /\ c.operation \in {"insert", "truncate"} => c.oldRow = Null

IInv ==
    /\ State
    /\ \A t \in described : Knows(wire, relations, t, Schema(t), Len(wire))
    /\ \A i \in 1 .. Len(wire) : Right(wire, relations, i)
    /\ Counted(wire, processed, written)
    /\ outOfStep = FALSE /\ changes = meant
    /\ \A i \in DOMAIN changes : WellFormed(changes[i])

-----------------------------------------------------------------------------
LEMMA RightPrefix ==
  ASSUME NEW w, IsSeq(w), NEW d, IsSeq(d), NEW R, NEW i \in 1 .. Len(w), Right(w, R, i)
  PROVE  Right(w \o d, R, i)
<1>1. Len(w) \in Nat /\ (w \o d)[i] = w[i] /\ i - 1 \in 0 .. Len(w)
  BY SeqConcat
<1>2. \A t, s : Knows(w, R, t, s, i - 1) => Knows(w \o d, R, t, s, i - 1)
  BY <1>1, KnowsPrefix
<1>3. QED
  BY <1>1, <1>2 DEF Right

LEMMA CountedAppend ==
  ASSUME NEW w, IsSeq(w), NEW p, NEW q, Counted(w, p, q), NEW m, m.before = q,
         Len(m.meant) \in Nat
  PROVE  Counted(w \o <<m>>, p, q + Len(m.meant))
<1> DEFINE v == w \o <<m>>
<1>1. /\ Len(w) \in Nat /\ Len(v) = Len(w) + 1 /\ IsSeq(v)
      /\ \A i \in 1 .. Len(w) : v[i] = w[i]
      /\ v[Len(w) + 1] = m
  BY SeqAppended
<1>2. w = <<>> <=> Len(w) = 0
  BY DEF IsSeq
<1>3. v # <<>>
  BY <1>1
<1> HIDE DEF v
<1>4. v[1].before = p
  <2>1. CASE w = <<>>
    BY <1>1, <1>2, <2>1 DEF Counted
  <2>2. CASE w # <<>>
    BY <1>1, <1>2, <2>2 DEF Counted
  <2>3. QED
    BY <2>1, <2>2
<1>5. ASSUME NEW i \in 1 .. Len(v) - 1
      PROVE  v[i + 1].before = v[i].before + Len(v[i].meant)
  <2>1. CASE i = Len(w)
    <3>1. w # <<>> /\ v[i] = w[Len(w)] /\ v[i + 1] = m
      BY <1>1, <1>2, <2>1
    <3>2. QED
      BY <2>1, <3>1 DEF Counted
  <2>2. CASE i # Len(w)
    <3>1. i \in 1 .. Len(w) - 1 /\ v[i] = w[i] /\ v[i + 1] = w[i + 1]
      BY <1>1, <2>2
    <3>2. QED
      BY <3>1 DEF Counted
  <2>3. QED
    BY <2>1, <2>2
<1>6. p \in Nat /\ q + Len(m.meant) \in Nat
  BY DEF Counted
<1>7. v[Len(v)] = m
  BY <1>1
<1>8. Counted(v, p, q + Len(m.meant))
  BY <1>3, <1>4, <1>5, <1>6, <1>7 DEF Counted
<1>9. QED
  BY <1>8 DEF v

LEMMA CountedSilent ==
  ASSUME NEW w, IsSeq(w), NEW p, NEW q, Counted(w, p, q), NEW d, IsSeq(d),
         \A i \in 1 .. Len(d) : d[i].before = q /\ d[i].meant = <<>>
  PROVE  Counted(w \o d, p, q)
<1> DEFINE v == w \o d
<1>1. /\ Len(w) \in Nat /\ Len(d) \in Nat /\ Len(v) = Len(w) + Len(d) /\ IsSeq(v)
      /\ \A i \in 1 .. Len(w) : v[i] = w[i]
      /\ \A i \in 1 .. Len(d) : v[Len(w) + i] = d[i]
  BY SeqConcat
<1>2. (w = <<>> <=> Len(w) = 0) /\ (v = <<>> <=> Len(v) = 0)
  BY <1>1 DEF IsSeq
<1> HIDE DEF v
<1>3. p \in Nat /\ q \in Nat
  BY DEF Counted
<1>4. \A k \in (Len(w) + 1) .. Len(v) : v[k].before = q /\ v[k].meant = <<>>
  <2> SUFFICES ASSUME NEW k \in (Len(w) + 1) .. Len(v)
               PROVE  v[k].before = q /\ v[k].meant = <<>>
    OBVIOUS
  <2>1. k - Len(w) \in 1 .. Len(d) /\ k = Len(w) + (k - Len(w))
    BY <1>1
  <2>2. v[k] = d[k - Len(w)]
    BY <1>1, <2>1
  <2>3. QED
    BY <2>1, <2>2
<1>5. CASE w = <<>>
  <2>1. p = q /\ \A k \in 1 .. Len(v) : v[k].before = q /\ v[k].meant = <<>>
    BY <1>1, <1>2, <1>4, <1>5 DEF Counted
  <2>2. v # <<>> => 1 \in 1 .. Len(v) /\ Len(v) \in 1 .. Len(v)
    BY <1>1, <1>2
  <2>3. \A k \in 1 .. Len(v) - 1 : k \in 1 .. Len(v) /\ k + 1 \in 1 .. Len(v)
    BY <1>1
  <2>4. Counted(v, p, q)
    BY <1>3, <2>1, <2>2, <2>3 DEF Counted
  <2>5. QED
    BY <2>4 DEF v
<1>6. CASE w # <<>>
  <2>1. Len(w) \in 1 .. Len(w) /\ 1 \in 1 .. Len(w) /\ v # <<>>
    BY <1>1, <1>2, <1>6
  <2>2. v[1].before = p /\ v[Len(w)].before + Len(v[Len(w)].meant) = q
    BY <1>1, <1>6, <2>1 DEF Counted
  <2>3. ASSUME NEW i \in 1 .. Len(v) - 1
        PROVE  v[i + 1].before = v[i].before + Len(v[i].meant)
    <3>1. CASE i < Len(w)
      <4>1. i \in 1 .. Len(w) - 1 /\ v[i] = w[i] /\ v[i + 1] = w[i + 1]
        BY <1>1, <3>1
      <4>2. QED
        BY <4>1 DEF Counted
    <3>2. CASE i = Len(w)
      <4>1. i + 1 \in (Len(w) + 1) .. Len(v)
        BY <1>1, <3>2
      <4>2. QED
        BY <1>4, <2>2, <3>2, <4>1
    <3>3. CASE i > Len(w)
      <4>1. i \in (Len(w) + 1) .. Len(v) /\ i + 1 \in (Len(w) + 1) .. Len(v)
        BY <1>1, <3>3
      <4>2. v[i + 1].before = q /\ v[i].before = q /\ Len(v[i].meant) = 0
        BY <1>4, <4>1
      <4>3. QED
        BY <1>3, <4>2
    <3>4. QED
      BY <1>1, <3>1, <3>2, <3>3
  <2>4. q = v[Len(v)].before + Len(v[Len(v)].meant)
    <3>1. CASE Len(d) = 0
      BY <1>1, <2>2, <3>1
    <3>2. CASE Len(d) # 0
      <4>1. Len(v) \in (Len(w) + 1) .. Len(v)
        BY <1>1, <3>2
      <4>2. v[Len(v)].before = q /\ Len(v[Len(v)].meant) = 0
        BY <1>4, <4>1
      <4>3. QED
        BY <1>3, <4>2
    <3>3. QED
      BY <3>1, <3>2
  <2>5. Counted(v, p, q)
    BY <1>3, <2>1, <2>2, <2>3, <2>4 DEF Counted
  <2>6. QED
    BY <2>5 DEF v
<1>7. QED
  BY <1>5, <1>6
-----------------------------------------------------------------------------
(* The server: what it sends is right.                                     *)
ServerMessage(T, m) ==
    /\ m.before = written /\ Len(m.meant) \in Nat /\ T \in SUBSET Tables
    /\ \/ m.kind \in Operations /\ m.id \in T /\ RowRight(m, Schema(m.id))
       \/ /\ m.kind = "truncate" /\ m.ids \in Seq(T)
          /\ m.meant = [k \in DOMAIN m.ids |-> m.meant[k]]
          /\ \A k \in DOMAIN m.ids : TruncateRight(m, k, Schema(m.ids[k]))

LEMMA SchemaKnown ==
  ASSUME State, NEW t \in Tables
  PROVE  Schema(t) \in SchemasOf(t)
BY DEF State, Schema, SchemasOf, Range

\* The descriptions that go ahead of a message: one of each table of it that
\* has not been described since its last change.
LEMMA Descriptions ==
  ASSUME State, NEW T \in SUBSET Tables
  PROVE  LET d == SetToSeq({Describe(t) : t \in T \ described})
         IN  /\ IsSeq(d) /\ Len(d) \in Nat
             /\ \A i \in 1 .. Len(d) :
                   /\ d[i].kind = "relation" /\ d[i].meant = <<>> /\ d[i].before = written
                   /\ d[i].id \in T \ described /\ d[i].relation = Schema(d[i].id)
             /\ \A t \in T \ described : \E j \in 1 .. Len(d) :
                   /\ d[j].id = t
                   /\ \A k \in 1 .. Len(d) : d[k].id = t => k = j
<1> DEFINE N == T \ described
           D == {Describe(t) : t \in N}
           d == SetToSeq(D)
           f == [t \in N |-> Describe(t)]
<1>1. IsFiniteSet(N)
  BY DecodeAssumption, FS_Subset DEF DecodeAssumption
<1>2. f \in Surjection(N, D)
  BY DEF Surjection
<1>3. IsFiniteSet(D)
  <2> HIDE DEF f, D, N
  <2>1. QED
    BY <1>1, <1>2, FS_Surjection
<1>4. /\ d \in Seq(D) /\ IsSeq(d)
      /\ \A x \in D : \E i \in 1 .. Len(d) : d[i] = x
      /\ \A i, j \in 1 .. Len(d) : d[i] = d[j] => i = j
  <2> HIDE DEF D
  <2>1. QED
    BY <1>3, SetInSeq
<1>5. Len(d) \in Nat /\ \A i \in 1 .. Len(d) : d[i] \in D
  <2> HIDE DEF D, d
  <2>1. QED
    BY <1>4
<1> HIDE DEF d
<1>6. \A x \in D : /\ x.kind = "relation" /\ x.meant = <<>> /\ x.before = written
                   /\ x.id \in N /\ x.relation = Schema(x.id)
                   /\ x = Describe(x.id)
  BY DEF Describe
<1>7. ASSUME NEW t \in N
      PROVE  \E j \in 1 .. Len(d) : /\ d[j].id = t
                                    /\ \A k \in 1 .. Len(d) : d[k].id = t => k = j
  <2>1. Describe(t) \in D /\ Describe(t).id = t
    BY DEF Describe
  <2>2. PICK j \in 1 .. Len(d) : d[j] = Describe(t)
    BY <1>4, <2>1
  <2>3. \A k \in 1 .. Len(d) : d[k].id = t => d[k] = d[j]
    BY <1>5, <1>6, <2>2
  <2>4. QED
    BY <1>4, <2>1, <2>2, <2>3
<1>8. QED
  BY <1>4, <1>5, <1>6, <1>7 DEF d

LEMMA SendStep ==
  ASSUME IInv, NEW T, NEW m, ServerMessage(T, m), Send(T, m)
  PROVE  IInv'
<1> DEFINE d == SetToSeq({Describe(t) : t \in T \ described})
           v == wire \o d
<1> USE DEF IInv
<1>1. T \in SUBSET Tables /\ m.before = written /\ Len(m.meant) \in Nat
  BY DEF ServerMessage
<1>2. /\ IsSeq(d) /\ Len(d) \in Nat
      /\ \A i \in 1 .. Len(d) :
            /\ d[i].kind = "relation" /\ d[i].meant = <<>> /\ d[i].before = written
            /\ d[i].id \in T \ described /\ d[i].relation = Schema(d[i].id)
      /\ \A t \in T \ described : \E j \in 1 .. Len(d) :
            d[j].id = t /\ \A k \in 1 .. Len(d) : d[k].id = t => k = j
  BY <1>1, Descriptions
<1>3. /\ wire' = v \o <<m>> /\ described' = described \cup T
      /\ written' = written + Len(m.meant)
      /\ version' = version /\ relations' = relations /\ sessions' = sessions
      /\ processed' = processed /\ changes' = changes /\ meant' = meant
      /\ outOfStep' = outOfStep
  BY DEF Send, decoder
<1>4. IsSeq(wire) /\ \A t : Schema(t)' = Schema(t)
  BY <1>3 DEF State, Schema
<1> HIDE DEF d
<1>5. /\ IsSeq(v) /\ Len(wire) \in Nat /\ Len(v) = Len(wire) + Len(d)
      /\ \A i \in 1 .. Len(wire) : v[i] = wire[i]
      /\ \A i \in 1 .. Len(d) : v[Len(wire) + i] = d[i]
  BY <1>2, <1>4, SeqConcat
<1>6. IsSeq(<<m>>) /\ Len(<<m>>) = 1 /\ <<m>>[1] = m
  BY <1>4, SeqAppended
<1>7. \A t \in described \cup T : Knows(v, relations, t, Schema(t), Len(v))
  <2>1. ASSUME NEW t \in described
        PROVE  Knows(v, relations, t, Schema(t), Len(wire) + Len(d))
    <3>1. Silent(d, t, 1, Len(d)) /\ Len(d) \in 0 .. Len(d)
      BY <1>2 DEF Silent, Describes
    <3>2. Knows(wire, relations, t, Schema(t), Len(wire))
      OBVIOUS
    <3>3. QED
      BY <1>2, <1>4, <3>1, <3>2, KnowsOld
  <2>2. ASSUME NEW t \in T \ described
        PROVE  Knows(v, relations, t, Schema(t), Len(wire) + Len(d))
    <3>1. PICK j \in 1 .. Len(d) : d[j].id = t /\ \A k \in 1 .. Len(d) : d[k].id = t => k = j
      BY <1>2
    <3>2. /\ Describes(d[j], t) /\ d[j].relation = Schema(t) /\ Len(d) \in 0 .. Len(d)
          /\ \A k \in 1 .. Len(d) : Describes(d[k], t) => k = j
      BY <1>2, <3>1 DEF Describes
    <3>3. QED
      BY <1>2, <1>4, <3>2, KnowsNew
  <2>3. QED
    BY <1>5, <2>1, <2>2
<1>8. ASSUME NEW i \in 1 .. Len(v)
      PROVE  Right(v, relations, i)
  <2>1. CASE i \in 1 .. Len(wire)
    BY <1>2, <1>4, <2>1, RightPrefix
  <2>2. CASE i \notin 1 .. Len(wire)
    <3>1. i - Len(wire) \in 1 .. Len(d) /\ i = Len(wire) + (i - Len(wire))
      BY <1>2, <1>5, <2>2
    <3>2. v[i] = d[i - Len(wire)]
      BY <1>5, <3>1
    <3>3. v[i].kind = "relation" /\ v[i].meant = <<>> /\ v[i].id \in Tables
          /\ v[i].relation = Schema(v[i].id)
      BY <1>1, <1>2, <3>1, <3>2
    <3>4. Schema(v[i].id) \in SchemasOf(v[i].id)
      BY <3>3, SchemaKnown
    <3>5. QED
      BY <3>3, <3>4 DEF Right
  <2>3. QED
    BY <2>1, <2>2
<1>9. Counted(v, processed, written)
  BY <1>2, <1>4, CountedSilent
<1> HIDE DEF v
<1>10. /\ IsSeq(wire') /\ Len(v) \in Nat /\ Len(wire') = Len(v) + 1
       /\ \A i \in 1 .. Len(v) : wire'[i] = v[i]
       /\ wire'[Len(v) + 1] = m
  <2>1. /\ IsSeq(v \o <<m>>) /\ Len(v) \in Nat /\ Len(v \o <<m>>) = Len(v) + 1
        /\ \A i \in 1 .. Len(v) : (v \o <<m>>)[i] = v[i]
        /\ (v \o <<m>>)[Len(v) + 1] = m
    <3>1. IsSeq(v)
      BY <1>5
    <3>2. QED
      BY <3>1, SeqAppended, Zenon
  <2>2. wire' = v \o <<m>>
    BY <1>3
  <2>3. QED
    BY <2>1, <2>2, Zenon
<1>11. \A t \in described' : Knows(wire', relations', t, Schema(t)', Len(wire'))
  <2> SUFFICES ASSUME NEW t \in described \cup T
               PROVE  Knows(v \o <<m>>, relations, t, Schema(t), Len(v) + 1)
    BY <1>3, <1>4, <1>10
  <2>1. Silent(<<m>>, t, 1, 1) /\ 1 \in 0 .. Len(<<m>>)
    BY <1>6 DEF ServerMessage, Silent, Describes, Operations
  <2>2. QED
    BY <1>5, <1>6, <1>7, <2>1, KnowsOld
<1>12. ASSUME NEW i \in 1 .. Len(wire')
       PROVE  Right(wire', relations', i)
  <2>1. CASE i \in 1 .. Len(v)
    BY <1>3, <1>5, <1>6, <1>8, <2>1, RightPrefix
  <2>2. CASE i \notin 1 .. Len(v)
    <3>1. i = Len(v) + 1 /\ wire'[i] = m /\ i - 1 = Len(v) /\ Len(v) \in 0 .. Len(v)
      BY <1>10, <2>2
    <3>2. \A t \in T : /\ Knows(wire', relations', t, Schema(t), i - 1)
                       /\ Schema(t) \in SchemasOf(t) /\ t \in Tables
      <4>1. ASSUME NEW t \in T PROVE Knows(v \o <<m>>, relations, t, Schema(t), Len(v))
        BY <1>5, <1>6, <1>7, <3>1, KnowsPrefix
      <4>2. \A t \in T : Schema(t) \in SchemasOf(t) /\ t \in Tables
        BY <1>1, SchemaKnown
      <4>3. QED
        BY <1>3, <3>1, <4>1, <4>2
    <3>3. CASE m.kind \in Operations /\ m.id \in T /\ RowRight(m, Schema(m.id))
      BY <3>1, <3>2, <3>3 DEF Right
    <3>4. CASE /\ m.kind = "truncate" /\ m.ids \in Seq(T)
               /\ m.meant = [k \in DOMAIN m.ids |-> m.meant[k]]
               /\ \A k \in DOMAIN m.ids : TruncateRight(m, k, Schema(m.ids[k]))
      <4>1. m.ids \in Seq(Tables) /\ \A k \in DOMAIN m.ids : m.ids[k] \in T
        BY <1>1, <3>4
      <4>2. QED
        BY <3>1, <3>2, <3>4, <4>1 DEF Right
    <3>5. QED
      BY <3>3, <3>4 DEF ServerMessage
  <2>3. QED
    BY <2>1, <2>2
<1>13. Counted(wire', processed', written')
  BY <1>1, <1>3, <1>5, <1>9, CountedAppend
<1>14. State'
  BY <1>1, <1>3, <1>10 DEF State
<1>15. (outOfStep = FALSE /\ changes = meant)' /\ (\A i \in DOMAIN changes : WellFormed(changes[i]))'
  BY <1>3
<1>16. QED
  BY <1>11, <1>12, <1>13, <1>14, <1>15
LEMMA SendRowStep ==
  ASSUME IInv, NEW t \in Tables, SendInsert(t) \/ SendUpdate(t) \/ SendDelete(t)
  PROVE  IInv'
<1> DEFINE s == Schema(t)
<1>1. State /\ s \in SchemasOf(t) /\ s # Null
  BY SchemaKnown, SchemaFacts DEF IInv
<1>2. Columns(t) = Range(s.columns)
  BY DEF Columns
<1> HIDE DEF s
<1>3. \A row \in [Columns(t) -> {"n", "t"}] : row \in RowsOf(s) /\ row # Null
  <2>1. ASSUME NEW row \in [Columns(t) -> {"n", "t"}]
        PROVE  row \in [Columns(t) -> {"n", "u", "t"}]
    OBVIOUS
  <2>2. Null \notin [Columns(t) -> {"n", "u", "t"}]
    BY <1>1, <1>2, SchemaFacts
  <2>3. QED
    BY <1>2, <2>1, <2>2 DEF RowsOf
<1>4. \A row \in [Columns(t) -> {"n", "u", "t"}] : row \in RowsOf(s) /\ row # Null
  <2>1. Null \notin [Columns(t) -> {"n", "u", "t"}]
    BY <1>1, <1>2, SchemaFacts
  <2>2. QED
    BY <1>2, <2>1 DEF RowsOf
<1>5. KeyRow(t) \in RowsOf(s) /\ Null \in RowsOf(s)
  <2>1. KeyRow(t) \in [Columns(t) -> {"n", "t"}]
    BY DEF KeyRow
  <2>2. QED
    BY <1>3, <2>1 DEF RowsOf
<1>6. ASSUME NEW operation \in Operations, NEW old \in RowsOf(s), NEW new \in RowsOf(s),
             (new = Null) = (operation = "delete"), operation = "insert" => old = Null,
             Send({t}, RowMessage(t, operation, old, new))
      PROVE  IInv'
  <2> DEFINE m == RowMessage(t, operation, old, new)
  <2>1. /\ m.kind = operation /\ m.id = t /\ m.before = written
        /\ m.old = Tuple(s, old) /\ m.new = Tuple(s, new)
        /\ m.meant = <<Change(s.name, operation, Written(old), Written(new))>>
    BY DEF RowMessage, s
  <2> HIDE DEF m
  <2>2. RowRight(m, s)
    BY <1>6, <2>1 DEF RowRight
  <2>3. Len(m.meant) = 1 /\ {t} \in SUBSET Tables /\ m.id \in {t} /\ m.kind \in Operations
    BY <2>1
  <2>4. ServerMessage({t}, m)
    BY <2>1, <2>2, <2>3 DEF ServerMessage, s
  <2>5. QED
    BY <1>6, <2>4, SendStep DEF m
<1>7. CASE SendInsert(t)
  <2>1. PICK row \in [Columns(t) -> {"n", "t"}] : Send({t}, RowMessage(t, "insert", Null, row))
    BY <1>7 DEF SendInsert
  <2>2. QED
    BY <1>3, <1>5, <1>6, <2>1 DEF Operations
<1>8. CASE SendUpdate(t)
  <2>1. PICK row \in [Columns(t) -> {"n", "u", "t"}], oldRow \in {Null, KeyRow(t)} :
            Send({t}, RowMessage(t, "update", oldRow, row))
    BY <1>8 DEF SendUpdate
  <2>2. QED
    BY <1>4, <1>5, <1>6, <2>1 DEF Operations
<1>9. CASE SendDelete(t)
  BY <1>5, <1>6, <1>9 DEF SendDelete, Operations
<1>10. QED
  BY <1>7, <1>8, <1>9

LEMMA SendTruncateStep ==
  ASSUME IInv, SendTruncate
  PROVE  IInv'
<1>1. PICK T \in SUBSET Tables \ {{}} :
        Send(T, [kind |-> "truncate", ids |-> SetToSeq(T),
                 meant |-> [i \in DOMAIN SetToSeq(T) |->
                              Change(Schema(SetToSeq(T)[i]).name, "truncate", Null, Null)],
                 before |-> written])
  BY DEF SendTruncate
<1> DEFINE ids == SetToSeq(T)
           m == [kind |-> "truncate", ids |-> ids,
                 meant |-> [i \in DOMAIN ids |->
                              Change(Schema(ids[i]).name, "truncate", Null, Null)],
                 before |-> written]
<1>2. ids \in Seq(T)
  <2>1. IsFiniteSet(T)
    BY DecodeAssumption, FS_Subset DEF DecodeAssumption
  <2>2. QED
    BY <2>1, SetInSeq
<1> HIDE DEF ids
<1>3. /\ m.kind = "truncate" /\ m.ids = ids /\ m.before = written
      /\ m.meant = [k \in DOMAIN m.ids |-> m.meant[k]]
      /\ \A k \in DOMAIN m.ids : TruncateRight(m, k, Schema(m.ids[k]))
  BY DEF TruncateRight
<1>4. Len(m.meant) \in Nat
  <2>1. DOMAIN ids = 1 .. Len(ids) /\ Len(ids) \in Nat
    BY <1>2
  <2>2. DOMAIN m.meant = 1 .. Len(ids)
    BY <2>1
  <2> HIDE DEF m
  <2>3. QED
    BY <2>1, <2>2
<1> HIDE DEF m
<1>5. ServerMessage(T, m)
  BY <1>2, <1>3, <1>4 DEF ServerMessage
<1>6. QED
  BY <1>1, <1>5, SendStep DEF m, ids

\* A change of schema: the table is no longer described.
LEMMA AlterStep ==
  ASSUME IInv, NEW t \in Tables, Alter(t)
  PROVE  IInv'
<1> USE DEF IInv
<1>1. /\ version' = [version EXCEPT ![t] = @ + 1] /\ version[t] < Len(Schemas[t])
      /\ described' = described \ {t} /\ wire' = wire /\ written' = written
      /\ sessions' = sessions /\ relations' = relations /\ processed' = processed
      /\ changes' = changes /\ meant' = meant /\ outOfStep' = outOfStep
  BY DEF Alter, decoder
<1>2. \A u \in Tables : Schemas[u] \in Seq(Range(Schemas[u]))
  BY DecodeAssumption DEF DecodeAssumption
<1>3. version' \in [Tables -> Nat] /\ \A u \in Tables : version'[u] \in DOMAIN Schemas[u]
  <2>1. version[t] \in Nat /\ version[t] + 1 \in DOMAIN Schemas[t]
    BY <1>1, <1>2 DEF State
  <2>2. QED
    BY <1>1, <2>1 DEF State
<1>4. State'
  BY <1>1, <1>3 DEF State
<1>5. \A u \in described' : Knows(wire', relations', u, Schema(u)', Len(wire'))
  <2> SUFFICES ASSUME NEW u \in described, u # t
               PROVE  Knows(wire, relations, u, Schema(u)', Len(wire))
    BY <1>1
  <2>1. version'[u] = version[u]
    BY <1>1 DEF State
  <2>2. Schema(u)' = Schema(u)
    BY <2>1 DEF Schema
  <2>3. QED
    BY <2>2
<1>6. (\A i \in 1 .. Len(wire) : Right(wire, relations, i))' /\ Counted(wire, processed, written)'
  BY <1>1 DEF Right, Counted
<1>7. (outOfStep = FALSE /\ changes = meant /\ \A i \in DOMAIN changes : WellFormed(changes[i]))'
  BY <1>1
<1>8. QED
  BY <1>4, <1>5, <1>6, <1>7
-----------------------------------------------------------------------------
(* The decoder: it takes the first message, and keeps what it describes.   *)
LEMMA TakeStep ==
  ASSUME IInv, wire # <<>>, wire' = Tail(wire),
         version' = version, described' = described, written' = written, sessions' = sessions,
         processed' = processed + Len(wire[1].meant),
         \A t \in Tables : relations'[t] = IF Describes(wire[1], t) THEN wire[1].relation
                                           ELSE relations[t]
  PROVE  /\ IsSeq(wire')
         /\ \A t \in described' : Knows(wire', relations', t, Schema(t)', Len(wire'))
         /\ \A i \in 1 .. Len(wire') : Right(wire', relations', i)
         /\ Counted(wire', processed', written')
<1> USE DEF IInv
<1>1. /\ IsSeq(wire) /\ IsSeq(wire') /\ Len(wire) \in Nat \ {0}
      /\ Len(wire') = Len(wire) - 1
      /\ \A i \in 1 .. Len(wire') : wire'[i] = wire[i + 1]
  <2>1. IsSeq(wire)
    BY DEF State
  <2>2. QED
    BY <2>1, SeqTail
<1>2. ASSUME NEW t \in Tables, NEW s, NEW i \in 1 .. Len(wire), Knows(wire, relations, t, s, i)
      PROVE  Knows(wire', relations', t, s, i - 1)
  <2>1. relations'[t] = IF Describes(wire[1], t) THEN wire[1].relation ELSE relations[t]
    OBVIOUS
  <2>2. Knows(Tail(wire), relations', t, s, i - 1)
    BY <1>1, <1>2, <2>1, KnowsTail
  <2>3. QED
    BY <2>2
<1>3. ASSUME NEW t \in described'
      PROVE  Knows(wire', relations', t, Schema(t)', Len(wire'))
  <2>1. Schema(t)' = Schema(t) /\ t \in Tables /\ Len(wire) \in 1 .. Len(wire)
    BY <1>1 DEF Schema, State
  <2>2. Knows(wire, relations, t, Schema(t), Len(wire))
    OBVIOUS
  <2>3. QED
    BY <1>1, <1>2, <2>1, <2>2
<1>4. ASSUME NEW i \in 1 .. Len(wire')
      PROVE  Right(wire', relations', i)
  <2>1. /\ i + 1 \in 1 .. Len(wire) /\ wire'[i] = wire[i + 1] /\ i \in 1 .. Len(wire)
        /\ (i + 1) - 1 = i
    BY <1>1
  <2>2. Right(wire, relations, i + 1)
    BY <2>1
  <2>3. \A t \in Tables : \A s : Knows(wire, relations, t, s, i) =>
                                 Knows(wire', relations', t, s, i - 1)
    BY <1>2, <2>1
  <2>4. CASE wire'[i].kind = "relation"
    BY <2>1, <2>2, <2>4 DEF Right, Operations
  <2>5. CASE wire'[i].kind \in Operations
    BY <2>1, <2>2, <2>3, <2>5 DEF Right, Operations
  <2>6. CASE wire'[i].kind = "truncate"
    <3>1. /\ wire'[i].ids \in Seq(Tables)
          /\ wire'[i].meant = [k \in DOMAIN wire'[i].ids |-> wire'[i].meant[k]]
          /\ \A k \in DOMAIN wire'[i].ids : \E s \in SchemasOf(wire'[i].ids[k]) :
                Knows(wire, relations, wire'[i].ids[k], s, i) /\ TruncateRight(wire'[i], k, s)
      BY <2>1, <2>2, <2>6 DEF Right, Operations
    <3>2. \A k \in DOMAIN wire'[i].ids : wire'[i].ids[k] \in Tables
      BY <3>1
    <3>3. QED
      BY <2>3, <2>6, <3>1, <3>2 DEF Right
  <2>7. QED
    BY <2>1, <2>2, <2>4, <2>5, <2>6 DEF Right
<1>5. /\ processed \in Nat /\ written \in Nat
      /\ processed = wire[1].before
      /\ written = wire[Len(wire)].before + Len(wire[Len(wire)].meant)
      /\ \A i \in 1 .. Len(wire) - 1 : wire[i + 1].before = wire[i].before + Len(wire[i].meant)
  BY DEF Counted
<1>6. Len(wire[1].meant) \in Nat
  <2>1. Right(wire, relations, 1)
    BY <1>1
  <2>2. CASE wire[1].meant = <<>>
    BY <2>2
  <2>3. CASE wire[1].kind \in Operations
    <3>1. \E c : wire[1].meant = <<c>>
      BY <2>1, <2>3 DEF Right, RowRight, Operations
    <3>2. QED
      BY <3>1
  <2>4. CASE wire[1].kind = "truncate"
    <3>1. DOMAIN wire[1].meant = DOMAIN wire[1].ids /\ wire[1].ids \in Seq(Tables)
      BY <2>1, <2>4 DEF Right, Operations
    <3>2. DOMAIN wire[1].meant = 1 .. Len(wire[1].ids) /\ Len(wire[1].ids) \in Nat
      BY <3>1
    <3>3. QED
      BY <3>2
  <2>5. QED
    BY <2>1, <2>2, <2>3, <2>4 DEF Right
<1>7. Counted(wire', processed', written')
  <2>1. wire' = <<>> <=> Len(wire) = 1
    <3>1. \A w : IsSeq(w) => (w = <<>> <=> Len(w) = 0)
      BY DEF IsSeq
    <3>2. wire' = <<>> <=> Len(wire') = 0
      BY <1>1, <3>1, Zenon
    <3>3. QED
      BY <1>1, <3>2
  <2>2. processed' \in Nat /\ written' \in Nat
    BY <1>5, <1>6
  <2>3. CASE Len(wire) = 1
    <3>1. processed' = written'
      BY <1>5, <2>3
    <3>2. wire' = <<>> /\ Len(wire') = 0
      BY <1>1, <2>1, <2>3
    <3>3. \A i \in 1 .. Len(wire') - 1 : FALSE
      BY <3>2
    <3>4. QED
      BY <2>2, <3>1, <3>2, <3>3 DEF Counted
  <2>4. CASE Len(wire) # 1
    <3>1. 1 \in 1 .. Len(wire) - 1 /\ 1 \in 1 .. Len(wire') /\ Len(wire') \in 1 .. Len(wire')
          /\ Len(wire') + 1 = Len(wire)
      BY <1>1, <2>4
    <3>2. wire'[1] = wire[2] /\ wire'[Len(wire')] = wire[Len(wire)]
      BY <1>1, <3>1
    <3>3. processed' = wire'[1].before /\ written' = wire'[Len(wire')].before + Len(wire'[Len(wire')].meant)
      BY <1>5, <3>1, <3>2
    <3>4. ASSUME NEW i \in 1 .. Len(wire') - 1
          PROVE  wire'[i + 1].before = wire'[i].before + Len(wire'[i].meant)
      <4>1. /\ i \in 1 .. Len(wire') /\ i + 1 \in 1 .. Len(wire')
            /\ i + 1 \in 1 .. Len(wire) - 1
        BY <1>1
      <4>2. wire'[i] = wire[i + 1] /\ wire'[i + 1] = wire[(i + 1) + 1]
        BY <1>1, <4>1
      <4>3. QED
        BY <1>5, <4>1, <4>2
    <3>5. QED
      BY <2>1, <2>2, <2>4, <3>3, <3>4 DEF Counted
  <2>5. QED
    BY <2>3, <2>4
<1>8. QED
  BY <1>1, <1>3, <1>4, <1>7
\* What the message says, read with the description in the cache, is what was
\* written.
LEMMA DecodeStep ==
  ASSUME IInv, wire # <<>>,
         DecodeRelation(Head(wire)) \/ DecodeRow(Head(wire)) \/ DecodeTruncate(Head(wire))
  PROVE  IInv'
<1> USE DEF IInv
<1> DEFINE m == Head(wire)
<1>1. /\ IsSeq(wire) /\ m = wire[1] /\ 1 \in 1 .. Len(wire)
  <2>1. IsSeq(wire)
    BY DEF State
  <2>2. QED
    BY <2>1, SeqTail
<1>2. Right(wire, relations, 1)
  BY <1>1
<1>3. \A t \in Tables : \A s : Knows(wire, relations, t, s, 0) => relations[t] = s
  BY DEF Knows
<1>4. /\ wire' = Tail(wire) /\ version' = version /\ described' = described
      /\ written' = written /\ sessions' = sessions /\ meant' = m.meant
  BY DEF DecodeRelation, DecodeRow, DecodeTruncate, Returns, server
<1> HIDE DEF m
<1>5. CASE DecodeRelation(m)
  <2>1. /\ m.kind = "relation" /\ relations' = [relations EXCEPT ![m.id] = m.relation]
        /\ changes' = <<>> /\ outOfStep' = FALSE /\ processed' = processed
    <3>1. /\ m.kind = "relation" /\ relations' = [relations EXCEPT ![m.id] = m.relation]
          /\ changes' = IF TRUE THEN <<>> ELSE <<>>
          /\ outOfStep' = (outOfStep \/ ~TRUE) /\ processed' = processed
      BY <1>5, Zenon DEF DecodeRelation, Returns
    <3>2. QED
      BY <3>1
  <2>2. m.meant = <<>> /\ m.id \in Tables /\ m.relation \in SchemasOf(m.id)
    BY <1>1, <1>2, <2>1 DEF Right, Operations
  <2>3. \A t \in Tables : relations'[t] = IF Describes(m, t) THEN m.relation ELSE relations[t]
    BY <2>1 DEF Describes, State
  <2>4. processed' = processed + Len(m.meant)
    <3>1. processed \in Nat
      BY DEF Counted
    <3>2. QED
      BY <2>1, <2>2, <3>1
  <2>5. State'
    <3>1. /\ relations' \in [Tables -> {Null} \cup UNION {SchemasOf(t) : t \in Tables}]
          /\ \A t \in Tables : relations'[t] \in {Null} \cup SchemasOf(t)
      BY <2>1, <2>2 DEF State
    <3>2. IsSeq(wire')
      BY <1>1, <1>4, SeqTail
    <3>3. QED
      BY <1>4, <3>1, <3>2 DEF State
  <2>6. (outOfStep = FALSE /\ changes = meant /\ \A i \in DOMAIN changes : WellFormed(changes[i]))'
    BY <1>4, <2>1, <2>2
  <2>7. QED
    BY <1>1, <1>4, <2>3, <2>4, <2>5, <2>6, TakeStep
<1>6. ASSUME relations' = relations, m.kind # "relation", changes' = m.meant,
             processed' = processed + Len(changes'), outOfStep' = FALSE,
             \A i \in DOMAIN m.meant : WellFormed(m.meant[i])
      PROVE  IInv'
  <2>1. \A t \in Tables : relations'[t] = IF Describes(m, t) THEN m.relation ELSE relations[t]
    BY <1>6 DEF Describes
  <2>2. IsSeq(wire')
    BY <1>1, <1>4, SeqTail
  <2>3. State'
    BY <1>4, <1>6, <2>2 DEF State
  <2>4. (outOfStep = FALSE /\ changes = meant /\ \A i \in DOMAIN changes : WellFormed(changes[i]))'
    BY <1>4, <1>6
  <2>5. QED
    BY <1>1, <1>4, <1>6, <2>1, <2>3, <2>4, TakeStep
<1>7. CASE DecodeRow(m)
  <2> DEFINE s == relations[m.id]
  <2>1. m.kind \in Operations /\ m.id \in Tables /\ s \in SchemasOf(m.id) /\ RowRight(m, s)
    BY <1>1, <1>2, <1>3, <1>7 DEF Right, DecodeRow, Operations
  <2>2. PICK old, new \in RowsOf(s) :
           /\ m.old = Tuple(s, old) /\ m.new = Tuple(s, new)
           /\ m.meant = <<Change(s.name, m.kind, Written(old), Written(new))>>
           /\ (new = Null) = (m.kind = "delete")
           /\ m.kind = "insert" => old = Null
    BY <2>1 DEF RowRight
  <2> HIDE DEF s
  <2>3. /\ Fits(m.old, s) /\ TupleToMap(m.old, s) = Written(old)
        /\ Fits(m.new, s) /\ TupleToMap(m.new, s) = Written(new)
        /\ (Written(old) = Null <=> old = Null) /\ (Written(new) = Null <=> new = Null)
        /\ s # Null
    BY <2>1, <2>2, NamesPutBack, SchemaFacts
  <2>4. /\ relations' = relations /\ changes' = m.meant
        /\ processed' = processed + Len(changes') /\ outOfStep' = FALSE
    <3> DEFINE fits == s # Null /\ Fits(m.old, s) /\ Fits(m.new, s)
               cs == <<Change(s.name, m.kind, TupleToMap(m.old, s), TupleToMap(m.new, s))>>
    <3>1. /\ changes' = IF fits THEN cs ELSE <<>>
          /\ outOfStep' = (outOfStep \/ ~fits)
          /\ processed' = processed + Len(changes') /\ relations' = relations
      BY <1>7, Zenon DEF DecodeRow, Returns, s
    <3>2. fits /\ cs = m.meant
      BY <2>2, <2>3
    <3> HIDE DEF fits, cs
    <3>3. QED
      BY <3>1, <3>2
  <2>5. WellFormed(Change(s.name, m.kind, Written(old), Written(new)))
    BY <2>1, <2>2, <2>3 DEF WellFormed, Change, Operations
  <2>6. \A i \in DOMAIN m.meant : WellFormed(m.meant[i])
    BY <2>2, <2>5
  <2>7. QED
    BY <1>6, <2>1, <2>4, <2>6 DEF Operations
<1>8. CASE DecodeTruncate(m)
  <2>1. /\ m.kind = "truncate" /\ m.ids \in Seq(Tables)
        /\ m.meant = [k \in DOMAIN m.ids |-> m.meant[k]]
        /\ \A k \in DOMAIN m.ids : \E s \in SchemasOf(m.ids[k]) :
              Knows(wire, relations, m.ids[k], s, 0) /\ TruncateRight(m, k, s)
    BY <1>1, <1>2, <1>8 DEF Right, DecodeTruncate, Operations
  <2>2. ASSUME NEW k \in DOMAIN m.ids
        PROVE  /\ relations[m.ids[k]] # Null
               /\ m.meant[k] = Change(relations[m.ids[k]].name, "truncate", Null, Null)
    <3>1. m.ids[k] \in Tables
      BY <2>1
    <3>2. PICK s \in SchemasOf(m.ids[k]) :
             Knows(wire, relations, m.ids[k], s, 0) /\ TruncateRight(m, k, s)
      BY <2>1
    <3>3. relations[m.ids[k]] = s /\ s # Null
      BY <1>3, <3>1, <3>2, SchemaFacts
    <3>4. QED
      BY <3>2, <3>3 DEF TruncateRight
  <2>3. Truncated(m.ids) = m.meant
    BY <2>1, <2>2 DEF Truncated
  <2>4. /\ relations' = relations /\ changes' = m.meant
        /\ processed' = processed + Len(changes') /\ outOfStep' = FALSE
    <3> DEFINE fits == \A i \in DOMAIN m.ids : relations[m.ids[i]] # Null
    <3>1. /\ changes' = IF fits THEN Truncated(m.ids) ELSE <<>>
          /\ outOfStep' = (outOfStep \/ ~fits)
          /\ processed' = processed + Len(changes') /\ relations' = relations
      BY <1>8, Zenon DEF DecodeTruncate, Returns
    <3>2. fits
      BY <2>2
    <3> HIDE DEF fits
    <3>3. QED
      BY <2>3, <3>1, <3>2
  <2>5. \A k \in DOMAIN m.meant : WellFormed(m.meant[k])
    <3>1. \A k \in DOMAIN m.ids : WellFormed(m.meant[k])
      <4>1. \A table : WellFormed(Change(table, "truncate", Null, Null))
        BY DEF WellFormed, Change
      <4>2. QED
        BY <2>2, <4>1
    <3>2. DOMAIN m.meant = DOMAIN m.ids
      BY <2>1
    <3>3. QED
      BY <3>1, <3>2
  <2>6. QED
    BY <1>6, <2>1, <2>4, <2>5
<1>9. QED
  BY <1>5, <1>7, <1>8 DEF m

-----------------------------------------------------------------------------
LEMMA EmptyWire ==
  ASSUME NEW R
  PROVE  /\ IsSeq(<<>>) /\ Counted(<<>>, 0, 0)
         /\ \A i \in 1 .. Len(<<>>) : Right(<<>>, R, i)
<1>1. IsSeq(<<>>) /\ Len(<<>>) = 0
  BY DEF IsSeq
<1>2. Counted(<<>>, 0, 0)
  BY DEF Counted
<1>3. QED
  BY <1>1, <1>2

LEMMA InitInv == Init => IInv
<1> SUFFICES ASSUME Init PROVE IInv
  OBVIOUS
<1>1. State
  <2>1. \A t \in Tables : 1 \in DOMAIN Schemas[t]
    BY DecodeAssumption DEF DecodeAssumption
  <2>2. 1 \in 1 .. MaxSessions
    BY DecodeAssumption DEF DecodeAssumption
  <2>3. QED
    BY <2>1, <2>2, EmptyWire DEF Init, State
<1>2. QED
  BY <1>1, EmptyWire DEF Init, IInv

LEMMA NewSessionStep ==
  ASSUME IInv, NewSession
  PROVE  IInv'
<1>1. sessions' \in 1 .. MaxSessions
  BY DecodeAssumption DEF DecodeAssumption, NewSession, IInv, State
<1>2. State'
  BY <1>1, EmptyWire DEF NewSession, IInv, State
<1>3. QED
  BY <1>2, EmptyWire DEF NewSession, IInv

LEMMA StutterStep ==
  ASSUME IInv, UNCHANGED vars
  PROVE  IInv'
BY DEF IInv, State, Schema, Right, Counted, vars, server, decoder

\* Every message on its way will find in the cache the very description under
\* which it was built, and says how much was written before it.
THEOREM DecodeInductive == Spec => []IInv
<1>1. ASSUME IInv, [Next]_vars
      PROVE  IInv'
  <2>1. CASE UNCHANGED vars
    BY <1>1, <2>1, StutterStep
  <2>2. ASSUME NEW t \in Tables, SendInsert(t) \/ SendUpdate(t) \/ SendDelete(t) \/ Alter(t)
        PROVE  IInv'
    BY <1>1, <2>2, SendRowStep, AlterStep
  <2>3. CASE SendTruncate
    BY <1>1, <2>3, SendTruncateStep
  <2>4. CASE /\ wire # <<>>
             /\ \/ DecodeRelation(Head(wire)) \/ DecodeRow(Head(wire))
                \/ DecodeTruncate(Head(wire))
    BY <1>1, <2>4, DecodeStep
  <2>5. CASE NewSession
    BY <1>1, <2>5, NewSessionStep
  <2>6. QED
    BY <1>1, <2>1, <2>2, <2>3, <2>4, <2>5 DEF Next
<1>2. QED
  BY <1>1, InitInv, PTL DEF Spec

\* Every cached description is one that its table has had, and a change has the
\* rows of its operation: a delete no new row, an insert no old one.
THEOREM DecodeTypeCorrect == Spec => []TypeOK
<1>1. IInv => TypeOK
  <2> SUFFICES ASSUME IInv PROVE TypeOK
    OBVIOUS
  <2>1. /\ \A t \in Tables : /\ version[t] \in DOMAIN Schemas[t]
                             /\ relations[t] \in {Null} \cup Range(Schemas[t])
        /\ described \subseteq Tables /\ sessions \in 1 .. MaxSessions
    BY DEF IInv, State, SchemasOf
  <2>2. written \in Nat /\ processed \in Nat /\ outOfStep \in BOOLEAN
    BY DEF IInv, Counted
  <2>3. \A i \in DOMAIN changes : WellFormed(changes[i])
    BY DEF IInv
  <2>4. QED
    BY <2>1, <2>2, <2>3, Zenon DEF WellFormed, TypeOK
<1>2. QED
  BY <1>1, DecodeInductive, PTL

\* No row and no truncate comes before the description it needs, and no tuple
\* has more values than the cached description has names.
THEOREM DecoderInStep == Spec => []InStep
<1>1. IInv => InStep
  BY DEF IInv, InStep
<1>2. QED
  BY <1>1, DecodeInductive, PTL

\* What Decode returns is what was written, under the names of the time: no
\* change of schema puts a value under the name of another column.
THEOREM ChangesAsWritten == Spec => []RowsAsWritten
<1>1. IInv => RowsAsWritten
  BY DEF IInv, RowsAsWritten
<1>2. QED
  BY <1>1, DecodeInductive, PTL

\* ChangesProcessed is all that was written before the next message on its way.
THEOREM ProcessedExact == Spec => []EveryChangeCounted
<1>1. IInv => EveryChangeCounted
  <2> SUFFICES ASSUME IInv PROVE EveryChangeCounted
    OBVIOUS
  <2>1. wire # <<>> => Head(wire) = wire[1]
    BY SeqTail DEF IInv, State
  <2>2. QED
    BY <2>1 DEF IInv, Counted, EveryChangeCounted
<1>2. QED
  BY <1>1, DecodeInductive, PTL
=============================================================================
