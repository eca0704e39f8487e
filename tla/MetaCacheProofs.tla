--------------------------- MODULE MetaCacheProofs --------------------------
(***************************************************************************)
(* What the offsets of a message are, for messages of up to three fields,  *)
(* which is what the functions of the repository have, and that a value    *)
(* put into a field is the one found there.                                *)
(***************************************************************************)
EXTENDS MetaCache, SequenceTheorems, FiniteSetTheorems, TLAPS

\* A message takes a field with its NULL flag after the other.
LEMMA LengthOfMessage ==
  ASSUME NEW fs, DOMAIN fs \subseteq {1, 2, 3},
         \A i \in DOMAIN fs : DataCells(fs[i]) \in Int
  PROVE  LET c(i) == IF i \in DOMAIN fs THEN DataCells(fs[i]) + 1 ELSE 0
         IN  MessageLength(fs) = c(1) + c(2) + c(3)
<1> DEFINE c(i) == IF i \in DOMAIN fs THEN DataCells(fs[i]) + 1 ELSE 0
           add(n, f) == n + DataCells(f) + 1
           step(g, s) == IF s = {} THEN 0 ELSE add(g[s \ {Max(s)}], fs[Max(s)])
           sums == CHOOSE g : g = [s \in SUBSET DOMAIN fs |-> step(g, s)]
           sum == [s \in SUBSET DOMAIN fs |-> (IF 1 \in s THEN c(1) ELSE 0) + (IF 2 \in s THEN c(2) ELSE 0)
                                              + (IF 3 \in s THEN c(3) ELSE 0)]
<1>1. MessageLength(fs) = sums[DOMAIN fs]
  BY DEF MessageLength, FoldLeft, MapThenFoldSet
<1>2. \A s \in SUBSET DOMAIN fs : s # {} => Max(s) \in s /\ \A y \in s : Max(s) >= y
  <2> SUFFICES ASSUME NEW s \in SUBSET {1, 2, 3}, s # {}
               PROVE  \E x \in s : \A y \in s : x >= y
    BY DEF Max
  <2>1. CASE 3 \in s
    BY <2>1
  <2>2. CASE 3 \notin s /\ 2 \in s
    BY <2>2
  <2>3. CASE 3 \notin s /\ 2 \notin s
    <3>1. s = {1}
      BY <2>3
    <3> QED BY <3>1
  <2> QED BY <2>1, <2>2, <2>3
<1>3. c(1) \in Int /\ c(2) \in Int /\ c(3) \in Int
  OBVIOUS
<1>4. \A s \in SUBSET DOMAIN fs : sum[s] = step(sum, s)
  <2>0. sum[{}] = step(sum, {})
    OBVIOUS
  <2> SUFFICES ASSUME NEW s \in SUBSET DOMAIN fs, s # {}
               PROVE  sum[s] = sum[s \ {Max(s)}] + DataCells(fs[Max(s)]) + 1
    <3>1. ASSUME NEW s \in SUBSET DOMAIN fs, s # {} PROVE sum[s] = step(sum, s)
      <4>1. sum[s] = sum[s \ {Max(s)}] + DataCells(fs[Max(s)]) + 1
        BY <3>1
      <4> HIDE DEF sum
      <4> QED BY <3>1, <4>1
    <3> HIDE DEF sum, step
    <3> QED BY <2>0, <3>1
  <2> DEFINE x == Max(s)
             t == s \ {x}
  <2>1. x \in s /\ x \in {1, 2, 3}
    BY <1>2
  <2>2. t \in SUBSET DOMAIN fs
    OBVIOUS
  <2>3. DataCells(fs[x]) + 1 = c(x)
    BY <2>1
  <2>4. /\ sum[s] = (IF 1 \in s THEN c(1) ELSE 0) + (IF 2 \in s THEN c(2) ELSE 0) + (IF 3 \in s THEN c(3) ELSE 0)
        /\ sum[t] = (IF 1 \in t THEN c(1) ELSE 0) + (IF 2 \in t THEN c(2) ELSE 0) + (IF 3 \in t THEN c(3) ELSE 0)
    BY <2>2
  <2>5. \A k : k \in t <=> k \in s /\ k # x
    OBVIOUS
  <2>6. DataCells(fs[x]) \in Int
    BY <2>1
  <2> HIDE DEF sum, x, t, c
  <2>7. sum[s] = sum[t] + c(x)
    <3>1. CASE x = 1
      BY <1>3, <2>1, <2>4, <2>5, <3>1
    <3>2. CASE x = 2
      BY <1>3, <2>1, <2>4, <2>5, <3>2
    <3>3. CASE x = 3
      BY <1>3, <2>1, <2>4, <2>5, <3>3
    <3> QED BY <2>1, <3>1, <3>2, <3>3
  <2>8. sum[t] \in Int
    BY <1>3, <2>4
  <2> QED BY <2>3, <2>6, <2>7, <2>8 DEF x, t
<1> HIDE DEF c
<1>5. sum = [s \in SUBSET DOMAIN fs |-> step(sum, s)]
  <2>1. sum = [s \in SUBSET DOMAIN fs |-> sum[s]]
    OBVIOUS
  <2> HIDE DEF sum, step
  <2> QED BY <1>4, <2>1
<1>6. sums = [s \in SUBSET DOMAIN fs |-> step(sums, s)]
  <2> HIDE DEF sum, step
  <2>1. \E g : g = [s \in SUBSET DOMAIN fs |-> step(g, s)]
    BY <1>5
  <2> QED BY <2>1
<1>7. ASSUME NEW s \in SUBSET DOMAIN fs, s = {} \/ sums[s \ {Max(s)}] = sum[s \ {Max(s)}]
      PROVE  sums[s] = sum[s]
  <2>1. sums[s] = step(sums, s) /\ sum[s] = step(sum, s)
    <3> HIDE DEF sums, sum, step
    <3> QED BY <1>5, <1>6
  <2>2. step(sums, s) = step(sum, s)
    <3> HIDE DEF sums, sum
    <3> QED BY <1>7
  <2> QED BY <2>1, <2>2
<1> HIDE DEF sums, sum, step
<1>8. \A s \in SUBSET DOMAIN fs : s \cap {1, 2, 3} = {} => sums[s] = sum[s]
  BY <1>7
<1>9. \A s \in SUBSET DOMAIN fs : s \cap {2, 3} = {} => sums[s] = sum[s]
  <2> SUFFICES ASSUME NEW s \in SUBSET DOMAIN fs, s \cap {2, 3} = {} PROVE sums[s] = sum[s]
    OBVIOUS
  <2>1. s = {} \/ (s \ {Max(s)}) \cap {1, 2, 3} = {}
    BY <1>2
  <2> QED BY <1>7, <1>8, <2>1
<1>10. \A s \in SUBSET DOMAIN fs : s \cap {3} = {} => sums[s] = sum[s]
  <2> SUFFICES ASSUME NEW s \in SUBSET DOMAIN fs, s \cap {3} = {} PROVE sums[s] = sum[s]
    OBVIOUS
  <2>1. s = {} \/ (s \ {Max(s)}) \cap {2, 3} = {}
    BY <1>2
  <2> QED BY <1>7, <1>9, <2>1
<1>11. \A s \in SUBSET DOMAIN fs : sums[s] = sum[s]
  <2> SUFFICES ASSUME NEW s \in SUBSET DOMAIN fs PROVE sums[s] = sum[s]
    OBVIOUS
  <2>1. s = {} \/ (s \ {Max(s)}) \cap {3} = {}
    BY <1>2
  <2> QED BY <1>7, <1>10, <2>1
<1>12. sum[DOMAIN fs] = c(1) + c(2) + c(3)
  <2>1. sum[DOMAIN fs] = (IF 1 \in DOMAIN fs THEN c(1) ELSE 0) + (IF 2 \in DOMAIN fs THEN c(2) ELSE 0)
                         + (IF 3 \in DOMAIN fs THEN c(3) ELSE 0)
    BY DEF sum
  <2>2. \A i : i \notin DOMAIN fs => c(i) = 0
    BY DEF c
  <2> QED BY <2>1, <2>2
<1> QED BY <1>1, <1>11, <1>12 DEF c

\* The first fields of a message as a message of their own.
LEMMA LengthOfFirst ==
  ASSUME NEW fs, DOMAIN fs \subseteq {1, 2, 3},
         \A i \in DOMAIN fs : DataCells(fs[i]) \in Nat,
         NEW n \in 0 .. 3, 1 .. n \subseteq DOMAIN fs
  PROVE  LET c(i) == IF i \in 1 .. n THEN DataCells(fs[i]) + 1 ELSE 0
         IN  MessageLength(SubSeq(fs, 1, n)) = c(1) + c(2) + c(3)
<1> DEFINE t == SubSeq(fs, 1, n)
<1>1. /\ t \in Seq(Range(fs)) /\ Len(t) = n /\ \A i \in 1 .. n : t[i] = fs[i]
  <2>1. \A i \in 1 .. n : fs[i] \in Range(fs)
    BY DEF Range
  <2>2. /\ t \in Seq(Range(fs)) /\ Len(t) = (IF 1 <= n THEN n - 1 + 1 ELSE 0)
        /\ \A i \in 1 .. n - 1 + 1 : t[i] = fs[1 + i - 1]
    BY <2>1, SubSeqProperties
  <2> QED BY <2>2
<1>2. DOMAIN t = 1 .. n
  BY <1>1, LenProperties
<1> HIDE DEF t
<1>3. DOMAIN t \subseteq {1, 2, 3} /\ \A i \in DOMAIN t : DataCells(t[i]) \in Int
  BY <1>1, <1>2
<1>4. LET c(i) == IF i \in DOMAIN t THEN DataCells(t[i]) + 1 ELSE 0
      IN  MessageLength(t) = c(1) + c(2) + c(3)
  BY <1>3, LengthOfMessage
<1>5. \A i : (IF i \in DOMAIN t THEN DataCells(t[i]) + 1 ELSE 0)
             = (IF i \in 1 .. n THEN DataCells(fs[i]) + 1 ELSE 0)
  BY <1>1, <1>2
<1> QED BY <1>4, <1>5 DEF t

\* Each field begins behind the flag of the one before, and the message ends
\* with the flag of the last.
LEMMA Offsets ==
  ASSUME NEW n \in 1 .. 3, NEW fs, DOMAIN fs = 1 .. n,
         \A i \in DOMAIN fs : DataCells(fs[i]) \in Nat
  PROVE  LET m == set(fs)
         IN  /\ DOMAIN m = 1 .. n
             /\ \A i \in 1 .. n : /\ m[i].offset \in Nat
                                  /\ m[i].null_offset = m[i].offset + DataCells(fs[i])
                                  /\ m[i].type = fs[i].type /\ m[i].length = fs[i].length
             /\ m[1].offset = 0
             /\ \A i \in 1 .. n - 1 : m[i + 1].offset = m[i].null_offset + 1
             /\ DOMAIN Buffer(fs) = 0 .. m[n].null_offset
<1> DEFINE m == set(fs)
           at(k) == MessageLength(SubSeq(fs, 1, k))
           c(i) == DataCells(fs[i]) + 1
<1>1. /\ DOMAIN m = 1 .. n
      /\ \A i \in 1 .. n : /\ m[i].offset = at(i - 1)
                           /\ m[i].null_offset = at(i - 1) + DataCells(fs[i])
                           /\ m[i].type = fs[i].type /\ m[i].length = fs[i].length
  BY DEF set
<1>2. /\ at(0) = 0 /\ at(1) = c(1) /\ c(1) \in Nat
      /\ n > 1 => at(2) = c(1) + c(2) /\ c(2) \in Nat
      /\ n > 2 => at(3) = c(1) + c(2) + c(3) /\ c(3) \in Nat
  <2> DEFINE d(k, i) == IF i \in 1 .. k THEN DataCells(fs[i]) + 1 ELSE 0
  <2>1. \A k \in 0 .. n : at(k) = d(k, 1) + d(k, 2) + d(k, 3)
    <3> SUFFICES ASSUME NEW k \in 0 .. n PROVE at(k) = d(k, 1) + d(k, 2) + d(k, 3)
      OBVIOUS
    <3>1. k \in 0 .. 3 /\ 1 .. k \subseteq DOMAIN fs /\ DOMAIN fs \subseteq {1, 2, 3}
      OBVIOUS
    <3> QED BY <3>1, LengthOfFirst
  <2>2. \A i \in 1 .. n : DataCells(fs[i]) \in Nat
    OBVIOUS
  <2> HIDE DEF at
  <2> QED BY <2>1, <2>2
<1>3. MessageLength(fs) = at(n)
  <2>1. DOMAIN fs \subseteq {1, 2, 3} /\ \A i \in DOMAIN fs : DataCells(fs[i]) \in Int
    OBVIOUS
  <2>2. LET e(i) == IF i \in DOMAIN fs THEN DataCells(fs[i]) + 1 ELSE 0
        IN  MessageLength(fs) = e(1) + e(2) + e(3)
    BY <2>1, LengthOfMessage
  <2>3. LET e(i) == IF i \in 1 .. n THEN DataCells(fs[i]) + 1 ELSE 0
        IN  at(n) = e(1) + e(2) + e(3)
    <3>1. n \in 0 .. 3 /\ 1 .. n \subseteq DOMAIN fs
      OBVIOUS
    <3> QED BY <2>1, <3>1, LengthOfFirst
  <2> QED BY <2>2, <2>3
<1>4. DOMAIN Buffer(fs) = 0 .. at(n) - 1
  BY <1>3 DEF Buffer
<1> HIDE DEF m, at
<1>5. \A i \in 1 .. n : at(i - 1) \in Nat /\ at(i) = at(i - 1) + DataCells(fs[i]) + 1
  <2>1. ASSUME NEW i \in 1 .. n, i = 1
        PROVE  at(i - 1) \in Nat /\ at(i) = at(i - 1) + DataCells(fs[i]) + 1
    BY <1>2, <2>1
  <2>2. ASSUME NEW i \in 1 .. n, i = 2
        PROVE  at(i - 1) \in Nat /\ at(i) = at(i - 1) + DataCells(fs[i]) + 1
    BY <1>2, <2>2
  <2>3. ASSUME NEW i \in 1 .. n, i = 3
        PROVE  at(i - 1) \in Nat /\ at(i) = at(i - 1) + DataCells(fs[i]) + 1
    <3>1. n = 3 /\ i - 1 = 2
      BY <2>3
    <3>2. /\ c(1) \in Nat /\ c(2) \in Nat /\ c(3) \in Nat
          /\ at(2) = c(1) + c(2) /\ at(3) = c(1) + c(2) + c(3)
      BY <1>2, <3>1
    <3>3. c(3) = DataCells(fs[i]) + 1 /\ DataCells(fs[i]) \in Nat
      BY <2>3
    <3> HIDE DEF c
    <3>4. at(3) = at(2) + (DataCells(fs[i]) + 1) /\ at(2) \in Nat
      BY <3>2, <3>3
    <3> QED BY <2>3, <3>1, <3>3, <3>4
  <2>4. \A i \in 1 .. n : i = 1 \/ i = 2 \/ i = 3
    OBVIOUS
  <2> HIDE DEF c
  <2> QED BY <2>1, <2>2, <2>3, <2>4
<1>6. \A i \in 1 .. n : m[i].offset \in Nat /\ m[i].null_offset = m[i].offset + DataCells(fs[i])
  BY <1>1, <1>5
<1>7. m[1].offset = 0
  BY <1>1, <1>2
<1>8. \A i \in 1 .. n - 1 : m[i + 1].offset = m[i].null_offset + 1
  <2> SUFFICES ASSUME NEW i \in 1 .. n - 1 PROVE m[i + 1].offset = m[i].null_offset + 1
    OBVIOUS
  <2>1. i \in 1 .. n /\ i + 1 \in 1 .. n /\ i + 1 - 1 = i
    OBVIOUS
  <2> QED BY <1>1, <1>5, <2>1
<1>9. at(n) - 1 = m[n].null_offset
  <2>1. n \in 1 .. n
    OBVIOUS
  <2> QED BY <1>1, <1>5, <2>1
<1> QED BY <1>1, <1>4, <1>6, <1>7, <1>8, <1>9 DEF m

\* The cells of two fields, with their flags, are apart.
LEMMA FieldsApart ==
  ASSUME NEW n \in 1 .. 3, NEW fs, DOMAIN fs = 1 .. n,
         \A i \in DOMAIN fs : DataCells(fs[i]) \in Nat,
         NEW i \in 1 .. n
  PROVE  LET m == set(fs)
         IN  /\ \A k \in m[i].offset .. m[i].null_offset :
                   /\ k \in DOMAIN Buffer(fs)
                   /\ \A j \in 1 .. n : k \in m[j].offset .. m[j].null_offset => j = i
             /\ m[i].offset \in m[i].offset .. m[i].null_offset
             /\ m[i].null_offset \in m[i].offset .. m[i].null_offset
<1> DEFINE m == set(fs)
           from(j) == m[j].offset
           to(j) == m[j].null_offset
<1>1. /\ \A j \in 1 .. n : from(j) \in Nat /\ to(j) \in Nat /\ from(j) <= to(j)
      /\ from(1) = 0
      /\ \A j \in 1 .. n - 1 : from(j + 1) = to(j) + 1
      /\ DOMAIN Buffer(fs) = 0 .. to(n)
  <2>1. \A j \in 1 .. n : from(j) \in Nat /\ to(j) = from(j) + DataCells(fs[j])
    BY Offsets
  <2>2. \A j \in 1 .. n : DataCells(fs[j]) \in Nat
    OBVIOUS
  <2>3. /\ from(1) = 0
        /\ \A j \in 1 .. n - 1 : from(j + 1) = to(j) + 1
        /\ DOMAIN Buffer(fs) = 0 .. to(n)
    BY Offsets
  <2> HIDE DEF from, to
  <2>4. \A j \in 1 .. n : from(j) \in Nat /\ to(j) \in Nat /\ from(j) <= to(j)
    BY <2>1, <2>2
  <2> QED BY <2>3, <2>4
<1> HIDE DEF from, to
<1>2. \A j, k \in 1 .. n : j < k => to(j) < from(k)
  <2>1. n > 1 => to(1) < from(2)
    BY <1>1
  <2>2. n > 2 => to(2) < from(3)
    <3>1. n > 2 => 2 \in 1 .. n - 1 /\ 2 \in 1 .. n /\ 2 + 1 = 3
      OBVIOUS
    <3> QED BY <1>1, <3>1
  <2>3. n > 2 => to(1) < from(3)
    <3>1. n > 2 => from(2) <= to(2) /\ from(2) \in Nat /\ to(2) \in Nat /\ from(3) \in Nat /\ to(1) \in Nat
      BY <1>1
    <3> QED BY <2>1, <2>2, <3>1
  <2>4. \A j, k \in 1 .. n : j < k => \/ j = 1 /\ k = 2 /\ n > 1
                                      \/ j = 2 /\ k = 3 /\ n > 2
                                      \/ j = 1 /\ k = 3 /\ n > 2
    OBVIOUS
  <2> QED BY <2>1, <2>2, <2>3, <2>4
<1>3. ASSUME NEW k \in from(i) .. to(i) PROVE k \in 0 .. to(n)
  <2>1. i = n \/ to(i) < from(n)
    BY <1>2
  <2>2. n \in 1 .. n
    OBVIOUS
  <2> QED BY <1>1, <2>1, <2>2
<1>4. ASSUME NEW k \in from(i) .. to(i), NEW j \in 1 .. n, k \in from(j) .. to(j) PROVE j = i
  <2>1. /\ k \in Int /\ i \in Int /\ j \in Int
        /\ from(i) <= k /\ k <= to(i) /\ from(j) <= k /\ k <= to(j)
        /\ from(i) \in Int /\ to(i) \in Int /\ from(j) \in Int /\ to(j) \in Int
    BY <1>1, <1>4
  <2>2. ~(i < j) /\ ~(j < i)
    <3>1. (i < j => to(i) < from(j)) /\ (j < i => to(j) < from(i))
      BY <1>2
    <3> QED BY <2>1, <3>1
  <2> QED BY <2>1, <2>2
<1>5. from(i) \in from(i) .. to(i) /\ to(i) \in from(i) .. to(i)
  BY <1>1
<1> QED BY <1>1, <1>3, <1>4, <1>5 DEF from, to

\* A value that Firebird puts into a field is found there, with its flag.
LEMMA ValueInMessage ==
  ASSUME NEW n \in 1 .. 3, NEW fs, DOMAIN fs = 1 .. n,
         \A i \in DOMAIN fs : DataCells(fs[i]) \in Nat \ {0},
         NEW i \in 1 .. n, NEW values
  PROVE  LET m == set(fs)
             msg == Message(fs, values)
         IN  /\ m[i].null_offset \in DOMAIN msg
             /\ msg[m[i].null_offset] = IF values[i] = Null THEN -1 ELSE 0
             /\ m[i].offset \in DOMAIN msg
             /\ values[i] # Null => msg[m[i].offset] = Cells(fs[i], values[i])[1]
<1> DEFINE m == set(fs)
           msg == Message(fs, values)
           within(j, k) == k \in m[j].offset .. m[j].null_offset
           cell(j, k) == IF k = m[j].null_offset THEN (IF values[j] = Null THEN -1 ELSE 0)
                         ELSE IF values[j] = Null THEN Unset
                         ELSE Cells(fs[j], values[j])[k - m[j].offset + 1]
           a == m[i].offset
           b == m[i].null_offset
<1>1. msg = [k \in DOMAIN Buffer(fs) |-> cell(CHOOSE j \in 1 .. n : within(j, k), k)]
  BY DEF Message
<1>2. \A j \in 1 .. n : DataCells(fs[j]) \in Nat
  OBVIOUS
<1>3. /\ \A k \in a .. b : k \in DOMAIN Buffer(fs) /\ \A j \in 1 .. n : within(j, k) => j = i
      /\ a \in a .. b /\ b \in a .. b
  BY <1>2, FieldsApart
<1>4. a \in Nat /\ b = a + DataCells(fs[i])
  <2>1. \A j \in 1 .. n : m[j].offset \in Nat /\ m[j].null_offset = m[j].offset + DataCells(fs[j])
    <3>1. \A j \in DOMAIN fs : DataCells(fs[j]) \in Nat
      OBVIOUS
    <3> HIDE DEF within, cell, msg
    <3> QED BY <3>1, Offsets
  <2> QED BY <2>1
<1> HIDE DEF m, msg, cell
<1>5. ASSUME NEW k \in a .. b PROVE k \in DOMAIN msg /\ msg[k] = cell(i, k)
  <2>1. within(i, k)
    OBVIOUS
  <2>2. (CHOOSE j \in 1 .. n : within(j, k)) = i
    <3> DEFINE w == CHOOSE j \in 1 .. n : within(j, k)
    <3>1. w \in 1 .. n /\ within(w, k)
      BY <2>1
    <3> HIDE DEF w
    <3>2. w = i
      BY <1>3, <3>1
    <3> QED BY <3>2 DEF w
  <2> QED BY <1>1, <1>3, <2>2
<1>6. b \in DOMAIN msg /\ msg[b] = IF values[i] = Null THEN -1 ELSE 0
  BY <1>3, <1>5 DEF cell
<1>7. a \in DOMAIN msg /\ (values[i] # Null => msg[a] = Cells(fs[i], values[i])[1])
  <2>1. a # b /\ a - a + 1 = 1
    BY <1>4
  <2> QED BY <1>3, <1>5, <2>1 DEF cell
<1> QED BY <1>6, <1>7 DEF m, msg

\* A result message has its field in front of the flag.
LEMMA ResultOffsets ==
  ASSUME NEW f, DataCells(f) \in Nat
  PROVE  LET m == set(<<f>>)
         IN  /\ getOffset(m, 0) = 0 /\ getNullOffset(m, 0) = DataCells(f)
             /\ getType(m, 0) = f.type /\ getLength(m, 0) = f.length
             /\ DOMAIN Buffer(<<f>>) = 0 .. DataCells(f)
<1> DEFINE fs == <<f>>
           m == set(fs)
<1>1. DOMAIN fs = 1 .. 1 /\ fs[1] = f
  OBVIOUS
<1> HIDE DEF fs
<1>2. /\ m[1].offset = 0 /\ m[1].null_offset = m[1].offset + DataCells(f)
      /\ m[1].type = f.type /\ m[1].length = f.length
      /\ DOMAIN Buffer(fs) = 0 .. m[1].null_offset
  BY <1>1, Offsets
<1> HIDE DEF m
<1>3. getOffset(m, 0) = m[1].offset /\ getNullOffset(m, 0) = m[1].null_offset
  BY DEF getOffset, getNullOffset
<1>4. getType(m, 0) = m[1].type /\ getLength(m, 0) = m[1].length
  BY DEF getType, getLength
<1> QED BY <1>2, <1>3, <1>4 DEF m, fs

\* Every cell of a message is of a field or a flag.
LEMMA FieldsCover ==
  ASSUME NEW n \in 1 .. 3, NEW fs, DOMAIN fs = 1 .. n,
         \A i \in DOMAIN fs : DataCells(fs[i]) \in Nat,
         NEW k \in DOMAIN Buffer(fs)
  PROVE  LET m == set(fs)
         IN  \E i \in 1 .. n : k \in m[i].offset .. m[i].null_offset
<1> DEFINE m == set(fs)
           from(j) == m[j].offset
           to(j) == m[j].null_offset
<1>1. /\ \A j \in 1 .. n : from(j) \in Nat /\ to(j) = from(j) + DataCells(fs[j])
      /\ from(1) = 0
      /\ \A j \in 1 .. n - 1 : from(j + 1) = to(j) + 1
      /\ DOMAIN Buffer(fs) = 0 .. to(n)
  BY Offsets
<1>2. \A j \in 1 .. n : to(j) \in Nat
  <2>1. \A j \in 1 .. n : DataCells(fs[j]) \in Nat
    OBVIOUS
  <2> HIDE DEF from, to
  <2> QED BY <1>1, <2>1
<1> HIDE DEF from, to
<1>3. k \in 0 .. to(n)
  BY <1>1
<1>4. \E i \in 1 .. n : k \in from(i) .. to(i)
  <2>1. CASE k <= to(1)
    BY <1>1, <1>2, <1>3, <2>1
  <2>2. CASE ~(k <= to(1)) /\ n > 1 /\ k <= to(2)
    <3>1. 2 \in 1 .. n /\ from(2) = to(1) + 1
      BY <1>1, <2>2
    <3>2. k \in from(2) .. to(2)
      BY <1>2, <1>3, <2>2, <3>1
    <3> QED BY <3>1, <3>2
  <2>3. CASE n > 2 /\ ~(k <= to(2))
    <3>1. n = 3 /\ 3 \in 1 .. n /\ 2 \in 1 .. n - 1 /\ 2 + 1 = 3
      BY <2>3
    <3>2. from(3) = to(2) + 1 /\ to(2) \in Nat
      BY <1>1, <1>2, <3>1
    <3>3. k \in from(3) .. to(3)
      BY <1>2, <1>3, <2>3, <3>1, <3>2
    <3> QED BY <3>1, <3>3
  <2>4. n = 1 => k <= to(1)
    BY <1>3
  <2>5. n = 2 => k <= to(2)
    BY <1>3
  <2> QED BY <2>1, <2>2, <2>3, <2>4, <2>5
<1> QED BY <1>4 DEF from, to
=============================================================================
