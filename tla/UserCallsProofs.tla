--------------------------- MODULE UserCallsProofs --------------------------
(***************************************************************************)
(* Proofs about calls: their query, for all statements, rows and numbers   *)
(* of rows, every call into Firebird throwing or not; and what they        *)
(* answer, for all declarations, widths, arguments and texts.              *)
(***************************************************************************)
EXTENDS UserCallsInv, MetaCacheProofs

(* The operations on a query *)

\* What prepare acquires: neither a cursor nor the attachment, but the
\* description of the columns and the buffer of the row.
LEMMA AcquiredSeq ==
  ASSUME NEW T
  PROVE  /\ Acquired(T) \in Seq(Members \ {"curs"})
         /\ \E i \in 1 .. Len(Acquired(T)) : Acquired(T)[i] = "out_meta"
         /\ \E i \in 1 .. Len(Acquired(T)) : Acquired(T)[i] = "out_buffer"
<1> DEFINE M == Members \ {"curs"}
           s == Acquired(T)
           b == IF Statements[T].params = <<>> THEN <<>> ELSE <<"in_buffer">>
           a == <<"stmt", "in_meta">>
           c == <<"out_meta", "out_buffer">>
<1>1. a \in Seq(M)
  BY DEF Members
<1>2. b \in Seq(M)
  <2>1. <<>> \in Seq(M) /\ <<"in_buffer">> \in Seq(M)
    BY DEF Members
  <2> QED BY <2>1
<1>3. c \in Seq(M)
  BY DEF Members
<1>4. Len(c) = 2 /\ c[1] = "out_meta" /\ c[2] = "out_buffer"
  OBVIOUS
<1>5. s = (a \o b) \o c
  BY DEF Acquired
<1> HIDE DEF M, a, b, c, s
<1> DEFINE d == a \o b
<1>6. d \in Seq(M)
  BY <1>1, <1>2, ConcatProperties
<1>7. s = d \o c
  BY <1>5
<1> HIDE DEF d
<1>8. Len(d) \in Nat
  BY <1>6, LenProperties
<1>9. s \in Seq(M) /\ Len(s) = Len(d) + 2
  <2>1. d \o c \in Seq(M) /\ Len(d \o c) = Len(d) + Len(c)
    BY <1>3, <1>6, ConcatProperties
  <2> QED BY <1>4, <1>7, <2>1
<1>10. \A n \in {1, 2} : s[Len(d) + n] = c[n]
  <2> SUFFICES ASSUME NEW n \in {1, 2} PROVE s[Len(d) + n] = c[n]
    OBVIOUS
  <2>1. Len(d) + n \in 1 .. Len(d) + Len(c) /\ Len(d) + n - Len(d) = n
    BY <1>4, <1>8
  <2>2. (d \o c)[Len(d) + n] = c[Len(d) + n - Len(d)]
    <3>1. ~(Len(d) + n <= Len(d))
      BY <1>8
    <3> QED BY <1>3, <1>6, <2>1, <3>1, ConcatProperties
  <2> QED BY <1>7, <2>1, <2>2
<1>11. Len(d) + 1 \in 1 .. Len(s) /\ Len(d) + 2 \in 1 .. Len(s)
  BY <1>8, <1>9
<1> QED BY <1>4, <1>9, <1>10, <1>11 DEF M, s

\* So it is whenever prepare is interrupted.
LEMMA AcquiredMembers ==
  ASSUME NEW T
  PROVE  /\ \A n \in 0 .. Len(Acquired(T)) :
               Range(SubSeq(Acquired(T), 1, n)) \subseteq Members \ {"curs"}
         /\ {"out_meta", "out_buffer"} \subseteq Range(SubSeq(Acquired(T), 1, Len(Acquired(T))))
<1> DEFINE M == Members \ {"curs"}
           s == Acquired(T)
<1>1. /\ s \in Seq(M)
      /\ \E i \in 1 .. Len(s) : s[i] = "out_meta"
      /\ \E i \in 1 .. Len(s) : s[i] = "out_buffer"
  BY AcquiredSeq
<1> HIDE DEF M, s
<1>2. Len(s) \in Nat /\ DOMAIN s = 1 .. Len(s)
  BY <1>1, LenProperties
<1>3. ASSUME NEW n \in 0 .. Len(s) PROVE Range(SubSeq(s, 1, n)) \subseteq M
  <2>1. \A i \in 1 .. n : s[i] \in M
    <3> SUFFICES ASSUME NEW i \in 1 .. n PROVE s[i] \in M
      OBVIOUS
    <3>1. i \in 1 .. Len(s)
      BY <1>2
    <3> QED BY <1>1, <3>1, ElementOfSeq
  <2>2. SubSeq(s, 1, n) \in Seq(M)
    BY <1>2, <2>1, SubSeqProperties
  <2>3. \A i \in DOMAIN SubSeq(s, 1, n) : SubSeq(s, 1, n)[i] \in M
    BY <2>2, ElementOfSeq, LenProperties
  <2> QED BY <2>3 DEF Range
<1>4. {"out_meta", "out_buffer"} \subseteq Range(SubSeq(s, 1, Len(s)))
  <2>1. SubSeq(s, 1, Len(s)) = s
    BY <1>1, SubSeqFull
  <2> QED BY <1>1, <1>2, <2>1 DEF Range
<1> QED BY <1>3, <1>4 DEF M, s

\* prepare leaves cursor and names alone, and is refused by a statement that is
\* there already.
LEMMA PrepareKeeps ==
  ASSUME NEW p, DOMAIN p = DOMAIN NewQuery, p.held \subseteq Members,
         NEW T, NEW o \in prepare(p, T)
  PROVE  /\ DOMAIN o.q = DOMAIN NewQuery /\ o.q.held \subseteq Members
         /\ o.q.at = p.at /\ o.q.names = p.names
         /\ ("curs" \in o.q.held) <=> ("curs" \in p.held)
         /\ ~o.thrown => o.q.text = T /\ {"out_meta", "out_buffer"} \subseteq o.q.held
<1> DEFINE upto(n) == [p EXCEPT !.text = T, !.held = @ \cup Range(SubSeq(Acquired(T), 1, n)),
                                !.in = [i \in DOMAIN Statements[T].params |-> 0], !.row = Unset]
           k == Len(Acquired(T))
<1>1. ASSUME NEW n \in 0 .. k
      PROVE  /\ DOMAIN upto(n) = DOMAIN NewQuery /\ upto(n).held \subseteq Members
             /\ upto(n).at = p.at /\ upto(n).names = p.names /\ upto(n).text = T
             /\ ("curs" \in upto(n).held) <=> ("curs" \in p.held)
  <2>1. upto(n).held = p.held \cup Range(SubSeq(Acquired(T), 1, n))
    BY DEF NewQuery
  <2>2. Range(SubSeq(Acquired(T), 1, n)) \subseteq Members \ {"curs"}
    BY AcquiredMembers
  <2> QED BY <2>1, <2>2 DEF NewQuery
<1>2. k \in Nat
  BY AcquiredSeq, LenProperties DEF k
<1>3. {"out_meta", "out_buffer"} \subseteq upto(k).held
  <2>1. upto(k).held = p.held \cup Range(SubSeq(Acquired(T), 1, k))
    BY DEF NewQuery
  <2> QED BY <2>1, AcquiredMembers
<1>4. \/ o = Throw(p)
      \/ \E n \in 0 .. k - 1 : o = Throw(upto(n))
      \/ o = Ok(upto(k), TRUE)
  BY DEF prepare
<1> HIDE DEF upto, k
<1>5. CASE o = Throw(p)
  BY <1>5 DEF Throw
<1>6. CASE \E n \in 0 .. k - 1 : o = Throw(upto(n))
  <2>1. PICK n \in 0 .. k - 1 : o = Throw(upto(n))
    BY <1>6
  <2>2. n \in 0 .. k
    BY <1>2
  <2>3. o.q = upto(n) /\ o.thrown = TRUE
    BY <2>1 DEF Throw
  <2> QED BY <1>1, <2>2, <2>3
<1>7. CASE o = Ok(upto(k), TRUE)
  <2>1. o.q = upto(k)
    BY <1>7 DEF Ok
  <2>2. k \in 0 .. k
    BY <1>2
  <2> QED BY <1>1, <1>3, <2>1, <2>2
<1> QED BY <1>4, <1>5, <1>6, <1>7

\* A fetch throws, delivers a row or is at the end.
LEMMA NextOutcomes ==
  ASSUME NEW p, DOMAIN p = DOMAIN NewQuery, NEW o \in next(p)
  PROVE  \/ o = Throw(p)
         \/ \E r \in Deliverable(p) :
               o = Ok([p EXCEPT !.row = r, !.at = "row", !.rows = Append(@, r)], TRUE)
         \/ o = Ok([p EXCEPT !.at = "end"], FALSE)
BY DEF next

\* close throws or not; if not, the query holds neither cursor nor statement, nor
\* what belongs to them.
LEMMA CloseKeeps ==
  ASSUME NEW p, DOMAIN p = DOMAIN NewQuery, NEW o \in close(p)
  PROVE  /\ DOMAIN o.q = DOMAIN NewQuery /\ o.q.held \subseteq p.held
         /\ o.q.names = p.names
         /\ ~o.thrown => /\ o.q.at = "none"
                         /\ o.q.held \cap {"stmt", "curs", "in_meta", "out_meta",
                                           "in_buffer", "out_buffer"} = {}
<1> DEFINE idle == [p EXCEPT !.held = @ \ {"curs", "in_meta", "out_meta", "in_buffer", "out_buffer"},
                             !.in = <<>>, !.row = Unset, !.at = "none"]
           bare == [idle EXCEPT !.held = @ \ {"stmt"}]
<1>1. o = Throw(p) \/ o = Throw(idle) \/ o = Ok(bare, TRUE)
  BY DEF close, CloseKeeping
<1>2. /\ DOMAIN idle = DOMAIN NewQuery /\ idle.names = p.names /\ idle.at = "none"
      /\ idle.held = p.held \ {"curs", "in_meta", "out_meta", "in_buffer", "out_buffer"}
  BY DEF NewQuery
<1> HIDE DEF idle
<1>3. /\ DOMAIN bare = DOMAIN NewQuery /\ bare.names = p.names /\ bare.at = "none"
      /\ bare.held = idle.held \ {"stmt"}
  BY <1>2 DEF NewQuery
<1> HIDE DEF bare
<1>4. CASE o = Throw(p)
  BY <1>4 DEF Throw
<1>5. CASE o = Throw(idle)
  BY <1>2, <1>5 DEF Throw
<1>6. CASE o = Ok(bare, TRUE)
  BY <1>2, <1>3, <1>6 DEF Ok
<1> QED BY <1>1, <1>4, <1>5, <1>6

\* The destructor gives back everything unless it ends the process.
LEMMA DestructorReleases ==
  ASSUME NEW p, DOMAIN p = DOMAIN NewQuery, p.held \subseteq Members, NEW o \in Destructor(p),
         ~o.thrown
  PROVE  o.q.held = {}
<1> DEFINE less == [p EXCEPT !.held = @ \ {"att", "tra"}]
<1>1. DOMAIN less = DOMAIN NewQuery /\ less.held = p.held \ {"att", "tra"}
  BY DEF NewQuery
<1>2. o \in close(less)
  BY DEF Destructor
<1> HIDE DEF less
<1>3. /\ o.q.held \subseteq less.held
      /\ o.q.held \cap {"stmt", "curs", "in_meta", "out_meta", "in_buffer", "out_buffer"} = {}
  BY <1>1, <1>2, CloseKeeps
<1> QED BY <1>1, <1>3 DEF Members
-----------------------------------------------------------------------------
(* What is read from a row *)

\* Within one text a column has one index, whenever its name is looked up.
LEMMA IndexIsFixed ==
  ASSUME NEW p, DOMAIN p = DOMAIN NewQuery, "out_meta" \in p.held,
         p.names \in {<<>>, Aliases(p.text)}, NEW name
  PROVE  /\ fieldIdxByName(p, name) = IndexIn(p.text, name)
         /\ DOMAIN Named(p) = DOMAIN NewQuery
         /\ Named(p).names \in {<<>>, Aliases(p.text)}
         /\ Named(p).held = p.held /\ Named(p).text = p.text /\ Named(p).at = p.at
         /\ Named(p).row = p.row /\ Named(p).rows = p.rows
<1> DEFINE a == Aliases(p.text)
           n == Named(p)
<1>1. /\ n.names = a /\ n.held = p.held /\ n.text = p.text /\ n.at = p.at
      /\ n.row = p.row /\ n.rows = p.rows /\ DOMAIN n = DOMAIN NewQuery
  <2>1. CASE p.names # <<>>
    BY <2>1 DEF Named
  <2>2. CASE p.names = <<>>
    <3>1. n = [p EXCEPT !.names = a]
      BY <2>2 DEF Named, Aliases, Column
    <3> QED BY <3>1 DEF NewQuery
  <2> QED BY <2>1, <2>2
<1> HIDE DEF n, a
<1>2. fieldIdxByName(p, name) = LET at == {i \in DOMAIN n.names : n.names[i] = name}
                                IN  IF at = {} THEN None ELSE Max(at)
  BY DEF fieldIdxByName, n
<1>3. fieldIdxByName(p, name) = IndexIn(p.text, name)
  BY <1>1, <1>2 DEF IndexIn, a
<1> QED BY <1>1, <1>3 DEF n, a

\* An int is read as the nearest one to the column's value, if that is an int.
LEMMA IntIsRead ==
  ASSUME NEW p, DOMAIN p = DOMAIN NewQuery, "out_meta" \in p.held,
         p.names \in {<<>>, Aliases(p.text)}, p.row # Unset,
         NEW v \in fbn_as_int(p, Column1)
  PROVE  ReadFrom(v, p.text, "int", p.row)
<1> DEFINE i == IndexIn(p.text, Column1)
           c == Statements[p.text].columns[i]
           R == RightIn(p.text, "int", p.row)
<1> SUFFICES ASSUME i # None, c.type \in Numbers, R \in Ints
             PROVE  v = R
  BY DEF ReadFrom
<1>1. v \in asInt(p, i)
  BY IndexIsFixed DEF fbn_as_int
<1> HIDE DEF i
<1>2. PICK t \in tryAsInt(p, i) : v = t.value
  BY <1>1 DEF asInt
<1>3. getFieldIsNull(p, i) = {p.row[i] = Null} /\ Value(p, i) = {p.row[i]}
  BY DEF getFieldIsNull, Value
<1> DEFINE n == Rounded(adjustNumericScale(p.row[i], c.scale))
           read(x) == LET m == Rounded(adjustNumericScale(x, c.scale))
                      IN  {[ok |-> m > IntMin + 1 /\ m <= IntMax, value |-> w] : w \in Cast(m)}
<1>4. tryAsInt(p, i) = UNION {IF null \/ c.type \notin Numbers THEN {Refused(0)}
                              ELSE UNION {read(x) : x \in Value(p, i) \ {Null}} :
                              null \in getFieldIsNull(p, i)}
  BY DEF tryAsInt, Column
<1>5. CASE p.row[i] = Null
  <2>1. t = Refused(0)
    <3> HIDE DEF read, c
    <3> QED BY <1>3, <1>4, <1>5
  <2>2. v = 0
    BY <1>2, <2>1 DEF Refused
  <2>3. R = 0
    BY <1>5 DEF RightIn, i
  <2> QED BY <2>2, <2>3
<1>6. CASE p.row[i] # Null
  <2>1. t \in read(p.row[i])
    <3> DEFINE E(null) == IF null \/ c.type \notin Numbers THEN {Refused(0)}
                          ELSE UNION {read(x) : x \in Value(p, i) \ {Null}}
    <3>1. tryAsInt(p, i) = UNION {E(null) : null \in getFieldIsNull(p, i)}
      BY <1>4
    <3>2. E(FALSE) = UNION {read(x) : x \in {p.row[i]}}
      <4>1. Value(p, i) \ {Null} = {p.row[i]}
        BY <1>3, <1>6
      <4> HIDE DEF read, c
      <4> QED BY <4>1
    <3> HIDE DEF E, read, c
    <3>3. t \in E(FALSE)
      BY <1>3, <1>6, <3>1
    <3> QED BY <3>2, <3>3
  <2>2. R = n
    BY <1>6 DEF RightIn, i
  <2>3. Cast(n) = {n}
    BY <2>2 DEF Cast
  <2> HIDE DEF n
  <2>4. t.value = n
    <3>1. t \in {[ok |-> n > IntMin + 1 /\ n <= IntMax, value |-> w] : w \in Cast(n)}
      BY <2>1 DEF n
    <3>2. PICK w \in Cast(n) : t = [ok |-> n > IntMin + 1 /\ n <= IntMax, value |-> w]
      BY <3>1
    <3>3. t.value = w
      BY <3>2
    <3> QED BY <2>3, <3>2, <3>3
  <2> QED BY <1>2, <2>2, <2>4
<1> QED BY <1>5, <1>6

\* A number with decimals is the column's value.
LEMMA DoubleIsRead ==
  ASSUME NEW p, DOMAIN p = DOMAIN NewQuery, "out_meta" \in p.held,
         p.names \in {<<>>, Aliases(p.text)}, p.row # Unset,
         NEW how, how # "int", NEW v \in fbn_as_double(p, Column1)
  PROVE  ReadFrom(v, p.text, how, p.row)
<1> DEFINE i == IndexIn(p.text, Column1)
           c == Statements[p.text].columns[i]
           R == RightIn(p.text, how, p.row)
<1> SUFFICES ASSUME i # None, c.type \in Numbers
             PROVE  v = R
  BY DEF ReadFrom
<1>1. v \in asDouble(p, i)
  BY IndexIsFixed DEF fbn_as_double
<1> HIDE DEF i
<1>2. PICK t \in tryAsDouble(p, i) : v = t.value
  BY <1>1 DEF asDouble
<1>3. getFieldIsNull(p, i) = {p.row[i] = Null} /\ Value(p, i) = {p.row[i]}
  BY DEF getFieldIsNull, Value
<1> DEFINE scaled(x) == [ok |-> TRUE, value |-> adjustNumericScale(x, c.scale)]
<1>4. tryAsDouble(p, i) = UNION {IF null \/ c.type = "varying" THEN {Refused(<<0, 1>>)}
                                 ELSE {scaled(x) : x \in Value(p, i) \ {Null}}
                                      \cup (IF c.type = "text" THEN {Refused(<<0, 1>>)} ELSE {}) :
                                 null \in getFieldIsNull(p, i)}
  BY DEF tryAsDouble, Column
<1>5. c.type # "varying" /\ c.type # "text"
  BY DEF Numbers
<1>6. CASE p.row[i] = Null
  <2>1. t = Refused(<<0, 1>>)
    <3> HIDE DEF scaled, c
    <3> QED BY <1>3, <1>4, <1>6
  <2>2. v = <<0, 1>>
    BY <1>2, <2>1 DEF Refused
  <2>3. R = <<0, 1>>
    BY <1>6 DEF RightIn, i
  <2> QED BY <2>2, <2>3
<1>7. CASE p.row[i] # Null
  <2>1. t = scaled(p.row[i])
    <3> DEFINE E(null) == IF null \/ c.type = "varying" THEN {Refused(<<0, 1>>)}
                          ELSE {scaled(x) : x \in Value(p, i) \ {Null}}
                               \cup (IF c.type = "text" THEN {Refused(<<0, 1>>)} ELSE {})
    <3>1. tryAsDouble(p, i) = UNION {E(null) : null \in getFieldIsNull(p, i)}
      BY <1>4
    <3>2. E(FALSE) = {scaled(x) : x \in {p.row[i]}}
      <4>1. Value(p, i) \ {Null} = {p.row[i]}
        BY <1>3, <1>7
      <4> HIDE DEF scaled, c
      <4> QED BY <1>5, <4>1
    <3> HIDE DEF E, scaled, c
    <3>3. t \in E(FALSE)
      BY <1>3, <1>7, <3>1
    <3> QED BY <3>2, <3>3
  <2>2. v = adjustNumericScale(p.row[i], c.scale)
    BY <1>2, <2>1
  <2>3. R = adjustNumericScale(p.row[i], c.scale)
    BY <1>7 DEF RightIn, i
  <2> QED BY <2>2, <2>3
<1> QED BY <1>6, <1>7

\* Reading a string through a pointer that is valid frees no block twice.
LEMMA StringIsOwned ==
  ASSUME NEW p, NEW name, NEW str \in {"null", "block"},
         NEW o \in fbn_as_string_realloc(p, name, str)
  PROVE  o.twice = FALSE /\ o.str \in {"null", "block", "dangling"}
<1> DEFINE Good(r) == r.twice = FALSE /\ r.str \in {"null", "block"}
           i == fieldIdxByName(p, name)
           none == Pointer(FALSE, str, FALSE)
           tried == IF i = None THEN {none} ELSE field_try_as_string_realloc(p, i, str)
<1>1. \A r \in tried : Good(r)
  <2> DEFINE failed == Pointer(FALSE, "null", str = "dangling")
             grown == Pointer(TRUE, "block", str = "dangling")
  <2>1. Good(none) /\ Good(failed) /\ Good(grown)
    BY DEF Pointer
  <2>2. \A r \in field_try_as_string_realloc(p, i, str) : r \in {none, failed, grown}
    <3> HIDE DEF failed, grown, none, i
    <3> QED BY DEF field_try_as_string_realloc, StringRealloc, failed, grown, none
  <2> HIDE DEF failed, grown, none
  <2> QED BY <2>1, <2>2
<1>2. PICK r \in tried : o = IF r.ok THEN r ELSE [Freed(r.str) EXCEPT !.twice = @ \/ r.twice]
  BY DEF fbn_as_string_realloc
<1>3. Good(r)
  BY <1>1
<1>4. CASE r.ok
  BY <1>2, <1>3, <1>4
<1>5. CASE ~r.ok
  <2>1. o = [Freed(r.str) EXCEPT !.twice = @ \/ r.twice]
    BY <1>2, <1>5
  <2>2. o.str = Freed(r.str).str /\ o.twice = (Freed(r.str).twice \/ r.twice)
    BY <2>1 DEF Freed, Pointer
  <2>3. Freed(r.str).str \in {"null", "dangling"} /\ Freed(r.str).twice = FALSE
    BY <1>3 DEF Freed, Pointer
  <2> QED BY <1>3, <2>2, <2>3
<1> QED BY <1>4, <1>5
-----------------------------------------------------------------------------
(* The steps of a call *)

\* What an operation on the query does to the call: it goes on or unwinds.
LEMMA DoGoesOn ==
  ASSUME ShapeInv, NEW outcomes, NEW to, Do(outcomes, to)
  PROVE  \E o \in outcomes :
            /\ q' = o.q
            /\ call'.pc = IF o.thrown THEN "unwind" ELSE to
            /\ DOMAIN call' = DOMAIN NoCall /\ call'.args = call.args /\ call'.seen = call.seen
            /\ call'.str = call.str /\ call'.twice = call.twice
            /\ fn' = fn
<1>1. PICK o \in outcomes :
         /\ q' = o.q
         /\ call' = [call EXCEPT !.pc = IF o.thrown THEN "unwind" ELSE to]
         /\ fn' = fn
  BY DEF Do, server
<1>2. call'.pc = IF o.thrown THEN "unwind" ELSE to
  BY <1>1 DEF ShapeInv, NoCall
<1>3. /\ DOMAIN call' = DOMAIN NoCall /\ call'.args = call.args /\ call'.seen = call.seen
      /\ call'.str = call.str /\ call'.twice = call.twice
  BY <1>1 DEF ShapeInv, NoCall
<1> QED BY <1>1, <1>2, <1>3

\* A step that leaves the string alone, in front of a row or with no pointer
\* dangling.
LEMMA StringKept ==
  ASSUME StringInv, call'.str = call.str, call'.twice = call.twice, call.pc # "next"
  PROVE  StringInv'
BY DEF StringInv, StringsOwned

\* Declarations do not touch a call.
LEMMA DeclarationsKeep ==
  ASSUME QueryInv, UNCHANGED <<fn, q, call>>
  PROVE  QueryInv'
<1>1. ShapeInv' /\ HeldInv' /\ StringInv'
  BY DEF QueryInv, ShapeInv, HeldInv, StringInv, StringsOwned, QueryReleased
<1>2. ReaderInv'
  BY DEF QueryInv, ReaderInv, IdleInv, LoopInv
<1> QED BY <1>1, <1>2 DEF QueryInv

\* Between calls there is no query.
LEMMA NoCallKeeps ==
  ASSUME QueryInv, q' = None, call' = NoCall, fn' = fn
  PROVE  QueryInv'
<1>1. /\ call'.pc = "idle" /\ call'.str = "null" /\ call'.seen = <<>>
      /\ DOMAIN call' = DOMAIN NoCall
  BY DEF NoCall
<1>2. call'.twice = FALSE
  BY DEF NoCall
<1>3. ShapeInv' /\ HeldInv' /\ StringInv'
  BY <1>1, <1>2 DEF ShapeInv, HeldInv, StringInv, StringsOwned, QueryReleased, Querying
<1>4. ReaderInv'
  BY <1>1 DEF ReaderInv, IdleInv, LoopInv, Querying
<1> QED BY <1>3, <1>4 DEF QueryInv

\* A call begins without a query, with a valid string and with its own text.
LEMMA BeginKeeps ==
  ASSUME QueryInv, NEW d, BeginCall(d)
  PROVE  QueryInv'
<1>1. PICK a \in ArgsOf(d) :
         call' = [NoCall EXCEPT !.pc = IF fn = ReadFn THEN "build" ELSE "enter",
                                !.db = d, !.args = a]
  BY DEF BeginCall
<1>2. /\ call'.pc = IF fn = ReadFn THEN "build" ELSE "enter"
      /\ call'.str = "null" /\ call'.seen = <<>> /\ call'.args = a
      /\ DOMAIN call' = DOMAIN NoCall
  BY <1>1 DEF NoCall
<1>3. call'.twice = FALSE
  BY <1>1 DEF NoCall
<1>4. fn' = fn /\ q' = None
  BY DEF BeginCall, QueryInv, HeldInv
<1>5. ShapeInv' /\ HeldInv' /\ StringInv'
  BY <1>2, <1>3, <1>4 DEF ShapeInv, HeldInv, StringInv, StringsOwned, QueryReleased, Querying
<1>6. fn = ReadFn => a.text \in ReadTexts
  BY UserCallsAssumption DEF ArgsOf
<1>7. ReaderInv'
  BY <1>2, <1>4, <1>6 DEF ReaderInv, IdleInv, LoopInv, Querying
<1> QED BY <1>4, <1>5, <1>7 DEF QueryInv

\* The functions but ReadFn take their arguments, write their result or return a
\* text: their query, if there is one, is as it was.
LEMMA OthersKeep ==
  ASSUME QueryInv, ParseArgs \/ TakeSum \/ WriteSum \/ ExecSpec
  PROVE  QueryInv'
<1>1. fn # ReadFn /\ fn' = fn /\ q' = q
  BY UserCallsAssumption
     DEF ParseArgs, TakeSum, WriteSum, ExecSpec, server, QueryInv, ReaderInv
<1>2. /\ DOMAIN call' = DOMAIN NoCall
      /\ \/ call.pc = "enter" /\ call'.pc = "build"
         \/ call.pc = "take" /\ call'.pc = "close"
         \/ call.pc = "write" /\ call'.pc = "returned"
         \/ call.pc = "enter" /\ call'.pc = "returned"
      /\ call'.str = call.str /\ call'.twice = call.twice
  <2>1. DOMAIN call = DOMAIN NoCall
    BY DEF QueryInv, ShapeInv
  <2>2. ASSUME NEW w, NEW t, Return(w, t)
        PROVE  /\ DOMAIN call' = DOMAIN NoCall /\ call'.pc = "returned"
               /\ call'.str = call.str /\ call'.twice = call.twice
    BY <2>1, <2>2 DEF Return, NoCall
  <2>3. CASE ParseArgs
    BY <2>1, <2>3 DEF ParseArgs, NoCall
  <2>4. CASE TakeSum
    BY <2>1, <2>4 DEF TakeSum, NoCall
  <2>5. CASE WriteSum
    <3>1. call.pc = "write" /\ \E w, t : Return(w, t)
      BY <2>5 DEF WriteSum
    <3> QED BY <2>2, <3>1
  <2>6. CASE ExecSpec
    <3>1. call.pc = "enter" /\ \E w, t : Return(w, t)
      BY <2>6 DEF ExecSpec
    <3> QED BY <2>2, <3>1
  <2> QED BY <2>3, <2>4, <2>5, <2>6
<1>3. ShapeInv' /\ HeldInv'
  BY <1>1, <1>2 DEF QueryInv, ShapeInv, HeldInv, QueryReleased, Querying
<1>4. StringInv'
  BY <1>2, StringKept DEF QueryInv
<1> QED BY <1>1, <1>3, <1>4 DEF QueryInv, ReaderInv

\* The constructor gives a query with nothing but attachment and transaction.
LEMMA BuildKeeps ==
  ASSUME QueryInv, BuildQuery
  PROVE  QueryInv'
<1>0. call.pc = "build" /\ ShapeInv
  BY DEF BuildQuery, QueryInv
<1>1. CASE Do({Ok(NewQuery, TRUE)}, "prepare")
  <2> DEFINE os == {Ok(NewQuery, TRUE)}
  <2>0. Do(os, "prepare")
    BY <1>1
  <2> HIDE DEF os
  <2>1. PICK o \in os :
            /\ q' = o.q
            /\ call'.pc = IF o.thrown THEN "unwind" ELSE "prepare"
            /\ DOMAIN call' = DOMAIN NoCall /\ call'.args = call.args /\ call'.seen = call.seen
            /\ call'.str = call.str /\ call'.twice = call.twice
            /\ fn' = fn
    BY <1>0, <2>0, DoGoesOn
  <2>2. q' = NewQuery
    BY <2>1 DEF Ok, os
  <2>3. call'.pc = "prepare"
    <3>1. o.thrown = FALSE
      BY <2>1 DEF Ok, os
    <3> QED BY <2>1, <3>1
  <2>4. /\ DOMAIN q' = DOMAIN NewQuery /\ q'.held = {"att", "tra"} /\ q'.at = "none"
        /\ q'.names = <<>>
    BY <2>2 DEF NewQuery
  <2>5. ShapeInv' /\ HeldInv'
    BY <2>1, <2>3, <2>4 DEF ShapeInv, HeldInv, QueryReleased, Members
  <2>6. StringInv'
    BY <1>0, <2>1, StringKept DEF QueryInv
  <2>7. ReaderInv'
    BY <1>0, <2>1, <2>3, <2>4 DEF QueryInv, ReaderInv, IdleInv, LoopInv
  <2> QED BY <2>1, <2>5, <2>6, <2>7 DEF QueryInv
<1>2. CASE call' = [call EXCEPT !.pc = "threw"] /\ UNCHANGED <<server, q>>
  <2>1. fn' = fn /\ q' = None
    BY <1>0, <1>2 DEF server, QueryInv, HeldInv
  <2>2. /\ DOMAIN call' = DOMAIN NoCall /\ call'.pc = "threw"
        /\ call'.str = call.str /\ call'.twice = call.twice
    BY <1>0, <1>2 DEF ShapeInv, NoCall
  <2>3. ShapeInv' /\ HeldInv'
    BY <2>1, <2>2 DEF ShapeInv, HeldInv, QueryReleased, Querying
  <2>4. StringInv'
    BY <1>0, <2>2, StringKept DEF QueryInv
  <2>5. ReaderInv'
    BY <2>2 DEF ReaderInv, IdleInv, LoopInv, Querying
  <2> QED BY <2>1, <2>3, <2>4, <2>5 DEF QueryInv
<1> QED BY <1>1, <1>2 DEF BuildQuery

\* The statement is prepared, with no cursor yet, or the call unwinds.
LEMMA PrepareStepKeeps ==
  ASSUME QueryInv, Prepare
  PROVE  QueryInv'
<1> DEFINE T == IF fn = SumFn THEN SumText ELSE call.args.text
           os == prepare(q, T)
<1>1. call.pc = "prepare" /\ ShapeInv /\ DOMAIN q = DOMAIN NewQuery /\ q.held \subseteq Members
  BY DEF Prepare, QueryInv, ShapeInv, HeldInv, Querying
<1>2. Do(os, "bind")
  BY DEF Prepare
<1>3. \A o \in os :
         /\ DOMAIN o.q = DOMAIN NewQuery /\ o.q.held \subseteq Members
         /\ o.q.at = q.at /\ o.q.names = q.names
         /\ ("curs" \in o.q.held) <=> ("curs" \in q.held)
         /\ ~o.thrown => o.q.text = T /\ {"out_meta", "out_buffer"} \subseteq o.q.held
  BY <1>1, PrepareKeeps
<1> HIDE DEF os
<1>4. PICK o \in os :
         /\ q' = o.q
         /\ call'.pc = IF o.thrown THEN "unwind" ELSE "bind"
         /\ DOMAIN call' = DOMAIN NoCall /\ call'.args = call.args /\ call'.seen = call.seen
         /\ call'.str = call.str /\ call'.twice = call.twice
         /\ fn' = fn
  BY <1>1, <1>2, DoGoesOn
<1>5. call'.pc \in {"unwind", "bind"} /\ (call'.pc = "bind" => ~o.thrown)
  BY <1>4
<1>6. ShapeInv' /\ HeldInv'
  BY <1>3, <1>4, <1>5 DEF ShapeInv, HeldInv, QueryReleased
<1>7. StringInv'
  BY <1>1, <1>4, StringKept DEF QueryInv
<1>8. ReaderInv'
  <2> SUFFICES ASSUME fn = ReadFn PROVE ReaderInv'
    BY <1>4 DEF ReaderInv
  <2>1. T = call.args.text /\ call.args.text \in ReadTexts /\ q.names \in {<<>>, Aliases(call.args.text)}
    BY <1>1, UserCallsAssumption DEF QueryInv, ReaderInv, Querying
  <2>2. call.seen = <<>> /\ q.at = "none" /\ "curs" \notin q.held
    BY <1>1 DEF QueryInv, ReaderInv, IdleInv
  <2> HIDE DEF T
  <2>3. IdleInv'
    BY <1>3, <1>4, <1>5, <2>2 DEF IdleInv
  <2>4. LoopInv'
    BY <1>5 DEF LoopInv
  <2> QED BY <1>3, <1>4, <1>5, <2>1, <2>3, <2>4 DEF ReaderInv
<1> QED BY <1>4, <1>6, <1>7, <1>8 DEF QueryInv

\* Parameters are set, and nothing else.
LEMMA BindKeeps ==
  ASSUME QueryInv, BindArguments
  PROVE  QueryInv'
<1>1. /\ call.pc = "bind" /\ ShapeInv /\ DOMAIN q = DOMAIN NewQuery
      /\ q.held \subseteq Members /\ "out_buffer" \in q.held
  BY DEF BindArguments, QueryInv, ShapeInv, HeldInv, Querying
<1>2. \E in : Do({Ok([q EXCEPT !.in = in], TRUE)}, "open")
  BY DEF BindArguments
<1>3. PICK in : Do({Ok([q EXCEPT !.in = in], TRUE)}, "open")
  BY <1>2
<1> DEFINE n == [q EXCEPT !.in = in]
           os == {Ok(n, TRUE)}
<1>4. Do(os, "open")
  BY <1>3
<1>5. /\ DOMAIN n = DOMAIN NewQuery /\ n.held = q.held /\ n.at = q.at /\ n.names = q.names
      /\ n.text = q.text
  BY <1>1 DEF NewQuery
<1> HIDE DEF n
<1>6. \A o \in os : o.q = n /\ o.thrown = FALSE
  BY DEF Ok
<1> HIDE DEF os
<1>7. PICK o \in os :
         /\ q' = o.q
         /\ call'.pc = IF o.thrown THEN "unwind" ELSE "open"
         /\ DOMAIN call' = DOMAIN NoCall /\ call'.args = call.args /\ call'.seen = call.seen
         /\ call'.str = call.str /\ call'.twice = call.twice
         /\ fn' = fn
  BY <1>1, <1>4, DoGoesOn
<1>8. call'.pc = "open" /\ q' = n
  BY <1>6, <1>7
<1>9. ShapeInv' /\ HeldInv'
  BY <1>1, <1>5, <1>7, <1>8 DEF ShapeInv, HeldInv, QueryReleased
<1>10. StringInv'
  BY <1>1, <1>7, StringKept DEF QueryInv
<1>11. ReaderInv'
  <2>1. IdleInv' \/ fn # ReadFn
    BY <1>1, <1>5, <1>7, <1>8 DEF QueryInv, ReaderInv, IdleInv
  <2>2. LoopInv'
    BY <1>8 DEF LoopInv
  <2> QED BY <1>1, <1>5, <1>7, <1>8, <2>1, <2>2 DEF QueryInv, ReaderInv, Querying
<1> QED BY <1>7, <1>9, <1>10, <1>11 DEF QueryInv

\* What a query can deliver to a reader is a row of its text.
LEMMA ReaderRows ==
  ASSUME NEW p, p.text \in ReadTexts, NEW r \in Deliverable(p)
  PROVE  r # Unset
<1>1. p.text # SumText
  BY DEF ReadTexts
<1>2. r \in Rows[p.text]
  BY <1>1 DEF Deliverable
<1> QED BY <1>2, UserCallsAssumption

\* Appending to a sequence whose elements have no type.
LEMMA AppendAny ==
  ASSUME NEW s, s \in Seq(Range(s)), NEW v
  PROVE  /\ Len(s) \in Nat /\ DOMAIN s = 1 .. Len(s)
         /\ Append(s, v) \in Seq(Range(Append(s, v)))
         /\ Len(Append(s, v)) = Len(s) + 1 /\ DOMAIN Append(s, v) = 1 .. Len(s) + 1
         /\ Append(s, v)[Len(s) + 1] = v
         /\ \A k \in 1 .. Len(s) : Append(s, v)[k] = s[k]
<1> DEFINE S == Range(s) \cup {v}
           t == Append(s, v)
<1>1. s \in Seq(S)
  BY SeqMonotonic
<1>2. Len(s) \in Nat /\ DOMAIN s = 1 .. Len(s)
  BY LenProperties
<1> HIDE DEF S
<1>3. v \in S
  BY DEF S
<1>4. /\ t \in Seq(S) /\ Len(t) = Len(s) + 1
      /\ t[Len(s) + 1] = v /\ \A k \in 1 .. Len(s) : t[k] = s[k]
  BY <1>1, <1>3
<1> HIDE DEF t
<1>5. DOMAIN t = 1 .. Len(s) + 1
  BY <1>4, LenProperties
<1>6. t \in Seq(Range(t))
  <2>1. Len(t) \in Nat /\ t \in [1 .. Len(t) -> S]
    BY <1>4, LenProperties
  <2>2. t \in [1 .. Len(t) -> Range(t)]
    BY <2>1 DEF Range
  <2> QED BY <2>1, <2>2, SeqDef
<1> QED BY <1>2, <1>4, <1>5, <1>6 DEF t

\* openCursor throws, or opens the cursor and fetches: one row, or the end.
LEMMA OpenOutcomes ==
  ASSUME NEW p, DOMAIN p = DOMAIN NewQuery, NEW o \in openCursor(p)
  PROVE  LET n == [p EXCEPT !.held = @ \cup {"curs"}, !.rows = <<>>]
         IN  \/ o.thrown = TRUE /\ o.q \in {p, n}
             \/ /\ o.thrown = FALSE
                /\ \/ \E r \in Deliverable(n) :
                         o.q = [n EXCEPT !.row = r, !.at = "row", !.rows = Append(@, r)]
                   \/ o.q = [n EXCEPT !.at = "end"]
<1> DEFINE n == [p EXCEPT !.held = @ \cup {"curs"}, !.rows = <<>>]
           with(f) == [f EXCEPT !.result = TRUE]
           after(w) == IF w.thrown THEN {w} ELSE {with(f) : f \in next(w.q)}
<1>1. PICK w \in Opened(p) : o \in after(w)
  BY DEF openCursor
<1>2. w = Throw(p) \/ w = Ok(n, TRUE)
  BY DEF Opened
<1>3. DOMAIN n = DOMAIN NewQuery
  BY DEF NewQuery
<1> HIDE DEF n
<1>4. CASE w = Throw(p)
  <2>1. w.thrown = TRUE /\ w.q = p
    BY <1>4 DEF Throw
  <2>2. o = w
    BY <1>1, <2>1
  <2> QED BY <2>1, <2>2
<1>5. CASE w = Ok(n, TRUE)
  <2>1. w.thrown = FALSE /\ w.q = n
    BY <1>5 DEF Ok
  <2>2. PICK f \in next(n) : o = with(f)
    BY <1>1, <2>1
  <2>3. \/ f = Throw(n)
        \/ \E r \in Deliverable(n) :
              f = Ok([n EXCEPT !.row = r, !.at = "row", !.rows = Append(@, r)], TRUE)
        \/ f = Ok([n EXCEPT !.at = "end"], FALSE)
    BY <1>3, NextOutcomes
  <2>4. CASE f = Throw(n)
    BY <2>2, <2>4 DEF Throw, n
  <2>5. CASE \E r \in Deliverable(n) :
                f = Ok([n EXCEPT !.row = r, !.at = "row", !.rows = Append(@, r)], TRUE)
    <3>1. PICK r \in Deliverable(n) :
                f = Ok([n EXCEPT !.row = r, !.at = "row", !.rows = Append(@, r)], TRUE)
      BY <2>5
    <3>2. o.q = [n EXCEPT !.row = r, !.at = "row", !.rows = Append(@, r)] /\ o.thrown = FALSE
      BY <2>2, <3>1 DEF Ok
    <3> QED BY <3>2 DEF n
  <2>6. CASE f = Ok([n EXCEPT !.at = "end"], FALSE)
    <3>1. o.q = [n EXCEPT !.at = "end"] /\ o.thrown = FALSE
      BY <2>2, <2>6 DEF Ok
    <3> QED BY <3>1 DEF n
  <2> QED BY <2>3, <2>4, <2>5, <2>6
<1> QED BY <1>2, <1>4, <1>5

\* The cursor is at its first row, which is yet to be read, or at the end.
LEMMA OpenKeeps ==
  ASSUME QueryInv, OpenCursor
  PROVE  QueryInv'
<1> DEFINE os == openCursor(q)
           to == IF fn = SumFn THEN "take" ELSE "loop"
           n == [q EXCEPT !.held = @ \cup {"curs"}, !.rows = <<>>]
<1>1. /\ call.pc = "open" /\ ShapeInv /\ DOMAIN q = DOMAIN NewQuery
      /\ q.held \subseteq Members /\ "out_buffer" \in q.held
  BY DEF OpenCursor, QueryInv, ShapeInv, HeldInv, Querying
<1>2. Do(os, to)
  BY DEF OpenCursor
<1>3. /\ DOMAIN n = DOMAIN NewQuery /\ n.held = q.held \cup {"curs"} /\ n.rows = <<>>
      /\ n.names = q.names /\ n.text = q.text /\ n.at = q.at /\ n.row = q.row
  BY <1>1 DEF NewQuery
<1>4. \A o \in os :
         \/ o.thrown = TRUE /\ o.q \in {q, n}
         \/ /\ o.thrown = FALSE
            /\ \/ \E r \in Deliverable(n) :
                     o.q = [n EXCEPT !.row = r, !.at = "row", !.rows = Append(@, r)]
               \/ o.q = [n EXCEPT !.at = "end"]
  BY <1>1, OpenOutcomes
<1> HIDE DEF os, to, n
<1>5. PICK o \in os :
         /\ q' = o.q
         /\ call'.pc = IF o.thrown THEN "unwind" ELSE to
         /\ DOMAIN call' = DOMAIN NoCall /\ call'.args = call.args /\ call'.seen = call.seen
         /\ call'.str = call.str /\ call'.twice = call.twice
         /\ fn' = fn
  BY <1>1, <1>2, DoGoesOn
<1>6. \/ call'.pc = "unwind" /\ q' \in {q, n}
      \/ /\ call'.pc = to
         /\ \/ \E r \in Deliverable(n) :
                  q' = [n EXCEPT !.row = r, !.at = "row", !.rows = Append(@, r)]
            \/ q' = [n EXCEPT !.at = "end"]
  <2>1. CASE o.thrown = TRUE /\ o.q \in {q, n}
    BY <1>5, <2>1
  <2>2. CASE /\ o.thrown = FALSE
             /\ \/ \E r \in Deliverable(n) :
                      o.q = [n EXCEPT !.row = r, !.at = "row", !.rows = Append(@, r)]
                \/ o.q = [n EXCEPT !.at = "end"]
    <3>1. call'.pc = to
      BY <1>5, <2>2
    <3> QED BY <1>5, <2>2, <3>1
  <2> QED BY <1>4, <2>1, <2>2
<1>7. to = (IF fn = ReadFn THEN "loop" ELSE to) /\ to \in {"take", "loop"}
  BY UserCallsAssumption DEF to
<1>8. /\ DOMAIN q' = DOMAIN NewQuery /\ q'.held \subseteq n.held \cup q.held /\ q'.names = q.names
      /\ q'.text = q.text
      /\ call'.pc = to => q'.held = n.held
  <2>1. CASE call'.pc = "unwind" /\ q' \in {q, n}
    BY <1>1, <1>3, <1>7, <2>1
  <2>2. ASSUME NEW r, q' = [n EXCEPT !.row = r, !.at = "row", !.rows = Append(@, r)]
        PROVE  /\ DOMAIN q' = DOMAIN NewQuery /\ q'.held = n.held /\ q'.names = n.names
               /\ q'.text = n.text
    BY <1>3, <2>2 DEF NewQuery
  <2>3. ASSUME q' = [n EXCEPT !.at = "end"]
        PROVE  /\ DOMAIN q' = DOMAIN NewQuery /\ q'.held = n.held /\ q'.names = n.names
               /\ q'.text = n.text
    BY <1>3, <2>3 DEF NewQuery
  <2> QED BY <1>3, <1>6, <2>1, <2>2, <2>3
<1>9. ShapeInv' /\ HeldInv'
  <2>1. call'.pc \in {"unwind", "take", "loop"}
    BY <1>6, <1>7
  <2> QED BY <1>1, <1>3, <1>5, <1>8, <2>1 DEF ShapeInv, HeldInv, QueryReleased, Members
<1>10. StringInv'
  BY <1>1, <1>5, StringKept DEF QueryInv
<1>11. ASSUME fn = ReadFn PROVE ReaderInv'
  <2>1. /\ q.text = call.args.text /\ call.args.text \in ReadTexts
        /\ q.names \in {<<>>, Aliases(call.args.text)}
        /\ call.seen = <<>> /\ "out_meta" \in q.held
    BY <1>1, <1>11 DEF QueryInv, ReaderInv, IdleInv, Querying
  <2>2. call'.pc \in {"unwind", "loop"}
    BY <1>6, <1>7, <1>11
  <2>3. IdleInv'
    BY <2>2 DEF IdleInv
  <2>4. ASSUME call'.pc = "loop" PROVE LoopInv'
    <3>1. {"curs", "out_meta"} \subseteq q'.held
      BY <1>3, <1>7, <1>8, <1>11, <2>1, <2>4
    <3>2. <<>> \in Seq(Range(<<>>)) /\ Len(<<>>) = 0 /\ DOMAIN <<>> = {}
      OBVIOUS
    <3>3. \/ \E r \in Deliverable(n) :
                q' = [n EXCEPT !.row = r, !.at = "row", !.rows = Append(@, r)]
          \/ q' = [n EXCEPT !.at = "end"]
      BY <1>6, <2>4
    <3>4. CASE \E r \in Deliverable(n) :
                  q' = [n EXCEPT !.row = r, !.at = "row", !.rows = Append(@, r)]
      <4>1. PICK r \in Deliverable(n) :
                  q' = [n EXCEPT !.row = r, !.at = "row", !.rows = Append(@, r)]
        BY <3>4
      <4>2. q'.row = r /\ q'.at = "row" /\ q'.rows = Append(<<>>, r)
        BY <1>3, <4>1 DEF NewQuery
      <4>3. /\ q'.rows \in Seq(Range(q'.rows)) /\ Len(q'.rows) = 1 /\ q'.rows[1] = r
        <5> DEFINE e == <<>>
        <5>1. e \in Seq(Range(e)) /\ Len(e) = 0
          BY <3>2
        <5> HIDE DEF e
        <5>2. /\ Append(e, r) \in Seq(Range(Append(e, r)))
              /\ Len(Append(e, r)) = Len(e) + 1 /\ Append(e, r)[Len(e) + 1] = r
          BY <5>1, AppendAny
        <5> QED BY <4>2, <5>1, <5>2 DEF e
      <4>4. r # Unset
        BY <1>3, <2>1, ReaderRows
      <4> QED BY <1>5, <2>1, <2>4, <3>1, <3>2, <4>2, <4>3, <4>4 DEF LoopInv
    <3>5. CASE q' = [n EXCEPT !.at = "end"]
      <4>1. q'.at = "end" /\ q'.rows = <<>>
        BY <1>3, <3>5 DEF NewQuery
      <4> QED BY <1>5, <2>1, <2>4, <3>1, <3>2, <4>1 DEF LoopInv
    <3> QED BY <3>3, <3>4, <3>5
  <2>5. LoopInv'
    <3>1. CASE call'.pc = "loop"
      BY <2>4, <3>1
    <3>2. CASE call'.pc = "unwind"
      BY <3>2 DEF LoopInv
    <3> QED BY <2>2, <3>1, <3>2
  <2> QED BY <1>5, <1>8, <2>1, <2>2, <2>3, <2>5 DEF ReaderInv
<1>12. ReaderInv'
  BY <1>5, <1>11 DEF ReaderInv
<1> QED BY <1>5, <1>9, <1>10, <1>12 DEF QueryInv

\* The column of the row the cursor is at is read; the function owes a fetch.
LEMMA ReadKeeps ==
  ASSUME QueryInv, ReadNumber
  PROVE  QueryInv'
<1> DEFINE T == call.args.text
           how == call.args.how
<1>1. /\ call.pc = "loop" /\ how # "string" /\ q' = Named(q) /\ fn' = fn
      /\ DOMAIN call = DOMAIN NoCall /\ DOMAIN q = DOMAIN NewQuery
      /\ q.held \subseteq Members /\ "out_buffer" \in q.held
  BY DEF ReadNumber, server, QueryInv, ShapeInv, HeldInv, Querying
<1>2. ~eof(q)
  BY DEF ReadNumber
<1>3. PICK v \in IF how = "int" THEN fbn_as_int(q, Column1) ELSE fbn_as_double(q, Column1) :
         call' = [call EXCEPT !.pc = "next", !.seen = Append(@, v)]
  BY DEF ReadNumber
<1>4. /\ DOMAIN call' = DOMAIN NoCall /\ call'.pc = "next" /\ call'.seen = Append(call.seen, v)
      /\ call'.args = call.args /\ call'.str = call.str /\ call'.twice = call.twice
  BY <1>1, <1>3 DEF NoCall
<1>5. /\ DOMAIN q' = DOMAIN NewQuery /\ q'.held = q.held
      /\ fn = ReadFn => /\ q'.text = q.text /\ q'.names \in {<<>>, Aliases(q.text)}
                        /\ q'.at = q.at /\ q'.row = q.row /\ q'.rows = q.rows
  <2>1. DOMAIN Named(q) = DOMAIN NewQuery /\ Named(q).held = q.held
    BY <1>1 DEF Named, NewQuery
  <2>2. ASSUME fn = ReadFn
        PROVE  "out_meta" \in q.held /\ q.names \in {<<>>, Aliases(q.text)}
    BY <1>1, <2>2 DEF QueryInv, ReaderInv, LoopInv, Querying
  <2> QED BY <1>1, <2>1, <2>2, IndexIsFixed
<1>6. ShapeInv' /\ HeldInv'
  BY <1>1, <1>4, <1>5 DEF ShapeInv, HeldInv, QueryReleased
<1>7. StringInv'
  BY <1>1, <1>4, StringKept DEF QueryInv
<1>8. ASSUME fn = ReadFn PROVE ReaderInv'
  <2>1. /\ q.text = T /\ T \in ReadTexts /\ q.names \in {<<>>, Aliases(T)}
        /\ {"curs", "out_meta"} \subseteq q.held
        /\ q.rows \in Seq(Range(q.rows)) /\ call.seen \in Seq(Range(call.seen))
        /\ q.at \in {"row", "end"} /\ (q.at = "row" => q.row # Unset)
        /\ q.at = "row" => Len(q.rows) = Len(call.seen) + 1 /\ q.row = q.rows[Len(q.rows)]
        /\ \A k \in DOMAIN call.seen : ReadFrom(call.seen[k], q.text, how, q.rows[k])
    BY <1>1, <1>8 DEF QueryInv, ReaderInv, LoopInv, Querying
  <2>2. q.at = "row"
    BY <1>2, <2>1 DEF eof
  <2>3. ReadFrom(v, q.text, how, q.row)
    <3>1. CASE how = "int"
      BY <1>1, <1>3, <2>1, <2>2, <3>1, IntIsRead
    <3>2. CASE how # "int"
      BY <1>1, <1>3, <2>1, <2>2, <3>2, DoubleIsRead
    <3> QED BY <3>1, <3>2
  <2>4. /\ Len(call.seen) \in Nat /\ DOMAIN call.seen = 1 .. Len(call.seen)
        /\ call'.seen \in Seq(Range(call'.seen))
        /\ Len(call'.seen) = Len(call.seen) + 1 /\ DOMAIN call'.seen = 1 .. Len(call.seen) + 1
        /\ call'.seen[Len(call.seen) + 1] = v
        /\ \A k \in 1 .. Len(call.seen) : call'.seen[k] = call.seen[k]
    BY <1>4, <2>1, AppendAny
  <2>5. \A k \in DOMAIN call'.seen : ReadFrom(call'.seen[k], q'.text, how, q'.rows[k])
    <3> SUFFICES ASSUME NEW k \in DOMAIN call'.seen
                 PROVE  ReadFrom(call'.seen[k], q.text, how, q.rows[k])
      BY <1>5, <1>8
    <3>1. CASE k \in DOMAIN call.seen
      BY <2>1, <2>4, <3>1
    <3>2. CASE k \notin DOMAIN call.seen
      <4>1. k = Len(call.seen) + 1
        BY <2>4, <3>2
      <4>2. q.rows[k] = q.row /\ call'.seen[k] = v
        BY <2>1, <2>2, <2>4, <4>1
      <4> QED BY <2>3, <4>2
    <3> QED BY <3>1, <3>2
  <2>6. LoopInv'
    <3>1. {"curs", "out_meta"} \subseteq q'.held /\ q'.rows \in Seq(Range(q'.rows))
      BY <1>5, <1>8, <2>1
    <3>2. q'.at = "row" /\ q'.row # Unset /\ Len(q'.rows) = Len(call'.seen)
      BY <1>5, <1>8, <2>1, <2>2, <2>4
    <3> QED BY <1>4, <2>4, <2>5, <3>1, <3>2 DEF LoopInv
  <2>7. IdleInv'
    BY <1>4 DEF IdleInv
  <2> QED BY <1>1, <1>4, <1>5, <1>8, <2>1, <2>6, <2>7 DEF ReaderInv
<1>9. ReaderInv'
  BY <1>1, <1>8 DEF ReaderInv
<1>10. fn \in Functions
  BY DEF QueryInv
<1> QED BY <1>1, <1>6, <1>7, <1>9, <1>10 DEF QueryInv

\* A string is read: the pointer may dangle from here to the next row.
LEMMA ReadStringKeeps ==
  ASSUME QueryInv, ReadString
  PROVE  QueryInv'
<1>1. /\ call.pc = "loop" /\ call.args.how = "string" /\ q' = Named(q) /\ fn' = fn
      /\ DOMAIN call = DOMAIN NoCall /\ DOMAIN q = DOMAIN NewQuery
      /\ q.held \subseteq Members /\ "out_buffer" \in q.held
  BY DEF ReadString, server, QueryInv, ShapeInv, HeldInv, Querying
<1>2. PICK p \in fbn_as_string_realloc(q, Column1, call.str) :
         call' = [call EXCEPT !.pc = "next", !.str = p.str, !.twice = @ \/ p.twice]
  BY DEF ReadString
<1>3. /\ DOMAIN call' = DOMAIN NoCall /\ call'.pc = "next" /\ call'.seen = call.seen
      /\ call'.args = call.args /\ call'.str = p.str
  BY <1>1, <1>2 DEF NoCall
<1>4. call'.twice = (call.twice \/ p.twice)
  BY <1>1, <1>2 DEF NoCall
<1>5. /\ DOMAIN q' = DOMAIN NewQuery /\ q'.held = q.held
      /\ fn = ReadFn => /\ q'.text = q.text /\ q'.names \in {<<>>, Aliases(q.text)}
                        /\ q'.at = q.at /\ q'.row = q.row /\ q'.rows = q.rows
  <2>1. DOMAIN Named(q) = DOMAIN NewQuery /\ Named(q).held = q.held
    BY <1>1 DEF Named, NewQuery
  <2>2. ASSUME fn = ReadFn
        PROVE  "out_meta" \in q.held /\ q.names \in {<<>>, Aliases(q.text)}
    BY <1>1, <2>2 DEF QueryInv, ReaderInv, LoopInv, Querying
  <2> QED BY <1>1, <2>1, <2>2, IndexIsFixed
<1>6. ShapeInv' /\ HeldInv'
  BY <1>1, <1>3, <1>5 DEF ShapeInv, HeldInv, QueryReleased
<1>7. StringInv'
  <2>1. call.str \in {"null", "block"} /\ ~call.twice
    BY <1>1 DEF QueryInv, StringInv, StringsOwned
  <2>2. p.twice = FALSE /\ p.str \in {"null", "block", "dangling"}
    BY <2>1, StringIsOwned
  <2>3. ~call'.twice
    BY <1>4, <2>1, <2>2
  <2> QED BY <1>3, <2>2, <2>3 DEF StringInv, StringsOwned
<1>8. ASSUME fn = ReadFn PROVE ReaderInv'
  <2>1. /\ q.text = call.args.text /\ call.args.text \in ReadTexts
        /\ {"curs", "out_meta"} \subseteq q.held
        /\ q.rows \in Seq(Range(q.rows)) /\ call.seen \in Seq(Range(call.seen))
        /\ q.at = "row" => q.row # Unset
    BY <1>1, <1>8 DEF QueryInv, ReaderInv, LoopInv, Querying
  <2>2. LoopInv'
    BY <1>1, <1>3, <1>5, <1>8, <2>1 DEF LoopInv
  <2>3. IdleInv'
    BY <1>3 DEF IdleInv
  <2> QED BY <1>1, <1>3, <1>5, <1>8, <2>1, <2>2, <2>3 DEF ReaderInv
<1>9. ReaderInv'
  BY <1>1, <1>8 DEF ReaderInv
<1> QED BY <1>1, <1>6, <1>7, <1>9 DEF QueryInv

\* The next row is fetched, or the end is found, or the call unwinds.
LEMMA NextRowKeeps ==
  ASSUME QueryInv, NextRow
  PROVE  QueryInv'
<1>1. /\ call.pc = "next" /\ fn' = fn /\ DOMAIN call = DOMAIN NoCall
      /\ DOMAIN q = DOMAIN NewQuery
      /\ q.held \subseteq Members /\ "out_buffer" \in q.held
  BY DEF NextRow, server, QueryInv, ShapeInv, HeldInv, Querying
<1>2. PICK o \in next(q) :
         /\ q' = o.q
         /\ call' = [call EXCEPT !.pc = IF o.thrown THEN "unwind" ELSE "loop",
                                 !.str = IF @ = "dangling" THEN "null" ELSE @]
  BY DEF NextRow
<1>3. /\ DOMAIN call' = DOMAIN NoCall /\ call'.seen = call.seen /\ call'.args = call.args
      /\ call'.str = IF call.str = "dangling" THEN "null" ELSE call.str
      /\ call'.twice = call.twice
  BY <1>1, <1>2 DEF NoCall
<1>4. call'.pc = IF o.thrown THEN "unwind" ELSE "loop"
  BY <1>1, <1>2 DEF NoCall
<1>5. \/ o = Throw(q)
      \/ \E r \in Deliverable(q) :
            o = Ok([q EXCEPT !.row = r, !.at = "row", !.rows = Append(@, r)], TRUE)
      \/ o = Ok([q EXCEPT !.at = "end"], FALSE)
  BY <1>1, NextOutcomes
<1>6. \/ call'.pc = "unwind" /\ q' = q
      \/ call'.pc = "loop" /\ \E r \in Deliverable(q) :
            /\ DOMAIN q' = DOMAIN NewQuery /\ q'.row = r /\ q'.at = "row"
            /\ q'.rows = Append(q.rows, r)
            /\ q'.held = q.held /\ q'.text = q.text /\ q'.names = q.names
      \/ call'.pc = "loop" /\
            /\ DOMAIN q' = DOMAIN NewQuery /\ q'.row = q.row /\ q'.at = "end"
            /\ q'.rows = q.rows
            /\ q'.held = q.held /\ q'.text = q.text /\ q'.names = q.names
  <2>1. CASE o = Throw(q)
    <3>1. o.thrown = TRUE /\ o.q = q
      BY <2>1 DEF Throw
    <3> QED BY <1>2, <1>4, <3>1
  <2>2. CASE \E r \in Deliverable(q) :
                o = Ok([q EXCEPT !.row = r, !.at = "row", !.rows = Append(@, r)], TRUE)
    <3>1. PICK r \in Deliverable(q) :
                o = Ok([q EXCEPT !.row = r, !.at = "row", !.rows = Append(@, r)], TRUE)
      BY <2>2
    <3>2. o.thrown = FALSE /\ o.q = [q EXCEPT !.row = r, !.at = "row", !.rows = Append(@, r)]
      BY <3>1 DEF Ok
    <3>3. /\ DOMAIN q' = DOMAIN NewQuery /\ q'.row = r /\ q'.at = "row"
          /\ q'.rows = Append(q.rows, r)
          /\ q'.held = q.held /\ q'.text = q.text /\ q'.names = q.names
      BY <1>1, <1>2, <3>2 DEF NewQuery
    <3>4. call'.pc = "loop"
      BY <1>4, <3>2
    <3> QED BY <3>3, <3>4
  <2>3. CASE o = Ok([q EXCEPT !.at = "end"], FALSE)
    <3>1. o.thrown = FALSE /\ o.q = [q EXCEPT !.at = "end"]
      BY <2>3 DEF Ok
    <3>2. /\ DOMAIN q' = DOMAIN NewQuery /\ q'.row = q.row /\ q'.at = "end"
          /\ q'.rows = q.rows
          /\ q'.held = q.held /\ q'.text = q.text /\ q'.names = q.names
      BY <1>1, <1>2, <3>1 DEF NewQuery
    <3>3. call'.pc = "loop"
      BY <1>4, <3>1
    <3> QED BY <3>2, <3>3
  <2> QED BY <1>5, <2>1, <2>2, <2>3
<1>7. /\ call'.pc \in {"unwind", "loop"} /\ DOMAIN q' = DOMAIN NewQuery
      /\ q'.held = q.held /\ q'.names = q.names /\ q'.text = q.text
  BY <1>1, <1>6
<1>8. ShapeInv' /\ HeldInv'
  BY <1>1, <1>3, <1>7 DEF ShapeInv, HeldInv, QueryReleased
<1>9. StringInv'
  BY <1>3 DEF QueryInv, StringInv, StringsOwned
<1>10. ASSUME fn = ReadFn PROVE ReaderInv'
  <2>1. /\ q.text = call.args.text /\ call.args.text \in ReadTexts
        /\ q.names \in {<<>>, Aliases(call.args.text)}
        /\ {"curs", "out_meta"} \subseteq q.held
        /\ q.rows \in Seq(Range(q.rows)) /\ call.seen \in Seq(Range(call.seen))
        /\ call.args.how # "string" =>
              /\ Len(q.rows) = Len(call.seen)
              /\ \A k \in DOMAIN call.seen :
                    ReadFrom(call.seen[k], q.text, call.args.how, q.rows[k])
    BY <1>1, <1>10 DEF QueryInv, ReaderInv, LoopInv, Querying
  <2>2. IdleInv'
    BY <1>7 DEF IdleInv
  <2>3. LoopInv'
    <3>1. CASE call'.pc = "unwind"
      BY <3>1 DEF LoopInv
    <3>2. CASE call'.pc = "loop" /\ \E r \in Deliverable(q) :
                  /\ DOMAIN q' = DOMAIN NewQuery /\ q'.row = r /\ q'.at = "row"
                  /\ q'.rows = Append(q.rows, r)
                  /\ q'.held = q.held /\ q'.text = q.text /\ q'.names = q.names
      <4>1. PICK r \in Deliverable(q) :
               q'.row = r /\ q'.at = "row" /\ q'.rows = Append(q.rows, r)
        BY <3>2
      <4>2. r # Unset
        BY <2>1, ReaderRows
      <4>3. /\ Len(q.rows) \in Nat
            /\ q'.rows \in Seq(Range(q'.rows)) /\ Len(q'.rows) = Len(q.rows) + 1
            /\ q'.rows[Len(q.rows) + 1] = r
            /\ \A k \in 1 .. Len(q.rows) : q'.rows[k] = q.rows[k]
        BY <2>1, <4>1, AppendAny
      <4>4. DOMAIN call.seen = 1 .. Len(call.seen)
        BY <2>1, LenProperties
      <4>5. ASSUME call.args.how # "string"
            PROVE  /\ Len(q'.rows) = Len(call.seen) + 1 /\ q'.row = q'.rows[Len(q'.rows)]
                   /\ \A k \in DOMAIN call.seen :
                         ReadFrom(call.seen[k], q.text, call.args.how, q'.rows[k])
        BY <2>1, <4>1, <4>3, <4>4, <4>5
      <4> QED BY <1>3, <1>7, <2>1, <3>2, <4>1, <4>2, <4>3, <4>5 DEF LoopInv
    <3>3. CASE call'.pc = "loop" /\
                  /\ DOMAIN q' = DOMAIN NewQuery /\ q'.row = q.row /\ q'.at = "end"
                  /\ q'.rows = q.rows
                  /\ q'.held = q.held /\ q'.text = q.text /\ q'.names = q.names
      BY <1>3, <2>1, <3>3 DEF LoopInv
    <3> QED BY <1>6, <3>1, <3>2, <3>3
  <2> QED BY <1>1, <1>3, <1>7, <1>10, <2>1, <2>2, <2>3 DEF ReaderInv
<1>11. ReaderInv'
  BY <1>1, <1>10 DEF ReaderInv
<1> QED BY <1>1, <1>8, <1>9, <1>11 DEF QueryInv

\* A look-up that throws leaves the query and the string to the destructor.
LEMMA LookUpKeeps ==
  ASSUME QueryInv, LookUpThrows
  PROVE  QueryInv'
<1>1. /\ call.pc \in {"bind", "take", "loop"} /\ fn' = fn /\ q' = q
      /\ DOMAIN call = DOMAIN NoCall /\ DOMAIN q = DOMAIN NewQuery /\ q.held \subseteq Members
  BY DEF LookUpThrows, server, QueryInv, ShapeInv, HeldInv, Querying
<1>2. /\ DOMAIN call' = DOMAIN NoCall /\ call'.pc = "unwind" /\ call'.seen = call.seen
      /\ call'.args = call.args /\ call'.str = call.str /\ call'.twice = call.twice
  BY <1>1 DEF LookUpThrows, NoCall
<1>3. ShapeInv' /\ HeldInv'
  BY <1>1, <1>2 DEF ShapeInv, HeldInv, QueryReleased
<1>4. StringInv'
  BY <1>1, <1>2, StringKept DEF QueryInv
<1>5. ReaderInv'
  <2>1. IdleInv' /\ LoopInv'
    BY <1>2 DEF IdleInv, LoopInv
  <2> QED BY <1>1, <1>2, <2>1 DEF QueryInv, ReaderInv, Querying
<1> QED BY <1>1, <1>3, <1>4, <1>5 DEF QueryInv

\* The loop ends with nothing left to read.
LEMMA EndLoopKeeps ==
  ASSUME QueryInv, EndLoop
  PROVE  QueryInv'
<1>1. /\ call.pc = "loop" /\ fn' = fn /\ q' = q /\ DOMAIN call = DOMAIN NoCall
      /\ DOMAIN q = DOMAIN NewQuery /\ q.held \subseteq Members
  BY DEF EndLoop, server, QueryInv, ShapeInv, HeldInv, Querying
<1>2. PICK to \in {"close", "destroy"} : call' = [call EXCEPT !.pc = to, !.seen = <<>>]
  BY DEF EndLoop
<1>3. /\ DOMAIN call' = DOMAIN NoCall /\ call'.pc = to /\ call'.seen = <<>>
      /\ call'.args = call.args /\ call'.str = call.str /\ call'.twice = call.twice
  BY <1>1, <1>2 DEF NoCall
<1>4. ShapeInv' /\ HeldInv'
  BY <1>1, <1>3 DEF ShapeInv, HeldInv, QueryReleased
<1>5. StringInv'
  BY <1>1, <1>3, StringKept DEF QueryInv
<1>6. ReaderInv'
  <2>1. IdleInv' /\ LoopInv'
    BY <1>3 DEF IdleInv, LoopInv
  <2> QED BY <1>1, <1>3, <2>1 DEF QueryInv, ReaderInv, Querying
<1> QED BY <1>1, <1>4, <1>5, <1>6 DEF QueryInv

\* A query that was closed may be prepared again, under the names it had.
LEMMA CloseQueryKeeps ==
  ASSUME QueryInv, CloseQuery
  PROVE  QueryInv'
<1>1. call.pc = "close" /\ ShapeInv /\ DOMAIN q = DOMAIN NewQuery /\ q.held \subseteq Members
  BY DEF CloseQuery, QueryInv, ShapeInv, HeldInv, Querying
<1> DEFINE os == close(q)
<1>2. PICK to \in {"destroy", "prepare"} : Do(os, to)
  BY DEF CloseQuery
<1>3. \A o \in os :
         /\ DOMAIN o.q = DOMAIN NewQuery /\ o.q.held \subseteq q.held
         /\ o.q.names = q.names
         /\ ~o.thrown => o.q.at = "none" /\ {"stmt", "curs"} \cap o.q.held = {}
  BY <1>1, CloseKeeps
<1> HIDE DEF os
<1>4. PICK o \in os :
         /\ q' = o.q
         /\ call'.pc = IF o.thrown THEN "unwind" ELSE to
         /\ DOMAIN call' = DOMAIN NoCall /\ call'.args = call.args /\ call'.seen = call.seen
         /\ call'.str = call.str /\ call'.twice = call.twice
         /\ fn' = fn
  BY <1>1, <1>2, DoGoesOn
<1>5. call'.pc \in {"unwind", "destroy", "prepare"} /\ (call'.pc = "prepare" => ~o.thrown)
  BY <1>4
<1>6. ShapeInv' /\ HeldInv'
  BY <1>1, <1>3, <1>4, <1>5 DEF ShapeInv, HeldInv, QueryReleased
<1>7. StringInv'
  BY <1>1, <1>4, StringKept DEF QueryInv
<1>8. ASSUME fn = ReadFn PROVE ReaderInv'
  <2>1. /\ call.args.text \in ReadTexts /\ q.names \in {<<>>, Aliases(call.args.text)}
        /\ call.seen = <<>>
    BY <1>1, <1>8 DEF QueryInv, ReaderInv, IdleInv, Querying
  <2>2. IdleInv' /\ LoopInv'
    BY <1>3, <1>4, <1>5, <2>1 DEF IdleInv, LoopInv
  <2> QED BY <1>3, <1>4, <1>5, <1>8, <2>1, <2>2 DEF ReaderInv
<1>9. ReaderInv'
  BY <1>4, <1>8 DEF ReaderInv
<1> QED BY <1>4, <1>6, <1>7, <1>9 DEF QueryInv

\* The destructor empties the query or ends the process.
LEMMA DestroyKeeps ==
  ASSUME QueryInv, DestroyQuery
  PROVE  QueryInv'
<1>1. /\ call.pc \in {"destroy", "unwind"} /\ fn' = fn /\ DOMAIN call = DOMAIN NoCall
      /\ DOMAIN q = DOMAIN NewQuery /\ q.held \subseteq Members
  BY DEF DestroyQuery, server, QueryInv, ShapeInv, HeldInv, Querying
<1> DEFINE to(o) == IF o.thrown THEN "terminated"
                    ELSE IF call.pc = "unwind" THEN "threw"
                    ELSE IF fn = SumFn THEN "write" ELSE "returned"
<1>2. PICK o \in Destructor(q) : q' = o.q /\ call' = [call EXCEPT !.pc = to(o)]
  BY DEF DestroyQuery
<1>3. ~o.thrown => q'.held = {}
  BY <1>1, <1>2, DestructorReleases
<1>4. /\ DOMAIN call' = DOMAIN NoCall /\ call'.pc = to(o)
      /\ call'.str = call.str /\ call'.twice = call.twice
  BY <1>1, <1>2 DEF NoCall
<1>5. /\ call'.pc \in {"terminated", "threw", "write", "returned"}
      /\ call'.pc # "terminated" => ~o.thrown
      /\ call'.pc = "write" => fn # ReadFn
  BY <1>4, UserCallsAssumption
<1>6. ShapeInv' /\ HeldInv'
  BY <1>3, <1>4, <1>5 DEF ShapeInv, HeldInv, QueryReleased, Querying
<1>7. StringInv'
  BY <1>1, <1>4, StringKept DEF QueryInv
<1>8. ReaderInv'
  <2>1. IdleInv' /\ LoopInv'
    BY <1>5 DEF IdleInv, LoopInv
  <2> QED BY <1>1, <1>5, <2>1 DEF ReaderInv, Querying
<1> QED BY <1>1, <1>6, <1>7, <1>8 DEF QueryInv
-----------------------------------------------------------------------------

\* QueryInv is inductive and holds in every state.
THEOREM QueryInvHolds == Spec => []QueryInv
<1>1. Init => QueryInv
  <2> SUFFICES ASSUME Init PROVE QueryInv
    OBVIOUS
  <2>1. /\ call.pc = "idle" /\ call.str = "null" /\ call.seen = <<>>
        /\ DOMAIN call = DOMAIN NoCall
    BY DEF Init, NoCall
  <2>2. call.twice = FALSE /\ q = None /\ fn \in Functions
    BY DEF Init, NoCall
  <2>3. ShapeInv /\ HeldInv /\ StringInv
    BY <2>1, <2>2 DEF ShapeInv, HeldInv, StringInv, StringsOwned, QueryReleased, Querying
  <2>4. ReaderInv
    BY <2>1 DEF ReaderInv, IdleInv, LoopInv, Querying
  <2> QED BY <2>2, <2>3, <2>4 DEF QueryInv
<1>2. QueryInv /\ [Next]_vars => QueryInv'
  <2> SUFFICES ASSUME QueryInv, [Next]_vars PROVE QueryInv'
    OBVIOUS
  <2>1. CASE UNCHANGED vars
    BY <2>1, DeclarationsKeep DEF vars, server
  <2>2. ASSUME NEW d \in Databases, Declare(d) \/ DropFunction(d) PROVE QueryInv'
    BY <2>2, DeclarationsKeep DEF Declare, DropFunction
  <2>3. CASE Restart \/ EndCall
    BY <2>3, NoCallKeeps DEF Restart, EndCall, server
  <2> QED BY <2>1, <2>2, <2>3, BeginKeeps, OthersKeep, BuildKeeps, PrepareStepKeeps, BindKeeps,
             OpenKeeps, ReadKeeps, ReadStringKeeps, NextRowKeeps, LookUpKeeps,
             EndLoopKeeps, CloseQueryKeeps, DestroyKeeps DEF Next
<1> QED BY <1>1, <1>2, PTL DEF Spec

\* However a function ends, its query has given back what it held (close and the
\* destructor, with any call into Firebird throwing).
THEOREM QueryGivesBack == Spec => []QueryReleased
<1>1. QueryInv => QueryReleased
  BY DEF QueryInv, HeldInv
<1> QED BY QueryInvHolds, <1>1, PTL

\* No block of a string is freed twice by a caller who forgets its pointer after
\* a failed call.
THEOREM StringsAreOwned == Spec => []StringsOwned
<1>1. QueryInv => StringsOwned
  BY DEF QueryInv, StringInv
<1> QED BY QueryInvHolds, <1>1, PTL

\* A loop over the rows reads each of them once, in order, for any number of
\* rows, columns and repetitions of the statement.
THEOREM EveryRowOnce == Spec => []RowsReadOnce
<1>1. QueryInv => RowsReadOnce
  <2> SUFFICES ASSUME QueryInv, fn = ReadFn, call.pc = "loop", eof(q), call.args.how # "string"
               PROVE  RowsReadOnce
    BY DEF RowsReadOnce
  <2> DEFINE how == call.args.how
             i == IndexIn(q.text, Column1)
  <2>1. /\ DOMAIN q = DOMAIN NewQuery
        /\ q.names \in {<<>>, Aliases(q.text)} /\ {"curs", "out_meta"} \subseteq q.held
        /\ q.rows \in Seq(Range(q.rows)) /\ call.seen \in Seq(Range(call.seen))
        /\ q.at = "end" => Len(q.rows) = Len(call.seen)
        /\ \A k \in DOMAIN call.seen : ReadFrom(call.seen[k], q.text, how, q.rows[k])
    BY DEF QueryInv, ShapeInv, ReaderInv, LoopInv, Querying
  <2>2. q.at = "end" /\ Len(call.seen) = Len(q.rows)
    BY <2>1 DEF eof
  <2>3. DOMAIN call.seen = DOMAIN q.rows
    BY <2>1, <2>2, LenProperties
  <2>4. fieldIdxByName(q, Column1) = i
    BY <2>1, IndexIsFixed
  <2>5. \A k \in DOMAIN q.rows : AsRead(how, q.rows[k][i]) = RightIn(q.text, how, q.rows[k])
    BY <2>4 DEF AsRead, RightIn
  <2> HIDE DEF i
  <2>6. ASSUME i # None, Column(q, i).type \in Numbers, NEW k \in DOMAIN q.rows,
               how = "int" => AsRead(how, q.rows[k][i]) \in Ints
        PROVE  call.seen[k] = AsRead(how, q.rows[k][i])
    BY <2>1, <2>3, <2>5, <2>6 DEF ReadFrom, Column, i
  <2> QED BY <2>2, <2>4, <2>6 DEF RowsReadOnce
<1> QED BY QueryInvHolds, <1>1, PTL
-----------------------------------------------------------------------------
(* What a function answers *)

\* An argument of my_sum_args is parsed as it was given, by the description of
\* the declaration it was packed with.
LEMMA ParsedIsGiven ==
  ASSUME NEW d, DOMAIN d.in = 1 .. 3, \A i \in 1 .. 3 : d.in[i].type \in {"long", "int64"},
         NEW args \in [1 .. 3 -> Args], NEW idx \in 0 .. 2
  PROVE  parseArg(PSERoutineMeta(d), Message(d.in, args), idx) = {args[idx + 1]}
<1> DEFINE fs == d.in
           m == set(fs)
           msg == Message(fs, args)
           i == idx + 1
           a == m[i].offset
           b == m[i].null_offset
<1>1. \A j \in DOMAIN fs : DataCells(fs[j]) \in Nat \ {0}
  BY DEF DataCells
<1>2. i \in 1 .. 3
  OBVIOUS
<1>3. /\ b \in DOMAIN msg /\ msg[b] = IF args[i] = Null THEN -1 ELSE 0
      /\ a \in DOMAIN msg /\ (args[i] # Null => msg[a] = Cells(fs[i], args[i])[1])
  <2> HIDE DEF fs, i
  <2>1. DOMAIN fs = 1 .. 3 /\ 3 \in 1 .. 3
    BY DEF fs
  <2> QED BY <1>1, <1>2, <2>1, ValueInMessage
<1>4. parseArg(PSERoutineMeta(d), msg, idx)
        = (IF CellAt(msg, b) = {0} THEN {} ELSE {Null})
          \cup (IF 0 \in CellAt(msg, b) THEN CellAt(msg, a) ELSE {})
  BY DEF parseArg, PSERoutineMeta, getNullOffset, getOffset
<1>5. Unset \notin Int /\ Null \notin Int /\ args[i] \in Int \cup {Null}
  <2>1. Args \subseteq Ints \cup {Null} /\ Ints \subseteq Int
    BY UserCallsAssumption DEF Ints
  <2> HIDE DEF i
  <2> QED BY <1>2, <2>1, CellAssumption
<1>6. Cells(fs[i], args[i])[1] = args[i]
  BY DEF Cells
<1> HIDE DEF msg, a, b, i, fs
<1>7. CASE args[i] = Null
  <2>1. CellAt(msg, b) = {-1}
    BY <1>3, <1>5, <1>7 DEF CellAt
  <2> QED BY <1>4, <1>7, <2>1 DEF i, msg, fs
<1>8. CASE args[i] # Null
  <2>1. CellAt(msg, b) = {0}
    BY <1>3, <1>5, <1>8 DEF CellAt
  <2>2. CellAt(msg, a) = {args[i]}
    BY <1>3, <1>5, <1>6, <1>8 DEF CellAt
  <2> QED BY <1>4, <2>1, <2>2 DEF i, msg, fs
<1> QED BY <1>7, <1>8

\* Powers of 2 are positive and grow.
LEMMA PowersGrow ==
  ASSUME NEW k \in Nat
  PROVE  2 ^ k \in Nat \ {0} /\ 2 ^ k <= 2 ^ (k + 1)
<1> DEFINE S(n) == SUBSET (1 .. n)
<1>1. \A n \in Nat : IsFiniteSet(S(n)) /\ Cardinality(S(n)) = 2 ^ n /\ Cardinality(S(n)) \in Nat \ {0}
  <2> SUFFICES ASSUME NEW n \in Nat
               PROVE  IsFiniteSet(S(n)) /\ Cardinality(S(n)) = 2 ^ n /\ Cardinality(S(n)) \in Nat \ {0}
    OBVIOUS
  <2>1. IsFiniteSet(1 .. n) /\ Cardinality(1 .. n) = n
    BY FS_Interval
  <2>2. IsFiniteSet(S(n)) /\ Cardinality(S(n)) = 2 ^ n
    BY <2>1, FS_SUBSET
  <2>3. S(n) # {}
    OBVIOUS
  <2> HIDE DEF S
  <2>4. Cardinality(S(n)) \in Nat /\ Cardinality(S(n)) # 0
    BY <2>2, <2>3, FS_CardinalityType, FS_EmptySet
  <2> QED BY <2>2, <2>4
<1>2. S(k) \in SUBSET S(k + 1)
  OBVIOUS
<1> HIDE DEF S
<1>3. k + 1 \in Nat
  OBVIOUS
<1>4. Cardinality(S(k)) <= Cardinality(S(k + 1))
  BY <1>1, <1>2, <1>3, FS_Subset
<1> QED BY <1>1, <1>3, <1>4

\* An integer that a double holds is read as it is: asInt answers every int, though
\* tryAsInt refuses the two smallest, and an end of the range for a number beyond it.
THEOREM IntegersAreRead ==
  ASSUME NEW p, NEW i, NEW v \in Int, v # Null, -(2 ^ DoubleBits) < v, v < 2 ^ DoubleBits,
         p.row # Unset, p.row[i] = v, Column(p, i).type \in Numbers, Column(p, i).scale = 0
  PROVE  /\ tryAsInt(p, i) = {[ok |-> v > IntMin + 1 /\ v <= IntMax, value |-> w] : w \in Cast(v)}
         /\ asInt(p, i) = IF v \in Ints THEN {v} ELSE {IntMin, IntMax}
<1> DEFINE c == Column(p, i)
           n(x) == Rounded(adjustNumericScale(x, c.scale))
           read(x) == {[ok |-> n(x) > IntMin + 1 /\ n(x) <= IntMax, value |-> w] : w \in Cast(n(x))}
           E(null) == IF null \/ c.type \notin Numbers THEN {Refused(0)}
                      ELSE UNION {read(x) : x \in Value(p, i) \ {Null}}
<1>1. Double(v, 1) = <<v, 1>>
  <2> DEFINE top == 2 ^ DoubleBits
             size == IF v < 0 THEN -v ELSE v
  <2>1. top \in Int
    BY PowersGrow, UserCallsAssumption
  <2> HIDE DEF top
  <2>2. size < top
    BY <2>1 DEF top
  <2> HIDE DEF size
  <2>3. v = 0 \/ (1 = 1 /\ size < top)
    BY <2>2
  <2> QED BY <2>3 DEF Double, top, size
<1>2. adjustNumericScale(v, 0) = <<v, 1>>
  BY <1>1 DEF adjustNumericScale
<1>3. Rounded(<<v, 1>>) = v
  <2>1. Rounded(<<v, 1>>) = IF v >= 0 THEN (2 * v + 1) \div (2 * 1) ELSE -((2 * (-v) + 1) \div (2 * 1))
    BY DEF Rounded
  <2>2. CASE v >= 0
    <3>1. (2 * v + 1) \div 2 = v
      BY <2>2
    <3> QED BY <2>1, <2>2, <3>1
  <2>3. CASE ~(v >= 0)
    <3>1. (2 * (-v) + 1) \div 2 = -v /\ -(-v) = v
      BY <2>3
    <3> QED BY <2>1, <2>3, <3>1
  <2> QED BY <2>2, <2>3
<1>4. n(v) = v
  BY <1>2, <1>3
<1>5. getFieldIsNull(p, i) = {FALSE} /\ Value(p, i) \ {Null} = {v}
  BY DEF getFieldIsNull, Value
<1>6. tryAsInt(p, i) = UNION {E(null) : null \in getFieldIsNull(p, i)}
  BY DEF tryAsInt
<1> HIDE DEF n
<1>7. E(FALSE) = read(v)
  BY <1>5
<1> HIDE DEF E
<1>8. tryAsInt(p, i) = read(v)
  BY <1>5, <1>6, <1>7
<1>9. read(v) = {[ok |-> v > IntMin + 1 /\ v <= IntMax, value |-> w] : w \in Cast(v)}
  BY <1>4
<1> HIDE DEF read
<1>10. asInt(p, i) = Cast(v)
  <2> DEFINE answer(w) == [ok |-> v > IntMin + 1 /\ v <= IntMax, value |-> w]
  <2>1. asInt(p, i) = {r.value : r \in {answer(w) : w \in Cast(v)}}
    BY <1>8, <1>9 DEF asInt
  <2>2. \A w : answer(w).value = w
    OBVIOUS
  <2> HIDE DEF answer
  <2> QED BY <2>1, <2>2
<1> QED BY <1>8, <1>9, <1>10 DEF Cast

\* A sum that is an int is read as it is.
LEMMA SumIsRead ==
  ASSUME NEW p, p.text = SumText, NEW s \in Ints \cup {Null}, p.row = <<s>>
  PROVE  /\ getFieldIsNull(p, 1) = {s = Null}
         /\ s # Null => \A v \in asInt(p, 1) : v = s
<1>1. Ints \subseteq Int
  BY DEF Ints
<1>2. p.row # Unset
  <2>1. s \in Int \cup {Null}
    BY <1>1
  <2>2. \A S : s \in S => <<s>> \in Seq(S)
    OBVIOUS
  <2>3. <<s>> \in Seq(Int \cup {Null})
    BY <2>1, <2>2, Zenon
  <2> QED BY <2>3, UserCallsAssumption
<1>3. p.row[1] = s
  OBVIOUS
<1>4. getFieldIsNull(p, 1) = {s = Null}
  BY <1>2, <1>3 DEF getFieldIsNull
<1>5. Column(p, 1).type \in Numbers /\ Column(p, 1).scale = 0
  BY UserCallsAssumption DEF Numbers, Column
<1>6. ASSUME s # Null PROVE asInt(p, 1) = {s}
  <2> DEFINE full == 2 ^ (IntBits - 1)
             top == 2 ^ DoubleBits
  <2>1. full \in Int /\ top \in Int /\ full < top
    <3>1. IntBits - 1 \in Nat
      BY UserCallsAssumption
    <3> QED BY <3>1, PowersGrow, UserCallsAssumption
  <2>2. s \in -full .. full - 1
    BY <1>6 DEF Ints, IntMin, IntMax
  <2> HIDE DEF full, top
  <2>3. s \in Int /\ -top < s /\ s < top
    BY <2>1, <2>2
  <2> QED BY <1>2, <1>3, <1>5, <1>6, <2>3, IntegersAreRead DEF top
<1> QED BY <1>4, <1>6


\* Where all databases have had one declaration, it describes the message of the
\* call.
LEMMA OneDeclaration ==
  ASSUME DescribedInv, call.pc # "idle", Cardinality(ever) = 1
  PROVE  Declaration \in Declarations[fn] /\ meta = PSERoutineMeta(Declaration)
<1>1. PICK e : ever = {e}
  BY FS_Singleton DEF DescribedInv
<1>2. Declaration \in ever
  BY DEF DescribedInv, Declaration, Declared
<1>3. \E d \in ever : meta = PSERoutineMeta(d)
  BY DEF DescribedInv
<1> QED BY <1>1, <1>2, <1>3 DEF DescribedInv

\* A step within a call leaves what describes its messages alone.
LEMMA DescribedStays ==
  ASSUME DescribedInv, UNCHANGED server, call.pc # "idle", call'.db = call.db
  PROVE  DescribedInv'
BY DEF DescribedInv, server, Declared, Declaration

\* Without a call there is no answer.
LEMMA IdleAnswers ==
  ASSUME call'.pc = "idle"
  PROVE  SumInv' /\ TextInv'
BY DEF SumInv, TextInv, ReturnsSum, TextReturned

\* Only my_sum_args and readers have a query.
LEMMA QueryStepAnswers ==
  ASSUME AnswerInv, UNCHANGED server, call.pc \notin {"idle", "enter", "returned"},
         call'.db = call.db, fn = SumFn => SumInv'
  PROVE  AnswerInv'
<1>1. fn' = fn /\ fn # TextFn
  BY DEF AnswerInv, TextInv, server
<1>2. SumInv' /\ TextInv'
  BY <1>1 DEF SumInv, TextInv
<1> QED BY <1>2, DescribedStays DEF AnswerInv

\* Functions are declared and dropped between calls; a start of the server forgets
\* what was declared before.
LEMMA DeclaringAnswers ==
  ASSUME QueryInv, AnswerInv,
         Restart \/ \E d \in Databases : Declare(d) \/ DropFunction(d)
  PROVE  AnswerInv'
<1>1. ASSUME Restart PROVE AnswerInv'
  <2>1. /\ meta' = None /\ ever' = Declared /\ fn' = fn /\ decl' = decl /\ call' = NoCall
    BY <1>1 DEF Restart
  <2>2. call'.pc = "idle"
    BY <2>1 DEF NoCall
  <2>3. IsFiniteSet(Declared) /\ Declared \subseteq Declarations[fn]
    BY FS_Subset DEF AnswerInv, DescribedInv
  <2>4. DescribedInv'
    BY <2>1, <2>2, <2>3 DEF AnswerInv, DescribedInv, Declared
  <2> QED BY <2>2, <2>4, IdleAnswers DEF AnswerInv
<1>2. ASSUME NEW d \in Databases, Declare(d) PROVE AnswerInv'
  <2>1. call.pc = "idle" /\ call' = call /\ fn' = fn /\ meta' = meta
    BY <1>2 DEF Declare
  <2>2. PICK s \in Declarations[fn] : decl' = [decl EXCEPT ![d] = s] /\ ever' = ever \cup {s}
    BY <1>2 DEF Declare
  <2>3. IsFiniteSet(ever')
    BY <2>2, FS_AddElement DEF AnswerInv, DescribedInv
  <2>4. decl' \in [Databases -> Declarations[fn] \cup {None}]
    BY <2>2 DEF AnswerInv, DescribedInv
  <2>5. Declared' \subseteq ever'
    BY <2>2 DEF AnswerInv, DescribedInv, Declared
  <2>6. ever' \subseteq Declarations[fn] /\ (meta # None => \E e \in ever' : meta = PSERoutineMeta(e))
    BY <2>2 DEF AnswerInv, DescribedInv
  <2>7. DescribedInv'
    BY <2>1, <2>3, <2>4, <2>5, <2>6 DEF DescribedInv
  <2> QED BY <2>1, <2>7, IdleAnswers DEF AnswerInv
<1>3. ASSUME NEW d \in Databases, DropFunction(d) PROVE AnswerInv'
  <2>1. /\ call.pc = "idle" /\ call' = call /\ fn' = fn /\ meta' = meta /\ ever' = ever
        /\ decl' = [decl EXCEPT ![d] = None]
    BY <1>3 DEF DropFunction
  <2>2. decl' \in [Databases -> Declarations[fn] \cup {None}] /\ Declared' \subseteq ever'
    BY <2>1 DEF AnswerInv, DescribedInv, Declared
  <2>3. DescribedInv'
    BY <2>1, <2>2 DEF AnswerInv, DescribedInv
  <2> QED BY <2>1, <2>3, IdleAnswers DEF AnswerInv
<1> QED BY <1>1, <1>2, <1>3

\* The first call makes the description, by the declaration it comes through.
LEMMA BeginAnswers ==
  ASSUME QueryInv, AnswerInv, NEW d \in Databases, BeginCall(d)
  PROVE  AnswerInv'
<1>1. PICK a \in ArgsOf(d) :
         call' = [NoCall EXCEPT !.pc = IF fn = ReadFn THEN "build" ELSE "enter", !.db = d, !.args = a]
  BY DEF BeginCall
<1>2. /\ call'.pc = (IF fn = ReadFn THEN "build" ELSE "enter") /\ call'.db = d /\ call'.args = a
  BY <1>1 DEF NoCall
<1>3. /\ fn' = fn /\ decl' = decl /\ ever' = ever /\ decl[d] # None
      /\ meta' = IF meta = None THEN PSERoutineMeta(decl[d]) ELSE meta
  BY DEF BeginCall
<1>4. decl[d] \in ever /\ decl[d] \in Declarations[fn]
  BY <1>3 DEF AnswerInv, DescribedInv, Declared
<1>5. \E e \in ever : meta' = PSERoutineMeta(e)
  BY <1>3, <1>4 DEF AnswerInv, DescribedInv
<1>6. DescribedInv'
  BY <1>2, <1>3, <1>5 DEF AnswerInv, DescribedInv, Declared, Declaration
<1>7. ASSUME fn = SumFn PROVE SumInv'
  <2>1. call'.pc = "enter"
    BY <1>2, <1>7, UserCallsAssumption
  <2>2. a \in [1 .. 3 -> Args]
    BY <1>4, <1>7, UserCallsAssumption DEF ArgsOf
  <2> QED BY <1>2, <2>1, <2>2 DEF SumInv, ReturnsSum
<1>8. ASSUME fn = TextFn PROVE TextInv'
  BY <1>2, <1>8, UserCallsAssumption DEF TextInv, TextReturned
<1>9. SumInv' /\ TextInv'
  BY <1>3, <1>7, <1>8 DEF SumInv, TextInv
<1> QED BY <1>6, <1>9 DEF AnswerInv

\* The arguments are parsed as given.
LEMMA ParseAnswers ==
  ASSUME QueryInv, AnswerInv, ParseArgs
  PROVE  AnswerInv'
<1>1. call.pc = "enter" /\ fn = SumFn /\ UNCHANGED server /\ q' = q /\ DOMAIN call = DOMAIN NoCall
  BY DEF ParseArgs, QueryInv, ShapeInv
<1> DEFINE in == Message(Declaration.in, call.args)
<1>2. PICK n1 \in parseArg(meta, in, 0), n2 \in parseArg(meta, in, 1), n3 \in parseArg(meta, in, 2) :
         call' = [call EXCEPT !.pc = "build", !.n = <<n1, n2, n3>>]
  BY DEF ParseArgs
<1>3. call'.pc = "build" /\ call'.n = <<n1, n2, n3>> /\ call'.db = call.db /\ call'.args = call.args
  BY <1>1, <1>2 DEF NoCall
<1>4. call.args \in [1 .. 3 -> Args]
  BY <1>1 DEF AnswerInv, SumInv
<1>5. ASSUME Cardinality(ever) = 1
      PROVE  n1 = call.args[1] /\ n2 = call.args[2] /\ n3 = call.args[3]
  <2>1. Declaration \in Declarations[SumFn] /\ meta = PSERoutineMeta(Declaration)
    BY <1>1, <1>5, OneDeclaration DEF AnswerInv
  <2>2. /\ DOMAIN Declaration.in = 1 .. 3
        /\ \A i \in 1 .. 3 : Declaration.in[i].type \in {"long", "int64"}
    BY <2>1, UserCallsAssumption
  <2>3. \A idx \in 0 .. 2 : parseArg(meta, in, idx) = {call.args[idx + 1]}
    BY <1>4, <2>1, <2>2, ParsedIsGiven
  <2> HIDE DEF in
  <2>4. /\ parseArg(meta, in, 0) = {call.args[0 + 1]}
        /\ parseArg(meta, in, 1) = {call.args[1 + 1]}
        /\ parseArg(meta, in, 2) = {call.args[2 + 1]}
    BY <2>3
  <2> QED BY <2>4
<1>6. ASSUME Cardinality(ever) = 1 PROVE \A i \in 1 .. 3 : call'.n[i] = call.args[i]
  BY <1>3, <1>5, <1>6
<1>7. SumInv'
  BY <1>1, <1>3, <1>4, <1>6 DEF SumInv, ReturnsSum, server
<1>8. TextInv'
  BY <1>1, UserCallsAssumption DEF TextInv, server
<1> QED BY <1>1, <1>3, <1>7, <1>8, DescribedStays DEF AnswerInv

\* What an operation on the query does not touch of the call.
LEMMA DoAnswers ==
  ASSUME ShapeInv, NEW outcomes, NEW to, Do(outcomes, to)
  PROVE  \E o \in outcomes :
            /\ q' = o.q
            /\ call'.pc = IF o.thrown THEN "unwind" ELSE to
            /\ call'.db = call.db /\ call'.args = call.args /\ call'.n = call.n
            /\ call'.result = call.result
            /\ UNCHANGED server
<1>1. PICK o \in outcomes :
         /\ q' = o.q
         /\ call' = [call EXCEPT !.pc = IF o.thrown THEN "unwind" ELSE to]
         /\ UNCHANGED server
  BY DEF Do
<1>2. call'.pc = IF o.thrown THEN "unwind" ELSE to
  BY <1>1 DEF ShapeInv, NoCall
<1>3. /\ call'.db = call.db /\ call'.args = call.args /\ call'.n = call.n
      /\ call'.result = call.result
  BY <1>1 DEF ShapeInv, NoCall
<1> QED BY <1>1, <1>2, <1>3

\* A call that unwinds answers nothing.
LEMMA UnwindAnswers ==
  ASSUME SumInv, call.pc # "idle", UNCHANGED server, call'.args = call.args,
         call'.pc \in {"unwind", "threw", "terminated"}
  PROVE  SumInv'
BY DEF SumInv, ReturnsSum, server

\* So does a look-up that throws.
LEMMA LookUpAnswers ==
  ASSUME QueryInv, AnswerInv, LookUpThrows
  PROVE  AnswerInv'
<1>1. call.pc \in {"bind", "take", "loop"} /\ ShapeInv /\ UNCHANGED server
  BY DEF LookUpThrows, QueryInv
<1>2. call'.pc = "unwind" /\ call'.args = call.args /\ call'.db = call.db
  BY <1>1 DEF LookUpThrows, ShapeInv, NoCall
<1> QED BY <1>1, <1>2, UnwindAnswers, QueryStepAnswers DEF AnswerInv

\* The constructor gives the function its query, or throws.
LEMMA BuildAnswers ==
  ASSUME QueryInv, AnswerInv, BuildQuery
  PROVE  AnswerInv'
<1>1. call.pc = "build" /\ ShapeInv
  BY DEF BuildQuery, QueryInv
<1>2. CASE Do({Ok(NewQuery, TRUE)}, "prepare")
  <2> DEFINE os == {Ok(NewQuery, TRUE)}
  <2>0. Do(os, "prepare") /\ \A o \in os : o.q = NewQuery /\ o.thrown = FALSE
    BY <1>2 DEF Ok
  <2> HIDE DEF os
  <2>1. PICK o \in os :
            /\ q' = o.q
            /\ call'.pc = IF o.thrown THEN "unwind" ELSE "prepare"
            /\ call'.db = call.db /\ call'.args = call.args /\ call'.n = call.n
            /\ call'.result = call.result
            /\ UNCHANGED server
    BY <1>1, <2>0, DoAnswers
  <2>2. q' = NewQuery /\ ~o.thrown
    BY <2>0, <2>1
  <2>3. call'.pc = "prepare"
    BY <2>1, <2>2
  <2>4. q'.at = "none"
    BY <2>2 DEF NewQuery
  <2>5. fn = SumFn => SumInv'
    BY <1>1, <2>1, <2>3, <2>4 DEF AnswerInv, SumInv, ReturnsSum, server
  <2> QED BY <1>1, <2>1, <2>5, QueryStepAnswers
<1>3. CASE call' = [call EXCEPT !.pc = "threw"] /\ UNCHANGED <<server, q>>
  <2>1. call'.pc = "threw" /\ call'.args = call.args /\ call'.db = call.db
    BY <1>1, <1>3 DEF ShapeInv, NoCall
  <2> QED BY <1>1, <1>3, <2>1, UnwindAnswers, QueryStepAnswers DEF AnswerInv
<1> QED BY <1>2, <1>3 DEF BuildQuery

\* prepare makes a parameter of each mark of the text.
LEMMA ParametersOfText ==
  ASSUME NEW p, DOMAIN p = DOMAIN NewQuery, NEW T, NEW o \in prepare(p, T), ~o.thrown
  PROVE  DOMAIN o.q.in = DOMAIN Statements[T].params
<1> DEFINE upto(n) == [p EXCEPT !.text = T, !.held = @ \cup Range(SubSeq(Acquired(T), 1, n)),
                                !.in = [i \in DOMAIN Statements[T].params |-> 0], !.row = Unset]
           k == Len(Acquired(T))
<1>1. upto(k).in = [i \in DOMAIN Statements[T].params |-> 0]
  BY DEF NewQuery
<1>2. \/ o = Throw(p)
      \/ \E n \in 0 .. k - 1 : o = Throw(upto(n))
      \/ o = Ok(upto(k), TRUE)
  BY DEF prepare
<1> HIDE DEF upto, k
<1>3. \A x : Throw(x).thrown
  BY DEF Throw
<1>4. o = Ok(upto(k), TRUE)
  BY <1>2, <1>3
<1> QED BY <1>1, <1>4 DEF Ok

\* The text of the sum is prepared.
LEMMA PrepareAnswers ==
  ASSUME QueryInv, AnswerInv, Prepare
  PROVE  AnswerInv'
<1> DEFINE T == IF fn = SumFn THEN SumText ELSE call.args.text
           os == prepare(q, T)
<1>1. /\ call.pc = "prepare" /\ ShapeInv /\ DOMAIN q = DOMAIN NewQuery /\ q.held \subseteq Members
      /\ Do(os, "bind")
  BY DEF Prepare, QueryInv, ShapeInv, HeldInv, Querying
<1>2. \A o \in os : o.q.at = q.at /\ (~o.thrown => o.q.text = T)
  BY <1>1, PrepareKeeps
<1>3. \A o \in os : ~o.thrown => DOMAIN o.q.in = DOMAIN Statements[T].params
  BY <1>1, ParametersOfText
<1> HIDE DEF os
<1>4. PICK o \in os :
            /\ q' = o.q
            /\ call'.pc = IF o.thrown THEN "unwind" ELSE "bind"
            /\ call'.db = call.db /\ call'.args = call.args /\ call'.n = call.n
            /\ call'.result = call.result
            /\ UNCHANGED server
  BY <1>1, DoAnswers
<1>5. ASSUME fn = SumFn PROVE SumInv'
  <2>1. CASE o.thrown
    <3>1. call'.pc = "unwind"
      BY <1>4, <2>1
    <3> QED BY <1>1, <1>4, <3>1, UnwindAnswers DEF AnswerInv
  <2>2. CASE ~o.thrown
    <3>1. call'.pc = "bind" /\ q'.text = SumText /\ q'.at = q.at
      BY <1>2, <1>4, <1>5, <2>2
    <3>2. DOMAIN q'.in = 1 .. 3
      <4>1. DOMAIN Statements[SumText].params = 1 .. 3
        BY UserCallsAssumption
      <4> QED BY <1>3, <1>4, <1>5, <2>2, <4>1
    <3> QED BY <1>1, <1>4, <1>5, <3>1, <3>2 DEF AnswerInv, SumInv, ReturnsSum, server
  <2> QED BY <2>1, <2>2
<1> QED BY <1>1, <1>4, <1>5, QueryStepAnswers

\* A parameter of the sum gets the argument as it is.
LEMMA ParameterIsSet ==
  ASSUME NEW p, DOMAIN p = DOMAIN NewQuery, p.text = SumText, DOMAIN p.in = 1 .. 3,
         NEW i \in 1 .. 3, NEW v
  PROVE  SetParam(p, i, v).in[i] = v
<1>1. CASE v = Null
  <2>1. SetParam(p, i, v) = [p EXCEPT !.in[i] = Null]
    BY <1>1 DEF SetParam, setParamAsNull, Ok
  <2> QED BY <1>1, <2>1 DEF NewQuery
<1>2. CASE v # Null
  <2>1. Statements[p.text].params[i] = "long"
    BY UserCallsAssumption
  <2>2. setParamAsInt(p, i, v) = Ok([p EXCEPT !.in[i] = v], TRUE)
    BY <2>1 DEF setParamAsInt, Numbers, Narrow
  <2>3. SetParam(p, i, v) = [p EXCEPT !.in[i] = v]
    BY <1>2, <2>2 DEF SetParam, Ok
  <2> QED BY <2>3 DEF NewQuery
<1> QED BY <1>1, <1>2

\* All parameters are set before the cursor opens.
LEMMA BindAnswers ==
  ASSUME QueryInv, AnswerInv, BindArguments
  PROVE  AnswerInv'
<1>1. /\ call.pc = "bind" /\ ShapeInv /\ DOMAIN q = DOMAIN NewQuery
  BY DEF BindArguments, QueryInv, ShapeInv, Querying
<1> DEFINE bound(values) == [q EXCEPT !.in = [i \in DOMAIN q.in |-> SetParam(q, i, values[i]).in[i]]]
<1>2. PICK values \in IF fn = SumFn THEN {call.n} ELSE [DOMAIN q.in -> Args] :
         Do({Ok(bound(values), TRUE)}, "open")
  BY DEF BindArguments
<1> DEFINE os == {Ok(bound(values), TRUE)}
<1>0. Do(os, "open") /\ \A o \in os : o.q = bound(values) /\ o.thrown = FALSE
  <2> HIDE DEF bound
  <2> QED BY <1>2 DEF Ok
<1> HIDE DEF os, bound
<1>3. PICK o \in os :
            /\ q' = o.q
            /\ call'.pc = IF o.thrown THEN "unwind" ELSE "open"
            /\ call'.db = call.db /\ call'.args = call.args /\ call'.n = call.n
            /\ call'.result = call.result
            /\ UNCHANGED server
  BY <1>0, <1>1, DoAnswers
<1>4. q' = bound(values) /\ call'.pc = "open"
  BY <1>0, <1>3
<1>5. /\ q'.in = [i \in DOMAIN q.in |-> SetParam(q, i, values[i]).in[i]]
      /\ q'.text = q.text /\ q'.at = q.at
  BY <1>1, <1>4 DEF NewQuery, bound
<1>6. ASSUME fn = SumFn PROVE SumInv'
  <2>1. /\ q.text = SumText /\ q.at = "none" /\ DOMAIN q.in = 1 .. 3
        /\ call.args \in [1 .. 3 -> Args] /\ values = call.n
    BY <1>1, <1>2, <1>6 DEF AnswerInv, SumInv
  <2>2. ASSUME Cardinality(ever) = 1 PROVE q'.in = call.args
    <3>1. \A i \in 1 .. 3 : values[i] = call.args[i]
      BY <1>1, <1>6, <2>1, <2>2 DEF AnswerInv, SumInv
    <3>2. \A i \in 1 .. 3 : SetParam(q, i, values[i]).in[i] = values[i]
      BY <1>1, <2>1, ParameterIsSet
    <3>3. \A i \in 1 .. 3 : q'.in[i] = call.args[i]
      BY <1>5, <2>1, <3>1, <3>2
    <3>4. q'.in = [i \in 1 .. 3 |-> q'.in[i]] /\ call.args = [i \in 1 .. 3 |-> call.args[i]]
      BY <1>5, <2>1
    <3> QED BY <3>3, <3>4
  <2> QED BY <1>3, <1>4, <1>5, <1>6, <2>1, <2>2 DEF AnswerInv, SumInv, ReturnsSum, server
<1> QED BY <1>1, <1>3, <1>6, QueryStepAnswers

\* The cursor of the sum opens on its one row.
LEMMA OpenDelivers ==
  ASSUME NEW p, DOMAIN p = DOMAIN NewQuery, p.text = SumText, p.at = "none",
         NEW o \in openCursor(p), ~o.thrown
  PROVE  o.q.text = SumText /\ o.q.row = <<Sum(p.in)>>
<1> DEFINE opened == [p EXCEPT !.held = @ \cup {"curs"}, !.rows = <<>>]
           E(u) == IF u.thrown THEN {u} ELSE {[f EXCEPT !.result = TRUE] : f \in next(u.q)}
<1>1. PICK u \in Opened(p) : o \in E(u)
  BY DEF openCursor
<1>2. u = Throw(p) \/ u = Ok(opened, TRUE)
  BY DEF Opened
<1>3. /\ DOMAIN opened = DOMAIN NewQuery /\ opened.text = SumText /\ opened.at = "none"
      /\ opened.in = p.in
  BY DEF NewQuery
<1> HIDE DEF opened
<1>4. ~u.thrown /\ u.q = opened
  <2>1. CASE u = Throw(p)
    <3>1. u.thrown
      BY <2>1 DEF Throw
    <3>2. o = u
      BY <1>1, <3>1
    <3> QED BY <3>1, <3>2
  <2>2. CASE u = Ok(opened, TRUE)
    BY <2>2 DEF Ok
  <2> QED BY <1>2, <2>1, <2>2
<1>5. PICK f \in next(opened) : o = [f EXCEPT !.result = TRUE]
  BY <1>1, <1>4
<1>6. MayEnd(opened) = FALSE /\ Deliverable(opened) = {<<Sum(p.in)>>}
  BY <1>3 DEF MayEnd, Deliverable
<1> DEFINE row(r) == [opened EXCEPT !.row = r, !.at = "row", !.rows = Append(@, r)]
<1>7. f = Throw(opened) \/ \E r \in {<<Sum(p.in)>>} : f = Ok(row(r), TRUE)
  BY <1>6 DEF next
<1>8. CASE f = Throw(opened)
  <2>1. o.thrown = TRUE
    BY <1>5, <1>8 DEF Throw
  <2> QED BY <2>1
<1>9. CASE \E r \in {<<Sum(p.in)>>} : f = Ok(row(r), TRUE)
  <2> DEFINE r == <<Sum(p.in)>>
  <2>1. f = Ok(row(r), TRUE)
    BY <1>9
  <2>2. row(r).text = SumText /\ row(r).row = r
    BY <1>3 DEF NewQuery
  <2> HIDE DEF row, r
  <2>3. o.q = row(r)
    BY <1>5, <2>1 DEF Ok
  <2> QED BY <2>2, <2>3 DEF r
<1> QED BY <1>7, <1>8, <1>9

\* The sum is the first row.
LEMMA OpenAnswers ==
  ASSUME QueryInv, AnswerInv, OpenCursor
  PROVE  AnswerInv'
<1> DEFINE to == IF fn = SumFn THEN "take" ELSE "loop"
           os == openCursor(q)
<1>1. /\ call.pc = "open" /\ ShapeInv /\ DOMAIN q = DOMAIN NewQuery /\ Do(os, to)
  BY DEF OpenCursor, QueryInv, ShapeInv, Querying
<1>2. ASSUME fn = SumFn PROVE \A o \in os : ~o.thrown => o.q.text = SumText /\ o.q.row = <<Sum(q.in)>>
  <2>1. q.text = SumText /\ q.at = "none"
    BY <1>1, <1>2 DEF AnswerInv, SumInv
  <2> QED BY <1>1, <2>1, OpenDelivers
<1> HIDE DEF os
<1>3. PICK o \in os :
            /\ q' = o.q
            /\ call'.pc = IF o.thrown THEN "unwind" ELSE to
            /\ call'.db = call.db /\ call'.args = call.args /\ call'.n = call.n
            /\ call'.result = call.result
            /\ UNCHANGED server
  BY <1>1, DoAnswers
<1>4. ASSUME fn = SumFn PROVE SumInv'
  <2>1. CASE o.thrown
    <3>1. call'.pc = "unwind"
      BY <1>3, <2>1
    <3> QED BY <1>1, <1>3, <3>1, UnwindAnswers DEF AnswerInv
  <2>2. CASE ~o.thrown
    <3>1. call'.pc = "take" /\ q'.text = SumText /\ q'.row = <<Sum(q.in)>>
      BY <1>2, <1>3, <1>4, <2>2
    <3> QED BY <1>1, <1>3, <1>4, <3>1 DEF AnswerInv, SumInv, ReturnsSum, server
  <2> QED BY <2>1, <2>2
<1> QED BY <1>1, <1>3, <1>4, QueryStepAnswers

\* The result is the row's field.
LEMMA TakeAnswers ==
  ASSUME QueryInv, AnswerInv, TakeSum
  PROVE  AnswerInv'
<1>1. call.pc = "take" /\ ShapeInv /\ UNCHANGED server
  BY DEF TakeSum, QueryInv
<1>2. PICK null \in getFieldIsNull(q, 1) : \E v \in IF null THEN {Null} ELSE asInt(q, 1) :
         call' = [call EXCEPT !.pc = "close", !.result = v]
  BY DEF TakeSum
<1>2a. PICK v \in IF null THEN {Null} ELSE asInt(q, 1) :
         call' = [call EXCEPT !.pc = "close", !.result = v]
  BY <1>2
<1>3. /\ call'.pc = "close" /\ call'.result = v /\ call'.db = call.db /\ call'.args = call.args
  BY <1>1, <1>2a DEF ShapeInv, NoCall
<1>4. ASSUME fn = SumFn PROVE SumInv'
  <2>1. ASSUME Cardinality(ever) = 1, Sum(call.args) \in Ints \cup {Null}
        PROVE  v = Sum(call.args)
    <3> DEFINE s == Sum(call.args)
    <3>1. q.text = SumText /\ q.row = <<s>>
      BY <1>1, <1>4, <2>1 DEF AnswerInv, SumInv
    <3>2. s \in Ints \cup {Null}
      BY <2>1
    <3> HIDE DEF s
    <3>3. /\ getFieldIsNull(q, 1) = {s = Null}
          /\ s # Null => \A w \in asInt(q, 1) : w = s
      BY <3>1, <3>2, SumIsRead
    <3>4. CASE s = Null
      <4>1. null
        BY <1>2, <3>3, <3>4
      <4>2. v = Null
        BY <1>2a, <4>1
      <4> QED BY <3>4, <4>2 DEF s
    <3>5. CASE s # Null
      <4>1. null = FALSE
        BY <1>2, <3>3, <3>5
      <4>2. v \in asInt(q, 1)
        BY <1>2a, <4>1
      <4> QED BY <3>3, <3>5, <4>2 DEF s
    <3> QED BY <3>4, <3>5
  <2> QED BY <1>1, <1>3, <1>4, <2>1 DEF AnswerInv, SumInv, ReturnsSum, server
<1> QED BY <1>1, <1>3, <1>4, QueryStepAnswers

\* Closing the query does not touch the result.
LEMMA CloseAnswers ==
  ASSUME QueryInv, AnswerInv, CloseQuery
  PROVE  AnswerInv'
<1> DEFINE os == close(q)
<1>1. call.pc = "close" /\ ShapeInv
  BY DEF CloseQuery, QueryInv
<1>2. PICK to \in {"destroy"} \cup (IF fn = ReadFn THEN {"prepare"} ELSE {}) : Do(os, to)
  BY DEF CloseQuery
<1> HIDE DEF os
<1>3. PICK o \in os :
            /\ q' = o.q
            /\ call'.pc = IF o.thrown THEN "unwind" ELSE to
            /\ call'.db = call.db /\ call'.args = call.args /\ call'.n = call.n
            /\ call'.result = call.result
            /\ UNCHANGED server
  BY <1>1, <1>2, DoAnswers
<1>4. ASSUME fn = SumFn PROVE SumInv'
  <2>1. to = "destroy"
    BY <1>2, <1>4, UserCallsAssumption
  <2>2. CASE o.thrown
    <3>1. call'.pc = "unwind"
      BY <1>3, <2>2
    <3> QED BY <1>1, <1>3, <3>1, UnwindAnswers DEF AnswerInv
  <2>3. CASE ~o.thrown
    <3>1. call'.pc = "destroy"
      BY <1>3, <2>1, <2>3
    <3> QED BY <1>1, <1>3, <1>4, <3>1 DEF AnswerInv, SumInv, ReturnsSum, server
  <2> QED BY <2>2, <2>3
<1> QED BY <1>1, <1>3, <1>4, QueryStepAnswers

\* Nor does its destructor.
LEMMA DestroyAnswers ==
  ASSUME QueryInv, AnswerInv, DestroyQuery
  PROVE  AnswerInv'
<1>1. call.pc \in {"destroy", "unwind"} /\ ShapeInv /\ UNCHANGED server
  BY DEF DestroyQuery, QueryInv
<1> DEFINE to(o) == IF o.thrown THEN "terminated"
                    ELSE IF call.pc = "unwind" THEN "threw"
                    ELSE IF fn = SumFn THEN "write" ELSE "returned"
<1>2. PICK o \in Destructor(q) : call' = [call EXCEPT !.pc = to(o)]
  BY DEF DestroyQuery
<1>3. call'.pc = to(o) /\ call'.db = call.db /\ call'.args = call.args /\ call'.result = call.result
  BY <1>1, <1>2 DEF ShapeInv, NoCall
<1>4. ASSUME fn = SumFn PROVE SumInv'
  <2>1. CASE call'.pc \in {"threw", "terminated"}
    BY <1>1, <1>3, <2>1, UnwindAnswers DEF AnswerInv
  <2>2. CASE call'.pc = "write"
    <3>1. call.pc = "destroy"
      BY <1>1, <1>3, <2>2
    <3> QED BY <1>1, <1>3, <1>4, <2>2, <3>1 DEF AnswerInv, SumInv, ReturnsSum, server
  <2>3. call'.pc \in {"threw", "terminated", "write"}
    BY <1>3, <1>4
  <2> QED BY <2>1, <2>2, <2>3
<1> QED BY <1>1, <1>3, <1>4, QueryStepAnswers

\* What a return writes into the message of the declaration.
LEMMA ReturnWrites ==
  ASSUME ShapeInv, NEW w, NEW text, Return(w, text), decl' = decl
  PROVE  LET out == Buffer(<<Declaration.out>>)
         IN  /\ call'.pc = "returned" /\ call'.text = text
             /\ call'.db = call.db /\ call'.args = call.args /\ Declaration' = Declaration
             /\ call'.out = [k \in DOMAIN out |-> IF k \in DOMAIN w THEN w[k] ELSE Unset]
             /\ call'.outside = ~(DOMAIN w \subseteq DOMAIN out)
<1> DEFINE out == Buffer(<<Declaration.out>>)
           msg == [k \in DOMAIN out |-> IF k \in DOMAIN w THEN w[k] ELSE Unset]
           beyond == ~(DOMAIN w \subseteq DOMAIN out)
<1>1. call' = [call EXCEPT !.pc = "returned", !.text = text, !.out = msg, !.outside = beyond]
  BY DEF Return
<1> HIDE DEF msg, beyond
<1>2. /\ call'.pc = "returned" /\ call'.text = text /\ call'.out = msg
      /\ call'.db = call.db /\ call'.args = call.args
  BY <1>1 DEF ShapeInv, NoCall
<1>3. call'.outside = beyond
  BY <1>1 DEF ShapeInv, NoCall
<1>4. Declaration' = Declaration
  BY <1>2 DEF Declaration
<1> QED BY <1>2, <1>3, <1>4 DEF msg, beyond

\* The value of a message with one field.
LEMMA ResultOfMessage ==
  ASSUME NEW f, DataCells(f) \in Nat, NEW msg
  PROVE  Result(f, msg) = IF msg[DataCells(f)] # 0 THEN Null
                          ELSE [k \in 0 .. DataCells(f) - 1 |-> msg[0 + k]]
<1> DEFINE m == set(<<f>>)
<1>1. getOffset(m, 0) = 0 /\ getNullOffset(m, 0) = DataCells(f)
  BY ResultOffsets
<1>2. Result(f, msg) = IF msg[getNullOffset(m, 0)] # 0 THEN Null
                       ELSE [k \in 0 .. DataCells(f) - 1 |-> msg[getOffset(m, 0) + k]]
  BY DEF Result
<1> HIDE DEF m
<1> QED BY <1>1, <1>2

\* The sum is written in front of its flag.
LEMMA WriteAnswers ==
  ASSUME QueryInv, AnswerInv, WriteSum
  PROVE  AnswerInv'
<1>1. call.pc = "write" /\ ShapeInv /\ UNCHANGED server /\ decl' = decl
  BY DEF WriteSum, QueryInv, server
<1> DEFINE flag == OneCell(getNullOffset(meta.out_meta, 0), IF call.result = Null THEN 1 ELSE 0)
           w == IF call.result = Null THEN flag
                ELSE Over(OneCell(getOffset(meta.out_meta, 0), call.result), flag)
           f == Declaration.out
           out == Buffer(<<f>>)
<1>2. Return(w, None)
  BY DEF WriteSum
<1> HIDE DEF w
<1>3. /\ call'.pc = "returned" /\ call'.db = call.db /\ call'.args = call.args
      /\ Declaration' = Declaration
      /\ call'.out = [k \in DOMAIN out |-> IF k \in DOMAIN w THEN w[k] ELSE Unset]
  BY <1>1, <1>2, ReturnWrites
<1>4. ASSUME fn = SumFn, Cardinality(ever) = 1, Sum(call.args) \in Ints \cup {Null}
      PROVE  Result(f, call'.out) = IF Sum(call.args) = Null THEN Null
                                    ELSE [k \in {0} |-> Sum(call.args)]
  <2>1. call.result = Sum(call.args)
    BY <1>1, <1>4 DEF AnswerInv, SumInv
  <2>2. Declaration \in Declarations[SumFn] /\ meta = PSERoutineMeta(Declaration)
    BY <1>1, <1>4, OneDeclaration DEF AnswerInv
  <2>3. DataCells(f) = 1
    BY <2>2, UserCallsAssumption DEF DataCells
  <2>4. /\ getOffset(meta.out_meta, 0) = 0 /\ getNullOffset(meta.out_meta, 0) = 1
        /\ DOMAIN out = 0 .. 1
    <3> DEFINE m == set(<<f>>)
    <3>1. /\ getOffset(m, 0) = 0 /\ getNullOffset(m, 0) = DataCells(f)
          /\ DOMAIN out = 0 .. DataCells(f)
      <4> HIDE DEF f
      <4>1. DataCells(f) \in Nat
        BY <2>3
      <4> QED BY <4>1, ResultOffsets
    <3>2. meta.out_meta = m
      BY <2>2 DEF PSERoutineMeta
    <3> HIDE DEF m, out
    <3> QED BY <2>3, <3>1, <3>2
  <2>5. Result(f, call'.out) = IF call'.out[1] # 0 THEN Null ELSE [k \in 0 .. 1 - 1 |-> call'.out[0 + k]]
    <3>1. DataCells(f) \in Nat
      BY <2>3
    <3> HIDE DEF f
    <3> QED BY <2>3, <3>1, ResultOfMessage
  <2>6. CASE call.result = Null
    <3>1. w = OneCell(1, 1)
      BY <2>4, <2>6 DEF w
    <3>2. 1 \in DOMAIN w /\ w[1] = 1
      BY <3>1 DEF OneCell
    <3>3. call'.out[1] = 1
      BY <1>3, <2>4, <3>2
    <3> QED BY <2>1, <2>5, <2>6, <3>3
  <2>7. CASE call.result # Null
    <3>1. w = Over(OneCell(0, call.result), OneCell(1, 0))
      BY <2>4, <2>7 DEF w
    <3>2. 0 \in DOMAIN w /\ w[0] = call.result /\ 1 \in DOMAIN w /\ w[1] = 0
      BY <3>1 DEF OneCell, Over
    <3>3. call'.out[1] = 0 /\ call'.out[0] = call.result
      BY <1>3, <2>4, <3>2
    <3>4. [k \in 0 .. 1 - 1 |-> call'.out[0 + k]] = [k \in {0} |-> call.result]
      <4>1. 0 .. 1 - 1 = {0}
        OBVIOUS
      <4> QED BY <3>3, <4>1
    <3> QED BY <2>1, <2>5, <2>7, <3>3, <3>4
  <2> QED BY <2>6, <2>7
<1>5. ASSUME fn = SumFn PROVE SumInv'
  <2>1. ReturnsSum'
    <3> HIDE DEF f
    <3>1. f = Declaration'.out
      BY <1>3 DEF f
    <3> QED BY <1>1, <1>3, <1>4, <1>5, <3>1 DEF ReturnsSum, CorrectSum, server
  <2> QED BY <1>1, <1>3, <1>5, <2>1 DEF AnswerInv, SumInv, server
<1> QED BY <1>1, <1>3, <1>5, QueryStepAnswers

\* A number that is a short is its own low half.
LEMMA ShortStays ==
  ASSUME NEW n \in 0 .. 2 ^ (ShortBits - 1) - 1
  PROVE  ToShort(n) = n
<1> DEFINE half == 2 ^ (ShortBits - 1)
<1>1. half \in Int
  <2>1. ShortBits - 1 \in Nat
    BY UserCallsAssumption
  <2> QED BY <2>1
<1>2. ToShort(n) = ((n + half) % (2 * half)) - half
  BY DEF ToShort
<1>3. n \in 0 .. half - 1
  OBVIOUS
<1> HIDE DEF half
<1>4. n + half \in 0 .. 2 * half - 1
  BY <1>1, <1>3
<1>5. (n + half) % (2 * half) = n + half
  BY <1>1, <1>4
<1> QED BY <1>1, <1>2, <1>3, <1>5

\* A text that fits is written whole into a message of its field, and the flag
\* says that there is one.
LEMMA TextIsWritten ==
  ASSUME NEW d \in Declarations[TextFn], d.out.type \in {"text", "varying"},
         NEW text \in Seq(Nat), Len(text) < d.out.length
  PROVE  LET f == d.out
             n == DataCells(f)
             size == Len(text)
             m == PSERoutineMeta(d)
             w == Over(return_result_text(0, m, text), OneCell(getNullOffset(m.out_meta, 0), 0))
         IN  /\ DOMAIN w \subseteq 0 .. n /\ n \in DOMAIN w /\ w[n] = 0
             /\ f.type = "text" => /\ n = f.length
                                   /\ \A k \in 0 .. n - 1 :
                                         k \in DOMAIN w /\ w[k] = IF k < size THEN text[k + 1] ELSE Blank
             /\ f.type = "varying" => /\ n = f.length + 1 /\ 0 \in DOMAIN w /\ w[0] = size
                                      /\ \A k \in 1 .. size : k \in DOMAIN w /\ w[k] = text[k]
<1> DEFINE f == d.out
           n == DataCells(f)
           size == Len(text)
           om == PSERoutineMeta(d).out_meta
           rt == return_result_text(0, PSERoutineMeta(d), text)
           w == Over(rt, OneCell(getNullOffset(om, 0), 0))
<1>1. f.length \in Nat /\ size \in Nat /\ ToShort(size) = size /\ size < f.length
  <2> DEFINE half == 2 ^ (ShortBits - 1)
  <2>1. f.length \in 0 .. half - 1
    BY UserCallsAssumption
  <2>2. half \in Int
    <3>1. ShortBits - 1 \in Nat
      BY UserCallsAssumption
    <3> QED BY <3>1
  <2>3. size \in Nat /\ size < f.length
    BY LenProperties
  <2>4. ToShort(size) = size
    <3> HIDE DEF half, size, f
    <3>1. size \in 0 .. half - 1
      BY <2>1, <2>2, <2>3
    <3> QED BY <3>1, ShortStays DEF half
  <2> HIDE DEF half
  <2> QED BY <2>1, <2>2, <2>3, <2>4
<1>2. n = IF f.type = "text" THEN f.length ELSE f.length + 1
  BY DEF DataCells
<1>3. n \in Nat
  <2> HIDE DEF n, f
  <2> QED BY <1>1, <1>2
<1>4. /\ getOffset(om, 0) = 0 /\ getNullOffset(om, 0) = n
      /\ getType(om, 0) = f.type /\ getLength(om, 0) = f.length
  <2>1. om = set(<<f>>)
    BY DEF PSERoutineMeta
  <2> HIDE DEF f, om
  <2> QED BY <1>3, <2>1, ResultOffsets
<1> HIDE DEF om, n, size
<1>5. CASE f.type = "text"
  <2> DEFINE copied == [k \in 0 .. 0 + Len(text) - 1 |-> text[k - 0 + 1]]
             blanks == [k \in 0 .. 0 + f.length - 1 |-> Blank]
  <2>1. rt = Over(copied, blanks)
    BY <1>4, <1>5 DEF return_result_text, ReturnText, om
  <2>2. /\ DOMAIN copied = 0 .. size - 1 /\ \A k \in 0 .. size - 1 : copied[k] = text[k + 1]
        /\ DOMAIN blanks = 0 .. n - 1 /\ \A k \in 0 .. n - 1 : blanks[k] = Blank
    BY <1>1, <1>2, <1>5 DEF size
  <2> HIDE DEF copied, blanks, rt
  <2>3. size - 1 <= n - 1
    BY <1>1, <1>2, <1>5
  <2>4. /\ DOMAIN rt = 0 .. n - 1
        /\ \A k \in 0 .. n - 1 : rt[k] = IF k < size THEN text[k + 1] ELSE Blank
    <3>1. DOMAIN rt = (0 .. size - 1) \cup (0 .. n - 1)
      BY <2>1, <2>2 DEF Over
    <3>2. \A k \in DOMAIN rt : rt[k] = IF k \in 0 .. size - 1 THEN copied[k] ELSE blanks[k]
      BY <2>1, <2>2 DEF Over
    <3>3. DOMAIN rt = 0 .. n - 1
      BY <1>1, <1>3, <2>3, <3>1
    <3>4. \A k \in 0 .. n - 1 : (k \in 0 .. size - 1) <=> (k < size)
      BY <1>1, <1>3
    <3> QED BY <2>2, <3>2, <3>3, <3>4
  <2>5. DOMAIN w = (0 .. n - 1) \cup {n} /\ w[n] = 0 /\ \A k \in 0 .. n - 1 : w[k] = rt[k]
    <3>1. n \notin 0 .. n - 1
      BY <1>3
    <3> QED BY <1>4, <2>4, <3>1 DEF Over, OneCell
  <2>6. (0 .. n - 1) \cup {n} \subseteq 0 .. n
    BY <1>3
  <2> HIDE DEF w, f
  <2> QED BY <1>2, <1>5, <2>4, <2>5, <2>6 DEF w, f, rt, n, om, size
<1>6. CASE f.type = "varying"
  <2> DEFINE copy == [k \in 0 + 1 .. 0 + 1 + size |-> IF k = 0 + 1 + size THEN 0 ELSE text[k - (0 + 1) + 1]]
  <2>1. rt = Over(copy, OneCell(0, size))
    <3>1. rt = Over(strncpy_s(0 + 1, f.length, text, size), OneCell(0, size))
      BY <1>1, <1>4, <1>6 DEF return_result_text, ReturnText, om, size
    <3>2. size \in 0 .. f.length - 1
      BY <1>1
    <3>3. strncpy_s(0 + 1, f.length, text, size) = copy
      BY <3>2 DEF strncpy_s
    <3> QED BY <3>1, <3>3
  <2>2. /\ DOMAIN copy = 1 .. size + 1 /\ \A k \in 1 .. size : copy[k] = text[k]
    BY <1>1
  <2> HIDE DEF copy, rt
  <2>3. /\ DOMAIN rt = (1 .. size + 1) \cup {0} /\ rt[0] = size
        /\ \A k \in 1 .. size : rt[k] = text[k]
    <3>1. 0 \notin 1 .. size + 1 /\ \A k \in 1 .. size : k \in 1 .. size + 1
      BY <1>1
    <3> QED BY <2>1, <2>2, <3>1 DEF Over, OneCell
  <2>4. n \notin DOMAIN rt /\ (1 .. size + 1) \cup {0} \cup {n} \subseteq 0 .. n
    BY <1>1, <1>2, <1>6, <2>3
  <2>5. /\ DOMAIN w = (1 .. size + 1) \cup {0} \cup {n} /\ w[n] = 0
        /\ \A k \in (1 .. size + 1) \cup {0} : w[k] = rt[k]
    BY <1>4, <2>3, <2>4 DEF Over, OneCell
  <2>6. \A k \in 1 .. size : k \in 1 .. size + 1
    BY <1>1
  <2> HIDE DEF w, f
  <2> QED BY <1>2, <1>6, <2>3, <2>4, <2>5, <2>6 DEF w, f, rt, n, om, size
<1> QED BY <1>5, <1>6 DEF n, om, size

\* The functions of the engine return a text, or none.
LEMMA ExecAnswers ==
  ASSUME QueryInv, AnswerInv, ExecSpec
  PROVE  AnswerInv'
<1> DEFINE flag(x) == OneCell(getNullOffset(meta.out_meta, 0), x)
           f == Declaration.out
           out == Buffer(<<f>>)
           n == DataCells(f)
           given(text) == Over(return_result_text(0, meta, text), flag(0))
<1>1. /\ call.pc = "enter" /\ fn = TextFn /\ ShapeInv /\ UNCHANGED server /\ decl' = decl
      /\ fn' = fn /\ ever' = ever
  BY DEF ExecSpec, QueryInv, server
<1>2. \/ Return(flag(1), None)
      \/ \E text \in InfoTexts : Return(given(text), text)
  BY DEF ExecSpec
<1> HIDE DEF given, flag
<1>3. PICK w : \E text : /\ Return(w, text)
                         /\ \/ w = flag(1) /\ text = None
                            \/ text \in InfoTexts /\ w = given(text)
  BY <1>2
<1>4. PICK text : /\ Return(w, text)
                  /\ \/ w = flag(1) /\ text = None
                     \/ text \in InfoTexts /\ w = given(text)
  BY <1>3
<1>5. /\ call'.pc = "returned" /\ call'.text = text /\ call'.db = call.db
      /\ Declaration' = Declaration
      /\ call'.out = [k \in DOMAIN out |-> IF k \in DOMAIN w THEN w[k] ELSE Unset]
      /\ call'.outside = ~(DOMAIN w \subseteq DOMAIN out)
  BY <1>1, <1>4, ReturnWrites
<1>6. DescribedInv'
  BY <1>1, <1>5, DescribedStays DEF AnswerInv
<1>7. SumInv'
  BY <1>1, UserCallsAssumption DEF SumInv
<1>8. ASSUME Cardinality(ever) = 1
      PROVE  LET size == Len(text)
                 value == Result(f, call'.out)
             IN  IF text = None \/ f.type \notin {"text", "varying"} THEN value = Null
                 ELSE size >= f.length \/
                      /\ ~call'.outside
                      /\ IF f.type = "text"
                         THEN \A k \in DOMAIN value :
                                 value[k] = IF k < size THEN text[k + 1] ELSE Blank
                         ELSE value[0] = size /\ \A k \in 1 .. size : value[k] = text[k]
  <2> DEFINE value == Result(f, call'.out)
  <2>1. Declaration \in Declarations[TextFn] /\ meta = PSERoutineMeta(Declaration)
    BY <1>1, <1>8, OneDeclaration DEF AnswerInv
  <2>2. f.length \in Nat
    <3>1. f.length \in 0 .. 2 ^ (ShortBits - 1) - 1
      BY <2>1, UserCallsAssumption
    <3> QED BY <3>1
  <2>3. n \in Nat
    <3> HIDE DEF f
    <3> QED BY <2>2 DEF DataCells
  <2>4. /\ getNullOffset(meta.out_meta, 0) = n /\ getType(meta.out_meta, 0) = f.type
        /\ DOMAIN out = 0 .. n
    <3>1. meta.out_meta = set(<<f>>)
      BY <2>1 DEF PSERoutineMeta
    <3> HIDE DEF f
    <3> QED BY <2>3, <3>1, ResultOffsets
  <2>5. value = IF call'.out[n] # 0 THEN Null ELSE [k \in 0 .. n - 1 |-> call'.out[0 + k]]
    <3> HIDE DEF f
    <3> QED BY <2>3, ResultOfMessage
  <2>6. n \in DOMAIN out
    BY <2>3, <2>4
  <2> HIDE DEF out, n, f
  <2>7. ASSUME w = OneCell(n, 1) \/ \E g : w = Over(OneCell(n, 1), g) PROVE value = Null
    <3>1. n \in DOMAIN w /\ w[n] = 1
      BY <2>7 DEF OneCell, Over
    <3>2. call'.out[n] = 1
      BY <1>5, <2>6, <3>1
    <3> HIDE DEF value
    <3> QED BY <2>5, <3>2
  <2>8. CASE text = None
    <3>1. w = flag(1)
      BY <1>4, <2>8, UserCallsAssumption
    <3>2. w = OneCell(n, 1)
      BY <2>4, <3>1 DEF flag
    <3> QED BY <2>7, <2>8, <3>2
  <2>9. CASE text # None /\ f.type \notin {"text", "varying"}
    <3>1. w = given(text)
      BY <1>4, <2>9
    <3>2. return_result_text(0, meta, text) = OneCell(n, 1)
      BY <2>4, <2>9 DEF return_result_text, ReturnText
    <3>3. w = Over(OneCell(n, 1), flag(0))
      BY <3>1, <3>2 DEF given
    <3> QED BY <2>7, <2>9, <3>3
  <2>10. CASE text # None /\ f.type \in {"text", "varying"} /\ Len(text) < f.length
    <3> DEFINE size == Len(text)
    <3>1. text \in Seq(Nat) /\ w = given(text) /\ size \in Nat
      <4>1. text \in Seq(Nat)
        BY <1>4, <2>10, UserCallsAssumption
      <4> QED BY <1>4, <2>10, <4>1, LenProperties
    <3>2. w = Over(return_result_text(0, PSERoutineMeta(Declaration), text),
                   OneCell(getNullOffset(PSERoutineMeta(Declaration).out_meta, 0), 0))
      BY <2>1, <3>1 DEF given, flag
    <3>3. /\ DOMAIN w \subseteq 0 .. n /\ n \in DOMAIN w /\ w[n] = 0
          /\ f.type = "text" => /\ n = f.length
                                /\ \A k \in 0 .. n - 1 :
                                      k \in DOMAIN w /\ w[k] = IF k < size THEN text[k + 1] ELSE Blank
          /\ f.type = "varying" => /\ n = f.length + 1 /\ 0 \in DOMAIN w /\ w[0] = size
                                   /\ \A k \in 1 .. size : k \in DOMAIN w /\ w[k] = text[k]
      BY <2>1, <2>10, <3>1, <3>2, TextIsWritten DEF f, n
    <3> HIDE DEF size
    <3>4. ~call'.outside
      BY <1>5, <2>4, <3>3
    <3>5. call'.out[n] = 0
      BY <1>5, <2>6, <3>3
    <3>6. value = [k \in 0 .. n - 1 |-> call'.out[0 + k]]
      <4> HIDE DEF value
      <4> QED BY <2>5, <3>5
    <3> HIDE DEF value
    <3>7. DOMAIN value = 0 .. n - 1 /\ \A k \in 0 .. n - 1 : k \in DOMAIN w => value[k] = w[k]
      <4>1. \A k \in 0 .. n - 1 : k \in DOMAIN out /\ 0 + k = k
        BY <2>3, <2>4
      <4>2. \A k \in 0 .. n - 1 : value[k] = call'.out[k]
        BY <3>6, <4>1
      <4> QED BY <1>5, <3>6, <4>1, <4>2
    <3>8. CASE f.type = "text"
      <4>1. \A k \in DOMAIN value : value[k] = IF k < Len(text) THEN text[k + 1] ELSE Blank
        BY <3>3, <3>7, <3>8 DEF size
      <4> HIDE DEF size
      <4> QED BY <2>10, <3>4, <3>8, <4>1 DEF value
    <3>9. CASE f.type = "varying"
      <4>1. 0 \in 0 .. n - 1 /\ \A k \in 1 .. size : k \in 0 .. n - 1
        BY <2>2, <2>10, <3>1, <3>3, <3>9 DEF size
      <4>2. value[0] = Len(text) /\ \A k \in 1 .. Len(text) : value[k] = text[k]
        BY <3>3, <3>7, <3>9, <4>1 DEF size
      <4> HIDE DEF size
      <4> QED BY <2>10, <3>4, <3>9, <4>2 DEF value
    <3> QED BY <2>10, <3>8, <3>9
  <2>11. CASE text # None /\ f.type \in {"text", "varying"} /\ ~(Len(text) < f.length)
    <3>1. Len(text) \in Nat
      BY <1>4, <2>11, UserCallsAssumption, LenProperties
    <3>2. Len(text) >= f.length
      BY <2>2, <2>11, <3>1
    <3> QED BY <2>11, <3>2
  <2> QED BY <2>8, <2>9, <2>10, <2>11 DEF f
<1>9. TextInv'
  <2>1. f = Declaration'.out
    BY <1>5
  <2> HIDE DEF f
  <2> QED BY <1>1, <1>5, <1>8, <2>1 DEF TextInv, TextReturned
<1> QED BY <1>6, <1>7, <1>9 DEF AnswerInv

\* The steps of a reader are no business of the other functions.
LEMMA ReaderAnswers ==
  ASSUME QueryInv, AnswerInv, ReadNumber \/ ReadString \/ NextRow \/ EndLoop
  PROVE  AnswerInv'
<1>1. call.pc \in {"loop", "next"} /\ ShapeInv /\ UNCHANGED server
  BY DEF ReadNumber, ReadString, NextRow, EndLoop, QueryInv
<1>2. fn # SumFn
  BY <1>1 DEF AnswerInv, SumInv
<1>3. call'.db = call.db
  <2>1. CASE ReadNumber
    <3>1. \E v : call' = [call EXCEPT !.pc = "next", !.seen = Append(@, v)]
      BY <2>1 DEF ReadNumber
    <3> QED BY <1>1, <3>1 DEF ShapeInv, NoCall
  <2>2. CASE ReadString
    <3>1. \E p : call' = [call EXCEPT !.pc = "next", !.str = p.str, !.twice = @ \/ p.twice]
      BY <2>2 DEF ReadString
    <3> QED BY <1>1, <3>1 DEF ShapeInv, NoCall
  <2>3. CASE NextRow
    <3>1. \E o : call' = [call EXCEPT !.pc = IF o.thrown THEN "unwind" ELSE "loop",
                                      !.str = IF @ = "dangling" THEN "null" ELSE @]
      BY <2>3 DEF NextRow
    <3> QED BY <1>1, <3>1 DEF ShapeInv, NoCall
  <2>4. CASE EndLoop
    <3>1. \E to : call' = [call EXCEPT !.pc = to, !.seen = <<>>]
      BY <2>4 DEF EndLoop
    <3> QED BY <1>1, <3>1 DEF ShapeInv, NoCall
  <2> QED BY <2>1, <2>2, <2>3, <2>4
<1> QED BY <1>1, <1>2, <1>3, QueryStepAnswers

\* Firebird takes the answer.
LEMMA EndAnswers ==
  ASSUME AnswerInv, EndCall
  PROVE  AnswerInv'
<1>1. call' = NoCall /\ UNCHANGED server
  BY DEF EndCall
<1>2. call'.pc = "idle"
  BY <1>1 DEF NoCall
<1>3. DescribedInv'
  BY <1>1, <1>2 DEF AnswerInv, DescribedInv, server, Declared
<1> QED BY <1>2, <1>3, IdleAnswers DEF AnswerInv
-----------------------------------------------------------------------------

\* AnswerInv is inductive relative to QueryInv and holds in every state.
THEOREM AnswerInvHolds == Spec => []AnswerInv
<1>1. Init => AnswerInv
  <2> SUFFICES ASSUME Init PROVE AnswerInv
    OBVIOUS
  <2>1. call.pc = "idle"
    BY DEF Init, NoCall
  <2>2. decl = [d \in Databases |-> None] /\ meta = None /\ ever = {}
    BY DEF Init
  <2>3. Declared = {}
    BY <2>2 DEF Declared
  <2>4. DescribedInv
    BY <2>1, <2>2, <2>3, FS_EmptySet DEF DescribedInv
  <2> QED BY <2>1, <2>4 DEF AnswerInv, SumInv, TextInv, ReturnsSum, TextReturned
<1>2. QueryInv /\ AnswerInv /\ [Next]_vars => AnswerInv'
  <2> SUFFICES ASSUME QueryInv, AnswerInv, [Next]_vars PROVE AnswerInv'
    OBVIOUS
  <2>1. CASE UNCHANGED vars
    BY <2>1 DEF vars, server, AnswerInv, DescribedInv, SumInv, TextInv, ReturnsSum, CorrectSum,
                TextReturned, Declared, Declaration
  <2> QED BY <2>1, DeclaringAnswers, BeginAnswers, ParseAnswers, BuildAnswers, PrepareAnswers,
             BindAnswers, OpenAnswers, TakeAnswers, LookUpAnswers, ReaderAnswers, CloseAnswers, DestroyAnswers,
             WriteAnswers, ExecAnswers, EndAnswers DEF Next
<1> QED BY <1>1, <1>2, QueryInvHolds, PTL DEF Spec

\* my_sum_args answers the sum of its arguments wherever the function has had one
\* declaration: through the message, the parameters, the row, the conversion
\* and the message back (parseArg, perform_my_sum_args).
THEOREM SumIsReturned == Spec => []ReturnsSum
<1>1. AnswerInv => ReturnsSum
  BY DEF AnswerInv, SumInv, ReturnsSum
<1> QED BY AnswerInvHolds, <1>1, PTL

\* A text shorter than its field is returned whole, within the message, for
\* fields and shorts of any width (return_result_text).
THEOREM TextIsReturned == Spec => []TextReturned
<1>1. AnswerInv => TextReturned
  BY DEF AnswerInv, TextInv, TextReturned
<1> QED BY AnswerInvHolds, <1>1, PTL

-----------------------------------------------------------------------------
(* What its values are *)

\* The range of int, and what a short takes of it.
LEMMA IntRange ==
  /\ 0 \in Ints /\ -1 \in Ints /\ IntMin \in Ints /\ IntMax \in Ints /\ Ints \subseteq Int
  /\ \A type : \A v \in Ints : Narrow(type, v) \in Ints
<1> DEFINE full == 2 ^ (IntBits - 1)
           half == 2 ^ (IntBits - 2)
<1>1. full \in Nat \ {0} /\ half \in Nat \ {0} /\ half <= full
  <2>1. IntBits - 2 \in Nat /\ IntBits - 1 \in Nat /\ IntBits - 2 + 1 = IntBits - 1
    BY UserCallsAssumption
  <2>2. /\ 2 ^ (IntBits - 1) \in Nat \ {0}
        /\ 2 ^ (IntBits - 2) \in Nat \ {0} /\ 2 ^ (IntBits - 2) <= 2 ^ (IntBits - 2 + 1)
    BY <2>1, PowersGrow
  <2> QED BY <2>1, <2>2
<1>2. Ints = -full .. full - 1 /\ IntMin = -full /\ IntMax = full - 1
  BY DEF Ints, IntMin, IntMax
<1>3. ASSUME NEW type, NEW v \in Ints PROVE Narrow(type, v) \in Ints
  <2>1. Narrow(type, v) = IF type = "short" THEN ((v + half) % (2 * half)) - half ELSE v
    BY DEF Narrow
  <2> HIDE DEF half, full
  <2>2. v + half \in Int /\ 2 * half \in Nat \ {0}
    BY <1>1, <1>2
  <2>3. (v + half) % (2 * half) \in 0 .. 2 * half - 1
    BY <2>2
  <2>4. ((v + half) % (2 * half)) - half \in -half .. half - 1
    BY <1>1, <2>3
  <2>5. -half .. half - 1 \subseteq -full .. full - 1
    BY <1>1
  <2> QED BY <1>2, <2>1, <2>4, <2>5
<1> HIDE DEF half, full
<1> QED BY <1>1, <1>2, <1>3

\* A new query has valid values, and each operation keeps them valid.
LEMMA NewIsValid == ValidQuery(NewQuery)
<1>1. /\ NewQuery.held = {"att", "tra"} /\ NewQuery.text = None /\ NewQuery.at = "none"
      /\ NewQuery.rows = <<>> /\ NewQuery.in = <<>> /\ NewQuery.row = Unset
  BY DEF NewQuery
<1>2. Range(<<>>) = {} /\ <<>> \in Seq({}) /\ Len(<<>>) = 0
  BY DEF Range
<1>3. MaxRows \in Nat
  BY UserCallsAssumption
<1>4. NewQuery.rows \in Seq(Range(NewQuery.rows)) /\ Len(NewQuery.rows) <= MaxRows + 1
  BY <1>1, <1>2, <1>3
<1> QED BY <1>1, <1>2, <1>4 DEF ValidQuery, Members

\* prepare keeps a query valid.
LEMMA PreparedIsValid ==
  ASSUME NEW p, ValidQuery(p), NEW T \in DOMAIN Statements, NEW o \in prepare(p, T)
  PROVE  ValidQuery(o.q)
<1> DEFINE upto(n) == [p EXCEPT !.text = T, !.held = @ \cup Range(SubSeq(Acquired(T), 1, n)),
                                !.in = [i \in DOMAIN Statements[T].params |-> 0], !.row = Unset]
           k == Len(Acquired(T))
<1>1. /\ DOMAIN p = DOMAIN NewQuery /\ p.held \subseteq Members
      /\ p.at \in {"none", "row", "end"}
      /\ p.rows \in Seq(Range(p.rows)) /\ Len(p.rows) <= MaxRows + 1
  BY DEF ValidQuery
<1>2. o.q.held \subseteq Members /\ DOMAIN o.q = DOMAIN NewQuery /\ o.q.at = p.at
  BY <1>1, PrepareKeeps
<1>3. \A n : /\ upto(n).text = T /\ upto(n).rows = p.rows /\ upto(n).row = Unset
             /\ upto(n).in = [i \in DOMAIN Statements[T].params |-> 0]
  BY <1>1 DEF NewQuery
<1>4. \/ o = Throw(p)
      \/ \E n \in 0 .. k - 1 : o = Throw(upto(n))
      \/ o = Ok(upto(k), TRUE)
  BY DEF prepare
<1> HIDE DEF upto, k
<1>5. o.q = p \/ \E n : o.q = upto(n)
  BY <1>4 DEF Throw, Ok
<1>6. CASE o.q = p
  BY <1>6
<1>7. CASE \E n : o.q = upto(n)
  <2>1. /\ o.q.text = T /\ o.q.rows = p.rows /\ o.q.row = Unset
        /\ o.q.in = [i \in DOMAIN Statements[T].params |-> 0]
    BY <1>3, <1>7
  <2>2. Range(o.q.in) \subseteq Ints \cup {Null}
    BY <2>1, IntRange DEF Range
  <2> QED BY <1>1, <1>2, <2>1, <2>2 DEF ValidQuery
<1> QED BY <1>5, <1>6, <1>7

\* Setting the parameters, one after the other, keeps a query valid.
LEMMA BoundIsValid ==
  ASSUME NEW p, ValidQuery(p), NEW values, \A i \in DOMAIN p.in : values[i] \in Ints \cup {Null}
  PROVE  ValidQuery([p EXCEPT !.in = [i \in DOMAIN p.in |-> SetParam(p, i, values[i]).in[i]]])
<1> DEFINE in == [i \in DOMAIN p.in |-> SetParam(p, i, values[i]).in[i]]
           b == [p EXCEPT !.in = in]
<1>1. DOMAIN p = DOMAIN NewQuery
  BY DEF ValidQuery
<1>2. ASSUME NEW i \in DOMAIN p.in PROVE SetParam(p, i, values[i]).in[i] \in Ints \cup {Null}
  <2> DEFINE v == values[i]
  <2>1. v \in Ints \cup {Null} /\ p.in[i] \in Ints \cup {Null}
    BY DEF ValidQuery, Range
  <2>2. CASE v = Null
    <3>1. SetParam(p, i, v) = [p EXCEPT !.in[i] = Null]
      BY <2>2 DEF SetParam, setParamAsNull, Ok
    <3> QED BY <1>1, <3>1 DEF NewQuery
  <2>3. CASE v # Null
    <3> DEFINE type == Statements[p.text].params[i]
               x == Narrow(type, v)
    <3>1. SetParam(p, i, v) = (IF type \in Numbers THEN Ok([p EXCEPT !.in[i] = x], TRUE)
                               ELSE Ok(p, FALSE)).q
      BY <2>3 DEF SetParam, setParamAsInt
    <3>2. x \in Ints
      BY <2>1, <2>3, IntRange
    <3> HIDE DEF type, x, v
    <3>3. SetParam(p, i, v) = IF type \in Numbers THEN [p EXCEPT !.in[i] = x] ELSE p
      BY <3>1 DEF Ok
    <3>4. [p EXCEPT !.in[i] = x].in[i] = x
      BY <1>1 DEF NewQuery
    <3> QED BY <2>1, <3>2, <3>3, <3>4 DEF v
  <2> QED BY <2>2, <2>3
<1>3. Range(in) \subseteq Ints \cup {Null}
  BY <1>2 DEF Range
<1> HIDE DEF in
<1>4. /\ DOMAIN b = DOMAIN NewQuery /\ b.in = in /\ b.held = p.held /\ b.text = p.text
      /\ b.at = p.at /\ b.rows = p.rows /\ b.row = p.row
  BY <1>1 DEF NewQuery
<1> HIDE DEF b
<1>5. ValidQuery(b)
  BY <1>3, <1>4 DEF ValidQuery
<1> QED BY <1>5 DEF b, in

\* next does, on a text with rows of its own or before the row of the sum.
LEMMA SteppedIsValid ==
  ASSUME NEW p, ValidQuery(p), "out_buffer" \in p.held,
         p.text # SumText \/ Len(p.rows) <= MaxRows, NEW o \in next(p)
  PROVE  ValidQuery(o.q)
<1>1. /\ DOMAIN p = DOMAIN NewQuery /\ p.rows \in Seq(Range(p.rows)) /\ Len(p.rows) <= MaxRows + 1
      /\ MaxRows \in Nat
  BY UserCallsAssumption DEF ValidQuery
<1>2. CASE o = Throw(p)
  <2>1. o.q = p
    BY <1>2 DEF Throw
  <2> QED BY <2>1
<1>3. CASE \E r \in Deliverable(p) :
              o = Ok([p EXCEPT !.row = r, !.at = "row", !.rows = Append(@, r)], TRUE)
  <2>1. PICK r \in Deliverable(p) :
              o = Ok([p EXCEPT !.row = r, !.at = "row", !.rows = Append(@, r)], TRUE)
    BY <1>3
  <2>2. o.q = [p EXCEPT !.row = r, !.at = "row", !.rows = Append(@, r)]
    BY <2>1 DEF Ok
  <2>3. /\ DOMAIN o.q = DOMAIN NewQuery /\ o.q.at = "row" /\ o.q.rows = Append(p.rows, r)
        /\ o.q.held = p.held /\ o.q.text = p.text /\ o.q.in = p.in /\ o.q.row = r
    BY <1>1, <2>2 DEF NewQuery
  <2>4. Len(p.rows) <= MaxRows
    <3>1. CASE p.text = SumText
      BY <3>1
    <3>2. CASE p.text # SumText
      <4>1. Len(p.rows) < MaxRows
        BY <3>2 DEF Deliverable
      <4> QED BY <1>1, <4>1, LenProperties
    <3> QED BY <3>1, <3>2
  <2>5. o.q.rows \in Seq(Range(o.q.rows)) /\ Len(o.q.rows) <= MaxRows + 1
    <3>1. /\ Len(p.rows) \in Nat /\ o.q.rows \in Seq(Range(o.q.rows))
          /\ Len(o.q.rows) = Len(p.rows) + 1
      BY <1>1, <2>3, AppendAny
    <3> QED BY <1>1, <2>4, <3>1
  <2> QED BY <2>3, <2>5 DEF ValidQuery
<1>4. CASE o = Ok([p EXCEPT !.at = "end"], FALSE)
  <2>1. o.q = [p EXCEPT !.at = "end"]
    BY <1>4 DEF Ok
  <2>2. /\ DOMAIN o.q = DOMAIN NewQuery /\ o.q.at = "end" /\ o.q.rows = p.rows
        /\ o.q.held = p.held /\ o.q.text = p.text /\ o.q.in = p.in /\ o.q.row = p.row
    BY <1>1, <2>1 DEF NewQuery
  <2> QED BY <2>2 DEF ValidQuery
<1> QED BY <1>1, <1>2, <1>3, <1>4, NextOutcomes

\* openCursor keeps a query valid.
LEMMA OpenedIsValid ==
  ASSUME NEW p, ValidQuery(p), "out_buffer" \in p.held, NEW o \in openCursor(p)
  PROVE  ValidQuery(o.q)
<1> DEFINE opened == [p EXCEPT !.held = @ \cup {"curs"}, !.rows = <<>>]
           E(u) == IF u.thrown THEN {u} ELSE {[f EXCEPT !.result = TRUE] : f \in next(u.q)}
<1>1. PICK u \in Opened(p) : o \in E(u)
  BY DEF openCursor
<1>2. u = Throw(p) \/ u = Ok(opened, TRUE)
  BY DEF Opened
<1>3. ValidQuery(opened) /\ Len(opened.rows) <= MaxRows /\ "out_buffer" \in opened.held
  <2>1. /\ DOMAIN opened = DOMAIN NewQuery /\ opened.text = p.text /\ opened.at = p.at
        /\ opened.in = p.in /\ opened.row = p.row /\ opened.held = p.held \cup {"curs"} /\ opened.rows = <<>>
    BY DEF NewQuery, ValidQuery
  <2> HIDE DEF opened
  <2>2. Range(<<>>) = {} /\ <<>> \in Seq({}) /\ Len(<<>>) = 0
    BY DEF Range
  <2>3. MaxRows \in Nat
    BY UserCallsAssumption
  <2>4. opened.rows \in Seq(Range(opened.rows)) /\ Len(opened.rows) <= MaxRows
    BY <2>1, <2>2, <2>3
  <2>5. Len(opened.rows) <= MaxRows + 1
    BY <2>1, <2>2, <2>3
  <2> QED BY <2>1, <2>4, <2>5 DEF ValidQuery, Members
<1> HIDE DEF opened
<1>4. CASE u = Throw(p)
  <2>1. u.thrown /\ u.q = p
    BY <1>4 DEF Throw
  <2>2. o = u
    BY <1>1, <2>1
  <2> QED BY <2>1, <2>2
<1>5. CASE u = Ok(opened, TRUE)
  <2>1. ~u.thrown /\ u.q = opened
    BY <1>5 DEF Ok
  <2>2. PICK f \in next(opened) : o = [f EXCEPT !.result = TRUE]
    BY <1>1, <2>1
  <2>3. ValidQuery(f.q)
    BY <1>3, SteppedIsValid
  <2>4. o.q = f.q
    <3>1. "q" \in DOMAIN f
      <4>1. \/ f = Throw(opened)
            \/ \E r : f = Ok([opened EXCEPT !.row = r, !.at = "row", !.rows = Append(@, r)], TRUE)
            \/ f = Ok([opened EXCEPT !.at = "end"], FALSE)
        BY DEF next
      <4>2. \A x, y : "q" \in DOMAIN Throw(x) /\ "q" \in DOMAIN Ok(x, y)
        BY DEF Throw, Ok
      <4> QED BY <4>1, <4>2
    <3> QED BY <2>2
  <2> QED BY <2>3, <2>4
<1> QED BY <1>2, <1>4, <1>5

\* close keeps a query valid, whether it throws or not.
LEMMA ClosedIsValid ==
  ASSUME NEW p, ValidQuery(p), NEW o \in close(p)
  PROVE  ValidQuery(o.q)
<1> DEFINE idle == [p EXCEPT !.held = @ \ {"curs", "in_meta", "out_meta", "in_buffer", "out_buffer"},
                             !.in = <<>>, !.row = Unset, !.at = "none"]
           bare == [idle EXCEPT !.held = @ \ {"stmt"}]
<1>1. o = Throw(p) \/ o = Throw(idle) \/ o = Ok(bare, TRUE)
  BY DEF close, CloseKeeping
<1>2. /\ DOMAIN idle = DOMAIN NewQuery /\ idle.text = p.text /\ idle.at = "none"
      /\ idle.held = p.held \ {"curs", "in_meta", "out_meta", "in_buffer", "out_buffer"}
      /\ idle.in = <<>> /\ idle.rows = p.rows /\ idle.row = Unset
  BY DEF NewQuery, ValidQuery
<1> HIDE DEF idle
<1>3. /\ DOMAIN bare = DOMAIN NewQuery /\ bare.text = idle.text /\ bare.at = idle.at
      /\ bare.held = idle.held \ {"stmt"} /\ bare.in = idle.in /\ bare.rows = idle.rows
      /\ bare.row = idle.row
  BY <1>2 DEF NewQuery
<1> HIDE DEF bare
<1>4. Range(<<>>) = {}
  BY DEF Range
<1>5. ValidQuery(idle)
  BY <1>2, <1>4 DEF ValidQuery
<1>6. ValidQuery(bare)
  BY <1>3, <1>5 DEF ValidQuery
<1>7. o.q \in {p, idle, bare}
  BY <1>1 DEF Throw, Ok
<1> QED BY <1>5, <1>6, <1>7

\* So does ~IFBQuery.
LEMMA DestroyedIsValid ==
  ASSUME NEW p, ValidQuery(p), NEW o \in Destructor(p)
  PROVE  ValidQuery(o.q)
<1> DEFINE less == [p EXCEPT !.held = @ \ {"att", "tra"}]
<1>1. /\ DOMAIN less = DOMAIN NewQuery /\ less.held = p.held \ {"att", "tra"} /\ less.text = p.text
      /\ less.at = p.at /\ less.rows = p.rows /\ less.in = p.in /\ less.row = p.row
  BY DEF NewQuery, ValidQuery
<1>2. o \in close(less)
  BY DEF Destructor
<1> HIDE DEF less
<1>3. ValidQuery(less)
  BY <1>1 DEF ValidQuery
<1> QED BY <1>2, <1>3, ClosedIsValid

\* fieldIdxByName only fills the table of names.
LEMMA NamedIsValid ==
  ASSUME NEW p, ValidQuery(p)
  PROVE  ValidQuery(Named(p))
<1> DEFINE a == [i \in DOMAIN Statements[p.text].columns |-> Column(p, i).alias]
           n == [p EXCEPT !.names = a]
<1>1. Named(p) = p \/ Named(p) = n
  BY DEF Named
<1> HIDE DEF a
<1>2. /\ DOMAIN n = DOMAIN NewQuery /\ n.held = p.held /\ n.text = p.text /\ n.at = p.at
      /\ n.rows = p.rows /\ n.in = p.in /\ n.row = p.row
  BY DEF NewQuery, ValidQuery
<1> HIDE DEF n
<1>3. ValidQuery(n)
  BY <1>2 DEF ValidQuery
<1> QED BY <1>1, <1>3

\* The message of my_sum_args holds numbers, and what nobody has written.
LEMMA MessageOfInts ==
  ASSUME NEW fs, DOMAIN fs = 1 .. 3, \A i \in 1 .. 3 : fs[i].type \in {"long", "int64"},
         NEW args \in [1 .. 3 -> Args]
  PROVE  \A k \in DOMAIN Message(fs, args) : Message(fs, args)[k] \in Ints \cup {Unset}
<1> DEFINE m == set(fs)
           msg == Message(fs, args)
           within(j, k) == k \in m[j].offset .. m[j].null_offset
           cell(j, k) == IF k = m[j].null_offset THEN (IF args[j] = Null THEN -1 ELSE 0)
                         ELSE IF args[j] = Null THEN Unset
                         ELSE Cells(fs[j], args[j])[k - m[j].offset + 1]
<1>1. msg = [k \in DOMAIN Buffer(fs) |-> cell(CHOOSE j \in 1 .. 3 : within(j, k), k)]
  BY DEF Message
<1>2. \A j \in 1 .. 3 : DataCells(fs[j]) = IF fs[j].type = "int64" THEN 2 ELSE 1
  BY DEF DataCells
<1>3. \A j \in DOMAIN fs : DataCells(fs[j]) \in Nat
  BY <1>2
<1>4. 3 \in 1 .. 3
  OBVIOUS
<1>5. \A j \in 1 .. 3 : m[j].offset \in Nat /\ m[j].null_offset = m[j].offset + DataCells(fs[j])
  <2> HIDE DEF within, cell, msg
  <2> QED BY <1>3, <1>4, Offsets
<1>6. \A k \in DOMAIN Buffer(fs) : \E j \in 1 .. 3 : within(j, k)
  <2> HIDE DEF cell, msg
  <2> QED BY <1>3, <1>4, FieldsCover
<1>7. ASSUME NEW j \in 1 .. 3, NEW k, within(j, k) PROVE cell(j, k) \in Ints \cup {Unset}
  <2> DEFINE a == m[j].offset
             b == m[j].null_offset
             v == args[j]
  <2>1. a \in Nat /\ b = a + (IF fs[j].type = "int64" THEN 2 ELSE 1) /\ k \in a .. b
    BY <1>2, <1>5, <1>7
  <2>2. v \in Ints \cup {Null}
    BY UserCallsAssumption
  <2>3. cell(j, k) = IF k = b THEN (IF v = Null THEN -1 ELSE 0)
                     ELSE IF v = Null THEN Unset ELSE Cells(fs[j], v)[k - a + 1]
    OBVIOUS
  <2>4. ASSUME k # b, v # Null PROVE Cells(fs[j], v)[k - a + 1] \in Ints
    <3>1. CASE fs[j].type = "int64"
      <4>1. Cells(fs[j], v) = <<v, IF v < 0 THEN -1 ELSE 0>>
        BY <3>1 DEF Cells
      <4> HIDE DEF a, b, v
      <4>2. k - a + 1 = 1 \/ k - a + 1 = 2
        BY <2>1, <2>4, <3>1
      <4> DEFINE w == IF v < 0 THEN -1 ELSE 0
      <4>3. v \in Ints /\ w \in Ints
        BY <2>2, <2>4, IntRange
      <4> HIDE DEF w
      <4>4. Cells(fs[j], v)[1] = v /\ Cells(fs[j], v)[2] = w
        BY <4>1 DEF w
      <4> QED BY <4>2, <4>3, <4>4
    <3>2. CASE fs[j].type # "int64"
      <4>1. Cells(fs[j], v) = <<v>>
        BY <3>2 DEF Cells
      <4> HIDE DEF a, b, v
      <4>2. k - a + 1 = 1
        BY <2>1, <2>4, <3>2
      <4> QED BY <2>2, <2>4, <4>1, <4>2
    <3> QED BY <3>1, <3>2
  <2> HIDE DEF cell, a, b, v
  <2> QED BY <2>3, <2>4, IntRange
<1> HIDE DEF cell, within
<1>8. ASSUME NEW k \in DOMAIN msg PROVE msg[k] \in Ints \cup {Unset}
  <2> DEFINE j == CHOOSE i \in 1 .. 3 : within(i, k)
  <2>1. k \in DOMAIN Buffer(fs) /\ msg[k] = cell(j, k)
    BY <1>1, <1>8
  <2>2. j \in 1 .. 3 /\ within(j, k)
    BY <1>6, <2>1
  <2> HIDE DEF j, msg
  <2> QED BY <1>7, <2>1, <2>2
<1> QED BY <1>8

\* So an argument is parsed as an int or NULL, by any description.
LEMMA ParsedIsInt ==
  ASSUME NEW m, NEW in, \A k \in DOMAIN in : in[k] \in Ints \cup {Unset}, NEW idx
  PROVE  parseArg(m, in, idx) \subseteq Ints \cup {Null}
<1>1. \A k : CellAt(in, k) \subseteq Ints
  BY DEF CellAt
<1> QED BY <1>1 DEF parseArg

\* asInt answers an int whatever the column has.
LEMMA AsIntIsInt ==
  ASSUME NEW p, NEW i, NEW v \in asInt(p, i)
  PROVE  v \in Ints
<1> DEFINE c == Column(p, i)
           read(x) == LET n == Rounded(adjustNumericScale(x, c.scale))
                      IN  {[ok |-> n > IntMin + 1 /\ n <= IntMax, value |-> w] : w \in Cast(n)}
           E(null) == IF null \/ c.type \notin Numbers THEN {Refused(0)}
                      ELSE UNION {read(x) : x \in Value(p, i) \ {Null}}
<1>1. PICK t \in tryAsInt(p, i) : v = t.value
  BY DEF asInt
<1>2. tryAsInt(p, i) = UNION {E(null) : null \in getFieldIsNull(p, i)}
  BY DEF tryAsInt
<1>3. \A n : Cast(n) \subseteq Ints
  BY IntRange DEF Cast
<1>4. ASSUME NEW x, NEW u \in read(x) PROVE u.value \in Ints
  <2> DEFINE n == Rounded(adjustNumericScale(x, c.scale))
  <2>1. PICK w \in Cast(n) : u = [ok |-> n > IntMin + 1 /\ n <= IntMax, value |-> w]
    BY <1>4
  <2>2. u.value = w
    BY <2>1
  <2> HIDE DEF n
  <2> QED BY <1>3, <2>1, <2>2
<1> HIDE DEF read, c
<1>5. ASSUME NEW null, NEW u \in E(null) PROVE u.value \in Ints
  <2>1. CASE u = Refused(0)
    BY <2>1, IntRange DEF Refused
  <2>2. CASE \E x : u \in read(x)
    BY <1>4, <2>2
  <2>3. u = Refused(0) \/ \E x : u \in read(x)
    BY <1>5
  <2> QED BY <2>1, <2>2, <2>3
<1> HIDE DEF E
<1> QED BY <1>1, <1>2, <1>5

\* A step that leaves the arguments, the result and the flags of a call alone.
LEMMA CallKeepsValues ==
  ASSUME ValuesInv, fn' = fn, call'.db = call.db, call'.n = call.n, call'.result = call.result,
         call'.twice \in BOOLEAN, call'.outside \in BOOLEAN,
         \/ call.pc \in Querying \cup {"build"} /\ ValidQuery(q')
         \/ call'.pc \notin Querying /\ (q' = None \/ ValidQuery(q')),
         call'.pc \in Querying \cup {"write", "returned", "threw", "terminated"},
         call'.pc \in {"prepare", "bind"} => call.pc \in {"build", "prepare"} \/ fn # SumFn
  PROVE  ValuesInv'
<1>1. ASSUME fn = SumFn, call'.pc \in {"build", "prepare", "bind"} PROVE DOMAIN call'.n = 1 .. 3
  <2>1. call.pc \in {"build", "prepare"}
    BY <1>1 DEF Querying
  <2> QED BY <1>1, <2>1 DEF ValuesInv
<1>2. (q = None \/ ValidQuery(q))' /\ (call'.pc \in Querying => ValidQuery(q)')
  BY DEF ValidQuery
<1> QED BY <1>1, <1>2 DEF ValuesInv, Querying

\* An operation on the query.
LEMMA DoKeepsValues ==
  ASSUME ShapeInv, ValuesInv, NEW outcomes, \A o \in outcomes : ValidQuery(o.q),
         NEW to \in Querying, Do(outcomes, to), call.pc \in Querying \cup {"build"},
         to \in {"prepare", "bind"} => call.pc \in {"build", "prepare"} \/ fn # SumFn
  PROVE  ValuesInv'
<1>1. PICK o \in outcomes :
         /\ q' = o.q
         /\ call' = [call EXCEPT !.pc = IF o.thrown THEN "unwind" ELSE to]
         /\ UNCHANGED server
  BY DEF Do
<1>2. call'.pc = (IF o.thrown THEN "unwind" ELSE to) /\ call'.db = call.db /\ call'.n = call.n
  BY <1>1 DEF ShapeInv, NoCall
<1>3. call'.result = call.result /\ call'.twice = call.twice /\ call'.outside = call.outside
  BY <1>1 DEF ShapeInv, NoCall
<1>4. call'.twice \in BOOLEAN /\ call'.outside \in BOOLEAN
  BY <1>3 DEF ValuesInv
<1>5. fn' = fn /\ ValidQuery(q')
  BY <1>1 DEF server
<1> QED BY <1>2, <1>3, <1>4, <1>5, CallKeepsValues DEF Querying

\* Without a call there are no values.
LEMMA NoCallHasValues ==
  ASSUME call' = NoCall, q' = None
  PROVE  ValuesInv'
<1>1. /\ call'.pc = "idle" /\ call'.db = None /\ call'.n = <<>> /\ call'.result = Null
  BY DEF NoCall
<1>2. call'.twice = FALSE /\ call'.outside = FALSE
  BY DEF NoCall
<1>3. Range(<<>>) = {}
  BY DEF Range
<1> QED BY <1>1, <1>2, <1>3 DEF ValuesInv, Querying

\* A call begins.
LEMMA BeginHasValues ==
  ASSUME QueryInv, NEW d \in Databases, BeginCall(d)
  PROVE  ValuesInv'
<1>1. PICK a \in ArgsOf(d) :
         call' = [NoCall EXCEPT !.pc = IF fn = ReadFn THEN "build" ELSE "enter", !.db = d, !.args = a]
  BY DEF BeginCall
<1>2. /\ call'.pc = (IF fn = ReadFn THEN "build" ELSE "enter") /\ call'.db = d /\ call'.n = <<>>
      /\ call'.result = Null
  BY <1>1 DEF NoCall
<1>3. call'.twice = FALSE /\ call'.outside = FALSE
  BY <1>1 DEF NoCall
<1>4. Range(<<>>) = {}
  BY DEF Range
<1>5. q' = None /\ fn' = fn
  BY DEF BeginCall, QueryInv, HeldInv
<1>6. call'.pc \in {"build", "enter"} /\ (fn = SumFn => call'.pc = "enter")
  BY <1>2, UserCallsAssumption
<1> QED BY <1>2, <1>3, <1>4, <1>5, <1>6 DEF ValuesInv, Querying

\* Arguments are ints.
LEMMA ParseHasValues ==
  ASSUME QueryInv, AnswerInv, ValuesInv, ParseArgs
  PROVE  ValuesInv'
<1>1. call.pc = "enter" /\ fn = SumFn /\ fn' = fn /\ q' = q /\ DOMAIN call = DOMAIN NoCall
  BY DEF ParseArgs, QueryInv, ShapeInv, server
<1> DEFINE in == Message(Declaration.in, call.args)
<1>2. PICK n1 \in parseArg(meta, in, 0), n2 \in parseArg(meta, in, 1), n3 \in parseArg(meta, in, 2) :
         call' = [call EXCEPT !.pc = "build", !.n = <<n1, n2, n3>>]
  BY DEF ParseArgs
<1>3. \A k \in DOMAIN in : in[k] \in Ints \cup {Unset}
  <2>1. call.args \in [1 .. 3 -> Args] /\ Declaration \in Declarations[SumFn]
    BY <1>1 DEF AnswerInv, SumInv, DescribedInv, Declaration
  <2>2. /\ DOMAIN Declaration.in = 1 .. 3
        /\ \A i \in 1 .. 3 : Declaration.in[i].type \in {"long", "int64"}
    BY <2>1, UserCallsAssumption
  <2> QED BY <2>1, <2>2, MessageOfInts
<1> HIDE DEF in
<1>4. {n1, n2, n3} \subseteq Ints \cup {Null}
  BY <1>3, ParsedIsInt
<1>5. /\ call'.pc = "build" /\ call'.n = <<n1, n2, n3>> /\ call'.db = call.db
      /\ call'.result = call.result
  BY <1>1, <1>2 DEF NoCall
<1>6. call'.twice = call.twice /\ call'.outside = call.outside
  BY <1>1, <1>2 DEF NoCall
<1>7. DOMAIN call'.n = 1 .. 3 /\ Range(call'.n) \subseteq Ints \cup {Null}
  <2>1. DOMAIN <<n1, n2, n3>> = 1 .. 3 /\ \A i \in 1 .. 3 : <<n1, n2, n3>>[i] \in {n1, n2, n3}
    OBVIOUS
  <2>2. Range(<<n1, n2, n3>>) \subseteq {n1, n2, n3}
    BY <2>1 DEF Range
  <2> QED BY <1>4, <1>5, <2>1, <2>2
<1>8. (q = None \/ ValidQuery(q))'
  BY <1>1 DEF ValuesInv, ValidQuery
<1>9. call'.twice \in BOOLEAN /\ call'.outside \in BOOLEAN
  BY <1>6 DEF ValuesInv
<1> QED BY <1>5, <1>7, <1>8, <1>9 DEF ValuesInv, Querying

\* The steps of a function on its query.
LEMMA QueryStepsHaveValues ==
  ASSUME QueryInv, AnswerInv, ValuesInv,
         BuildQuery \/ Prepare \/ BindArguments \/ OpenCursor \/ CloseQuery
  PROVE  ValuesInv'
<1>0. ShapeInv /\ fn \in Functions
  BY DEF QueryInv
<1>1. ASSUME BuildQuery PROVE ValuesInv'
  <2>1. call.pc = "build"
    BY <1>1 DEF BuildQuery
  <2>2. CASE Do({Ok(NewQuery, TRUE)}, "prepare")
    <3> DEFINE os == {Ok(NewQuery, TRUE)}
    <3>1. \A o \in os : ValidQuery(o.q)
      BY NewIsValid DEF Ok
    <3>2. Do(os, "prepare")
      BY <2>2
    <3> HIDE DEF os
    <3> QED BY <1>0, <2>1, <3>1, <3>2, DoKeepsValues DEF Querying
  <2>3. CASE call' = [call EXCEPT !.pc = "threw"] /\ UNCHANGED <<server, q>>
    <3>1. /\ call'.pc = "threw" /\ call'.db = call.db /\ call'.n = call.n
          /\ call'.result = call.result
      BY <1>0, <2>3 DEF ShapeInv, NoCall
    <3>2. call'.twice = call.twice /\ call'.outside = call.outside
      BY <1>0, <2>3 DEF ShapeInv, NoCall
    <3>3. call'.twice \in BOOLEAN /\ call'.outside \in BOOLEAN
      BY <3>2 DEF ValuesInv
    <3>4. fn' = fn /\ (q' = None \/ ValidQuery(q'))
      BY <2>3 DEF ValuesInv, server
    <3> QED BY <2>1, <3>1, <3>3, <3>4, CallKeepsValues DEF Querying
  <2> QED BY <1>1, <2>2, <2>3 DEF BuildQuery
<1>2. ASSUME Prepare PROVE ValuesInv'
  <2> DEFINE T == IF fn = SumFn THEN SumText ELSE call.args.text
             os == prepare(q, T)
  <2>1. call.pc = "prepare" /\ Do(os, "bind") /\ ValidQuery(q)
    BY <1>2 DEF Prepare, ValuesInv, Querying
  <2>2. T \in DOMAIN Statements
    <3>1. CASE fn = SumFn
      BY <3>1, UserCallsAssumption
    <3>2. CASE fn # SumFn
      <4>1. fn = ReadFn
        BY <1>0, <2>1, <3>2 DEF AnswerInv, TextInv, Functions
      <4>2. call.args.text \in ReadTexts
        BY <2>1, <4>1 DEF QueryInv, ReaderInv, Querying
      <4> QED BY <3>2, <4>2 DEF ReadTexts
    <3> QED BY <3>1, <3>2
  <2>3. \A o \in os : ValidQuery(o.q)
    <3> HIDE DEF T
    <3> QED BY <2>1, <2>2, PreparedIsValid
  <2> HIDE DEF os
  <2> QED BY <1>0, <2>1, <2>3, DoKeepsValues DEF Querying
<1>3. ASSUME BindArguments PROVE ValuesInv'
  <2> DEFINE bound(values) == [q EXCEPT !.in = [i \in DOMAIN q.in |-> SetParam(q, i, values[i]).in[i]]]
  <2>1. call.pc = "bind" /\ ValidQuery(q)
    BY <1>3 DEF BindArguments, ValuesInv, Querying
  <2>2. PICK values \in IF fn = SumFn THEN {call.n} ELSE [DOMAIN q.in -> Args] :
           Do({Ok(bound(values), TRUE)}, "open")
    BY <1>3 DEF BindArguments
  <2>3. \A i \in DOMAIN q.in : values[i] \in Ints \cup {Null}
    <3>1. CASE fn = SumFn
      <4>1. DOMAIN q.in = 1 .. 3 /\ DOMAIN call.n = 1 .. 3 /\ Range(call.n) \subseteq Ints \cup {Null}
        BY <2>1, <3>1 DEF AnswerInv, SumInv, ValuesInv
      <4>2. values = call.n
        BY <2>2, <3>1
      <4> QED BY <4>1, <4>2 DEF Range
    <3>2. CASE fn # SumFn
      BY <2>2, <3>2, UserCallsAssumption
    <3> QED BY <3>1, <3>2
  <2> DEFINE os == {Ok(bound(values), TRUE)}
  <2>4. ValidQuery(bound(values))
    BY <2>1, <2>3, BoundIsValid
  <2> HIDE DEF bound
  <2>5. \A o \in os : ValidQuery(o.q)
    BY <2>4 DEF Ok
  <2>6. Do(os, "open")
    BY <2>2
  <2> HIDE DEF os
  <2> QED BY <1>0, <2>1, <2>5, <2>6, DoKeepsValues DEF Querying
<1>4. ASSUME OpenCursor PROVE ValuesInv'
  <2> DEFINE os == openCursor(q)
             to == IF fn = SumFn THEN "take" ELSE "loop"
  <2>1. call.pc = "open" /\ Do(os, to) /\ ValidQuery(q) /\ "out_buffer" \in q.held
    BY <1>4 DEF OpenCursor, ValuesInv, Querying, QueryInv, HeldInv
  <2>2. \A o \in os : ValidQuery(o.q)
    BY <2>1, OpenedIsValid
  <2>3. to \in Querying /\ to \notin {"prepare", "bind"}
    BY DEF Querying
  <2> HIDE DEF os, to
  <2> QED BY <1>0, <2>1, <2>2, <2>3, DoKeepsValues DEF Querying
<1>5. ASSUME CloseQuery PROVE ValuesInv'
  <2> DEFINE os == close(q)
  <2>1. call.pc = "close" /\ ValidQuery(q)
    BY <1>5 DEF CloseQuery, ValuesInv, Querying
  <2>2. PICK to \in {"destroy"} \cup (IF fn = ReadFn THEN {"prepare"} ELSE {}) : Do(os, to)
    BY <1>5 DEF CloseQuery
  <2>3. \A o \in os : ValidQuery(o.q)
    BY <2>1, ClosedIsValid
  <2>4. to \in Querying /\ (to \in {"prepare", "bind"} => fn # SumFn)
    BY <2>2, UserCallsAssumption DEF Querying
  <2> HIDE DEF os
  <2> QED BY <1>0, <2>1, <2>2, <2>3, <2>4, DoKeepsValues DEF Querying
<1> QED BY <1>1, <1>2, <1>3, <1>4, <1>5

\* The steps of a reader.
LEMMA ReaderHasValues ==
  ASSUME QueryInv, AnswerInv, ValuesInv, ReadNumber \/ ReadString \/ NextRow \/ EndLoop
  PROVE  ValuesInv'
<1>1. /\ call.pc \in {"loop", "next"} /\ ShapeInv /\ fn' = fn /\ ValidQuery(q)
      /\ fn = ReadFn
  <2>1. call.pc \in {"loop", "next"} /\ ShapeInv /\ fn' = fn /\ fn \in Functions
    BY DEF ReadNumber, ReadString, NextRow, EndLoop, QueryInv, server
  <2>2. fn # SumFn /\ fn # TextFn /\ ValidQuery(q)
    BY <2>1 DEF AnswerInv, SumInv, TextInv, ValuesInv, Querying
  <2> QED BY <2>1, <2>2 DEF Functions
<1>2. CASE ReadNumber
  <2>1. \E v : call' = [call EXCEPT !.pc = "next", !.seen = Append(@, v)]
    BY <1>2 DEF ReadNumber
  <2>2. call'.pc = "next" /\ call'.db = call.db /\ call'.n = call.n /\ call'.result = call.result
    BY <1>1, <2>1 DEF ShapeInv, NoCall
  <2>3. call'.twice = call.twice /\ call'.outside = call.outside
    BY <1>1, <2>1 DEF ShapeInv, NoCall
  <2>4. call'.twice \in BOOLEAN /\ call'.outside \in BOOLEAN
    BY <2>3 DEF ValuesInv
  <2>5. ValidQuery(q')
    <3>1. q' = Named(q)
      BY <1>2 DEF ReadNumber
    <3> QED BY <1>1, <3>1, NamedIsValid
  <2> QED BY <1>1, <2>2, <2>4, <2>5, CallKeepsValues DEF Querying
<1>3. CASE ReadString
  <2>1. PICK p : call' = [call EXCEPT !.pc = "next", !.str = p.str, !.twice = @ \/ p.twice]
    BY <1>3 DEF ReadString
  <2>2. call'.pc = "next" /\ call'.db = call.db /\ call'.n = call.n /\ call'.result = call.result
    BY <1>1, <2>1 DEF ShapeInv, NoCall
  <2>3. call'.twice = (call.twice \/ p.twice) /\ call'.outside = call.outside
    BY <1>1, <2>1 DEF ShapeInv, NoCall
  <2>4. call'.twice \in BOOLEAN /\ call'.outside \in BOOLEAN
    BY <2>3 DEF ValuesInv
  <2>5. ValidQuery(q')
    <3>1. q' = Named(q)
      BY <1>3 DEF ReadString
    <3> QED BY <1>1, <3>1, NamedIsValid
  <2> QED BY <1>1, <2>2, <2>4, <2>5, CallKeepsValues DEF Querying
<1>4. CASE NextRow
  <2>1. PICK o \in next(q) :
           /\ q' = o.q
           /\ call' = [call EXCEPT !.pc = IF o.thrown THEN "unwind" ELSE "loop",
                                   !.str = IF @ = "dangling" THEN "null" ELSE @]
    BY <1>4 DEF NextRow
  <2>2. /\ call'.pc = (IF o.thrown THEN "unwind" ELSE "loop") /\ call'.db = call.db
        /\ call'.n = call.n /\ call'.result = call.result
    BY <1>1, <2>1 DEF ShapeInv, NoCall
  <2>3. call'.twice = call.twice /\ call'.outside = call.outside
    BY <1>1, <2>1 DEF ShapeInv, NoCall
  <2>4. call'.twice \in BOOLEAN /\ call'.outside \in BOOLEAN
    BY <2>3 DEF ValuesInv
  <2>5. q.text # SumText /\ "out_buffer" \in q.held
    <3>1. call.pc = "next"
      BY <1>4 DEF NextRow
    <3> QED BY <1>1, <3>1 DEF QueryInv, ReaderInv, HeldInv, ReadTexts, Querying
  <2>6. ValidQuery(q')
    BY <1>1, <2>1, <2>5, SteppedIsValid
  <2> QED BY <1>1, <2>2, <2>4, <2>6, CallKeepsValues DEF Querying
<1>5. CASE EndLoop
  <2>1. PICK to \in {"close", "destroy"} : call' = [call EXCEPT !.pc = to, !.seen = <<>>]
    BY <1>5 DEF EndLoop
  <2>2. call'.pc = to /\ call'.db = call.db /\ call'.n = call.n /\ call'.result = call.result
    BY <1>1, <2>1 DEF ShapeInv, NoCall
  <2>3. call'.twice = call.twice /\ call'.outside = call.outside
    BY <1>1, <2>1 DEF ShapeInv, NoCall
  <2>4. call'.twice \in BOOLEAN /\ call'.outside \in BOOLEAN
    BY <2>3 DEF ValuesInv
  <2>5. ValidQuery(q')
    BY <1>1, <1>5 DEF EndLoop
  <2> QED BY <1>1, <2>1, <2>2, <2>4, <2>5, CallKeepsValues DEF Querying
<1> QED BY <1>2, <1>3, <1>4, <1>5

\* A look-up throws.
LEMMA LookUpHasValues ==
  ASSUME QueryInv, ValuesInv, LookUpThrows
  PROVE  ValuesInv'
<1>1. call.pc \in {"bind", "take", "loop"} /\ ShapeInv /\ fn' = fn /\ q' = q /\ ValidQuery(q)
  BY DEF LookUpThrows, QueryInv, server, ValuesInv, Querying
<1>2. call'.pc = "unwind" /\ call'.db = call.db /\ call'.n = call.n /\ call'.result = call.result
  BY <1>1 DEF LookUpThrows, ShapeInv, NoCall
<1>3. call'.twice = call.twice /\ call'.outside = call.outside
  BY <1>1 DEF LookUpThrows, ShapeInv, NoCall
<1>4. call'.twice \in BOOLEAN /\ call'.outside \in BOOLEAN /\ ValidQuery(q')
  BY <1>1, <1>3 DEF ValuesInv
<1> QED BY <1>1, <1>2, <1>4, CallKeepsValues DEF Querying

\* The end of a call: the result is taken, the query destroyed, the answer written.
LEMMA EndHasValues ==
  ASSUME QueryInv, AnswerInv, ValuesInv, TakeSum \/ DestroyQuery \/ WriteSum \/ ExecSpec
  PROVE  ValuesInv'
<1>0. ShapeInv /\ fn' = fn
  BY DEF QueryInv, TakeSum, DestroyQuery, WriteSum, ExecSpec, server
<1>1. CASE TakeSum
  <2>1. call.pc = "take" /\ q' = q /\ ValidQuery(q)
    BY <1>1 DEF TakeSum, ValuesInv, Querying
  <2>2. PICK null \in getFieldIsNull(q, 1) : \E v \in IF null THEN {Null} ELSE asInt(q, 1) :
           call' = [call EXCEPT !.pc = "close", !.result = v]
    BY <1>1 DEF TakeSum
  <2>3. PICK v \in IF null THEN {Null} ELSE asInt(q, 1) :
           call' = [call EXCEPT !.pc = "close", !.result = v]
    BY <2>2
  <2>4. v \in Ints \cup {Null}
    BY <2>3, AsIntIsInt
  <2>5. call'.pc = "close" /\ call'.db = call.db /\ call'.n = call.n /\ call'.result = v
    BY <1>0, <2>3 DEF ShapeInv, NoCall
  <2>6. call'.twice = call.twice /\ call'.outside = call.outside
    BY <1>0, <2>3 DEF ShapeInv, NoCall
  <2>7. call'.twice \in BOOLEAN /\ call'.outside \in BOOLEAN
    BY <2>6 DEF ValuesInv
  <2>8. (q = None \/ ValidQuery(q))' /\ ValidQuery(q)'
    BY <2>1 DEF ValidQuery
  <2> QED BY <1>0, <2>4, <2>5, <2>7, <2>8 DEF ValuesInv, Querying
<1>2. CASE DestroyQuery
  <2> DEFINE to(o) == IF o.thrown THEN "terminated"
                      ELSE IF call.pc = "unwind" THEN "threw"
                      ELSE IF fn = SumFn THEN "write" ELSE "returned"
  <2>1. call.pc \in {"destroy", "unwind"} /\ ValidQuery(q)
    BY <1>2 DEF DestroyQuery, ValuesInv, Querying
  <2>2. PICK o \in Destructor(q) : q' = o.q /\ call' = [call EXCEPT !.pc = to(o)]
    BY <1>2 DEF DestroyQuery
  <2>3. call'.pc = to(o) /\ call'.db = call.db /\ call'.n = call.n /\ call'.result = call.result
    BY <1>0, <2>2 DEF ShapeInv, NoCall
  <2>4. call'.twice = call.twice /\ call'.outside = call.outside
    BY <1>0, <2>2 DEF ShapeInv, NoCall
  <2>5. call'.twice \in BOOLEAN /\ call'.outside \in BOOLEAN
    BY <2>4 DEF ValuesInv
  <2>6. ValidQuery(q')
    BY <2>1, <2>2, DestroyedIsValid
  <2>7. call'.pc \in {"terminated", "threw", "write", "returned"}
    BY <2>3
  <2> QED BY <1>0, <2>1, <2>3, <2>5, <2>6, <2>7, CallKeepsValues DEF Querying
<1>3. CASE WriteSum \/ ExecSpec
  <2>1. PICK w, text : Return(w, text)
    BY <1>3 DEF WriteSum, ExecSpec
  <2>2. /\ q' = q
    BY <1>3 DEF WriteSum, ExecSpec
  <2> DEFINE out == Buffer(<<Declaration.out>>)
             msg == [k \in DOMAIN out |-> IF k \in DOMAIN w THEN w[k] ELSE Unset]
             beyond == ~(DOMAIN w \subseteq DOMAIN out)
  <2>3. call' = [call EXCEPT !.pc = "returned", !.text = text, !.out = msg, !.outside = beyond]
    BY <2>1 DEF Return
  <2>4. beyond \in BOOLEAN
    OBVIOUS
  <2> HIDE DEF msg, beyond
  <2>5. call'.pc = "returned" /\ call'.db = call.db /\ call'.n = call.n /\ call'.result = call.result
    BY <1>0, <2>3 DEF ShapeInv, NoCall
  <2>6. call'.twice = call.twice
    BY <1>0, <2>3 DEF ShapeInv, NoCall
  <2>7. call'.outside = beyond
    BY <1>0, <2>3 DEF ShapeInv, NoCall
  <2>8. call'.twice \in BOOLEAN /\ call'.outside \in BOOLEAN
    BY <2>4, <2>6, <2>7 DEF ValuesInv
  <2>9. q' = None \/ ValidQuery(q')
    BY <2>2 DEF ValuesInv
  <2> QED BY <1>0, <2>5, <2>8, <2>9, CallKeepsValues DEF Querying
<1> QED BY <1>1, <1>2, <1>3
-----------------------------------------------------------------------------

\* ValuesInv holds in every state.
THEOREM ValuesInvHolds == Spec => []ValuesInv
<1>1. Init => ValuesInv
  <2> SUFFICES ASSUME Init PROVE ValuesInv
    OBVIOUS
  <2>1. /\ call.pc = "idle" /\ call.db = None /\ call.n = <<>> /\ call.result = Null /\ q = None
    BY DEF Init, NoCall
  <2>2. call.twice = FALSE /\ call.outside = FALSE
    BY DEF Init, NoCall
  <2>3. Range(<<>>) = {}
    BY DEF Range
  <2> QED BY <2>1, <2>2, <2>3 DEF ValuesInv, Querying
<1>2. QueryInv /\ AnswerInv /\ ValuesInv /\ [Next]_vars => ValuesInv'
  <2> SUFFICES ASSUME QueryInv, AnswerInv, ValuesInv, [Next]_vars PROVE ValuesInv'
    OBVIOUS
  <2>1. ASSUME UNCHANGED <<fn, q, call>> PROVE ValuesInv'
    BY <2>1 DEF ValuesInv, ValidQuery
  <2>2. CASE UNCHANGED vars
    BY <2>1, <2>2 DEF vars, server
  <2>3. ASSUME NEW d \in Databases, Declare(d) \/ DropFunction(d) PROVE ValuesInv'
    BY <2>1, <2>3 DEF Declare, DropFunction
  <2>4. CASE Restart \/ EndCall
    BY <2>4, NoCallHasValues DEF Restart, EndCall
  <2> QED BY <2>2, <2>3, <2>4, BeginHasValues, ParseHasValues, QueryStepsHaveValues,
             ReaderHasValues, LookUpHasValues, EndHasValues DEF Next
<1> QED BY <1>1, <1>2, QueryInvHolds, AnswerInvHolds, PTL DEF Spec

\* The invariant as a whole.
THEOREM CallInvHolds == Spec => []CallInv
<1>1. QueryInv /\ AnswerInv /\ ValuesInv => CallInv
  BY DEF CallInv
<1> QED BY <1>1, QueryInvHolds, AnswerInvHolds, ValuesInvHolds, PTL

\* Type correctness of a call.
THEOREM CallTypeCorrect == Spec => []TypeOK
<1>1. QueryInv /\ AnswerInv /\ ValuesInv => TypeOK
  <2> SUFFICES ASSUME QueryInv, AnswerInv, ValuesInv PROVE TypeOK
    OBVIOUS
  <2>1. /\ fn \in Functions /\ decl \in [Databases -> Declarations[fn] \cup {None}]
        /\ ever \subseteq Declarations[fn] /\ Declared \subseteq ever
    BY DEF QueryInv, AnswerInv, DescribedInv
  <2>2. meta = None \/ \E d \in Declarations[fn] : meta = PSERoutineMeta(d)
    BY DEF AnswerInv, DescribedInv
  <2>3. call.str \in {"null", "block", "dangling"}
    BY DEF QueryInv, StringInv
  <2>4. call.twice \in BOOLEAN /\ call.outside \in BOOLEAN
    BY DEF ValuesInv
  <2>5. /\ call.db \in Databases \cup {None}
        /\ Range(call.n) \subseteq Ints \cup {Null} /\ call.result \in Ints \cup {Null}
        /\ call.pc \in Querying \cup {"idle", "enter", "build", "write", "returned", "threw", "terminated"}
        /\ q = None \/ ValidQuery(q)
    BY DEF ValuesInv
  <2> QED BY <2>1, <2>2, <2>3, <2>4, <2>5 DEF TypeOK, ValidQuery, Querying, Members
<1> QED BY <1>1, QueryInvHolds, AnswerInvHolds, ValuesInvHolds, PTL
-----------------------------------------------------------------------------
(* The time since the module was loaded *)

\* print_human_time_elapsed prints the whole seconds since a time in the past:
\* its numbers add up to them, each below the next unit, from the largest unit
\* that is not 0 down to the seconds.
THEOREM ElapsedIsExact ==
  ASSUME NEW seconds \in Nat, NEW ms \in 0 .. 999
  PROVE  LET p     == print_human_time_elapsed(1000 * seconds + ms)
             of(u) == IF u \in DOMAIN p THEN p[u] ELSE 0
         IN  /\ seconds = of("d") * 86400 + of("h") * 3600 + of("m") * 60 + of("s")
             /\ of("d") \in Nat /\ of("h") \in 0 .. 23 /\ of("m") \in 0 .. 59 /\ of("s") \in 0 .. 59
             /\ DOMAIN p \in {{"d", "h", "m", "s"}, {"h", "m", "s"}, {"m", "s"}, {"s"}}
             /\ \A u \in {"d", "h", "m"} :
                   u \in DOMAIN p => \E w \in DOMAIN p \ {"s"} : p[w] > 0
<1> DEFINE D == seconds \div 86400
           H == (seconds - 86400 * D) \div 3600
           M == (seconds - 3600 * (seconds \div 3600)) \div 60
           S == seconds - 60 * (seconds \div 60)
<1>1. Quot(1000 * seconds + ms, 1000) = seconds
  BY DEF Quot
<1>2. /\ Quot(seconds, 86400) = D
      /\ Quot(Rem(seconds, 86400), 3600) = H
      /\ Quot(Rem(seconds, 3600), 60) = M
      /\ Rem(seconds, 60) = S
  BY DEF Quot, Rem
<1>3. /\ D \in Nat /\ H \in 0 .. 23 /\ M \in 0 .. 59 /\ S \in 0 .. 59
      /\ seconds = D * 86400 + H * 3600 + M * 60 + S
  OBVIOUS
<1>4. print_human_time_elapsed(1000 * seconds + ms) =
        IF D > 0 THEN [d |-> D, h |-> H, m |-> M, s |-> S]
        ELSE IF H > 0 THEN [h |-> H, m |-> M, s |-> S]
        ELSE IF M > 0 THEN [m |-> M, s |-> S]
        ELSE [s |-> S]
  BY <1>1, <1>2 DEF print_human_time_elapsed
<1> HIDE DEF D, H, M, S
<1>5. CASE D > 0
  <2> DEFINE p == print_human_time_elapsed(1000 * seconds + ms)
  <2>1. p = [d |-> D, h |-> H, m |-> M, s |-> S]
    BY <1>4, <1>5
  <2> HIDE DEF p
  <2>2. DOMAIN p = {"d", "h", "m", "s"} /\ p["d"] = D /\ p["h"] = H /\ p["m"] = M /\ p["s"] = S
    BY <2>1
  <2>3. \E w \in DOMAIN p \ {"s"} : p[w] > 0
    BY <1>5, <2>2
  <2> QED BY <1>3, <2>2, <2>3 DEF p
<1>6. CASE ~(D > 0) /\ H > 0
  BY <1>3, <1>4, <1>6
<1>7. CASE ~(D > 0) /\ ~(H > 0) /\ M > 0
  BY <1>3, <1>4, <1>7
<1>8. CASE ~(D > 0) /\ ~(H > 0) /\ ~(M > 0)
  BY <1>3, <1>4, <1>8
<1> QED BY <1>5, <1>6, <1>7, <1>8
=============================================================================
