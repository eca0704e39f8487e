------------------------- MODULE FbStatementProofs --------------------------
(***************************************************************************)
(* Proofs about the statements of fbaccess.c, for every set of statements, *)
(* transactions and texts, and every server.  What PreprocessSQL finds in  *)
(* a text is left to TLC: here it is only what the text was read as.       *)
(***************************************************************************)
EXTENDS FbStatementInv, FiniteSetTheorems, TLAPS

\* The width of SQL_SHORT is a positive number of values.
LEMMA PowerOfTwo == ASSUME NEW n \in Nat PROVE 2 ^ n \in Nat /\ 2 ^ n > 0
<1>1. IsFiniteSet(1..n) /\ Cardinality(1..n) = n
  BY FS_Interval
<1>2. IsFiniteSet(SUBSET (1..n)) /\ Cardinality(SUBSET (1..n)) = 2 ^ n
  BY <1>1, FS_SUBSET
<1>3. Cardinality(SUBSET (1..n)) \in Nat
  BY <1>2, FS_CardinalityType
<1>4. Cardinality(SUBSET (1..n)) # 0
  BY <1>2, FS_EmptySet
<1> QED BY <1>2, <1>3, <1>4

\* What a setter writes is an integer or NULL, and a cell of the type's width.
LEMMA StoredType ==
  ASSUME NEW how \in Setters, NEW v \in Given(how), NEW cell
  PROVE  Stored(cell, v) \in Cell /\ Stored(cell, v) \in Int \cup {Null, Unset}
<1> DEFINE half == 2 ^ (ShortBits - 1)
<1>1. v = Null \/ v \in Values
  BY DEF Given
<1>2. half \in Nat /\ half > 0
  <2>1. ShortBits - 1 \in Nat
    BY FbAssumption
  <2> QED BY <2>1, PowerOfTwo
<1>3. ASSUME NEW w \in Int PROVE ToShort(w) \in Int /\ ToShort(w) \in -half .. half - 1
  <2>1. ToShort(w) = ((w + half) % (2 * half)) - half
    BY DEF ToShort
  <2> HIDE DEF half
  <2>2. (w + half) % (2 * half) \in 0 .. 2 * half - 1
    BY <1>2
  <2> QED BY <1>2, <2>1, <2>2
<1>4. Stored(cell, v) = v \/ (v \in Values /\ Stored(cell, v) = ToShort(v))
  BY <1>1 DEF Stored
<1>5. Values \subseteq Int
  BY FbAssumption
<1> HIDE DEF half
<1>6. CASE Stored(cell, v) = v
  BY <1>1, <1>5, <1>6 DEF Cell
<1>7. CASE v \in Values /\ Stored(cell, v) = ToShort(v)
  BY <1>3, <1>5, <1>7 DEF Cell, half
<1> QED BY <1>4, <1>6, <1>7

-----------------------------------------------------------------------------
(* The operations on one statement record *)

\* A closed statement is bare: it keeps its object, transaction and text.
LEMMA Closed ==
  ASSUME NEW q, Shape(q)
  PROVE  LET c == fb_close_sql(q) IN
         /\ Shape(c)
         /\ c.alive = q.alive /\ c.tr = q.tr /\ c.text = q.text /\ c.leaked = q.leaked
         /\ c.srv = None /\ c.params = None /\ c.names = {} /\ c.fields = None
         /\ c.fieldNames = "none" /\ c.mEOF = FALSE /\ c.want = <<>> /\ c.sent = None
BY DEF Shape, NewSql, fb_close_sql, PurgeFields, PurgeParams

\* And it satisfies the invariant, whatever state it was in.
LEMMA ClosedInv ==
  ASSUME NEW q, Shape(q), ~q.leaked
  PROVE  SqlInv(fb_close_sql(q))
<1> DEFINE c == fb_close_sql(q)
<1>1. /\ Shape(c)
      /\ c.leaked = q.leaked
      /\ c.srv = None /\ c.params = None /\ c.names = {} /\ c.fields = None
      /\ c.fieldNames = "none" /\ c.want = <<>> /\ c.sent = None
  BY Closed
<1> HIDE DEF c
<1>2. SqlInv(c)
  BY <1>1, NoneAssumption
     DEF SqlInv, PreparedInv, ServerInv, TablesInv, ExecutedInv, HasOpenCursor,
              fb_is_sql_prepared, fb_is_sql_active
<1> QED BY <1>2 DEF c
\* The outcomes of fb_prepare_sql: a failure leaves q, or a record without a
\* server's statement; success describes it.
LEMMA PrepareOutcomes ==
  ASSUME NEW q, NEW o \in fb_prepare_sql(q)
  PROVE  \/ o = Outcome(FALSE, q)
         \/ o = Outcome(FALSE, Reset(q))
         \/ o = Outcome(FALSE, fb_close_sql(Reset(q)))
         \/ \E kc \in Kinds : o = Outcome(FALSE, fb_close_sql(Allocated(Reset(q), kc)))
         \/ /\ CanRun(q) /\ Reset(q).text \in Accepted
            /\ \E kc \in Kinds, d \in Descriptions(Scanned[Reset(q).text].marks) :
                  o = Outcome(TRUE, Prepared(Reset(q), kc, d))
<1> DEFINE c == Reset(q)
           D == IF c.text \in Accepted THEN Descriptions(Scanned[c.text].marks) ELSE {}
           errors == {Outcome(FALSE, fb_close_sql(Allocated(c, kc))) : kc \in Kinds}
           success(kc, d) == Outcome(TRUE, Prepared(c, kc, d))
           results == {success(kc, d) : kc \in Kinds, d \in D}
           rest == IF ~Scanned[c.text].ok \/ ~connected THEN {} ELSE errors \cup results
<1>1. fb_prepare_sql(q) =
        IF ~CanRun(q) THEN {Outcome(FALSE, q)}
        ELSE IF c.text = <<>> THEN {Outcome(FALSE, c)}
        ELSE {Outcome(FALSE, fb_close_sql(c))} \cup rest
  BY DEF fb_prepare_sql, PrepareOr
<1> HIDE DEF c, D, success
<1>2. o \in errors => \E kc \in Kinds : o = Outcome(FALSE, fb_close_sql(Allocated(c, kc)))
  OBVIOUS
<1>3. o \in results => \E kc \in Kinds, d \in D : o = success(kc, d)
  OBVIOUS
<1> HIDE DEF errors, results
<1>4. o \in rest => o \in errors \/ o \in results
  OBVIOUS
<1> HIDE DEF rest
<1>5. \/ o = Outcome(FALSE, q)
      \/ o = Outcome(FALSE, c)
      \/ o = Outcome(FALSE, fb_close_sql(c))
      \/ CanRun(q) /\ o \in rest
  BY <1>1
<1>6. D = IF c.text \in Accepted THEN Descriptions(Scanned[c.text].marks) ELSE {}
  BY DEF D
<1> QED BY <1>2, <1>3, <1>4, <1>5, <1>6 DEF c, success

\* What is reset is bare: not active, not prepared, with no statement of the server.
LEMMA ResetIsBare ==
  ASSUME NEW q, SqlInv(q)
  PROVE  LET c == Reset(q) IN
         /\ SqlInv(c) /\ c.srv = None /\ c.params = None /\ c.fields = None
         /\ c.alive = q.alive /\ c.tr = q.tr /\ c.text = q.text
<1>1. Shape(q) /\ ~q.leaked
  BY DEF SqlInv, ServerInv
<1>2. CASE fb_is_sql_active(q) \/ fb_is_sql_prepared(q)
  <2>1. Reset(q) = fb_close_sql(q)
    BY <1>2 DEF Reset
  <2> QED BY <1>1, <2>1, Closed, ClosedInv
<1>3. CASE ~(fb_is_sql_active(q) \/ fb_is_sql_prepared(q))
  BY <1>3 DEF Reset, SqlInv, ServerInv, fb_is_sql_active, fb_is_sql_prepared
<1> QED BY <1>2, <1>3

\* A server's statement is allocated to a bare record, and none is lost by it.
LEMMA AllocatedKeeps ==
  ASSUME NEW c, Shape(c), c.srv = None, NEW kc
  PROVE  LET a == Allocated(c, kc) IN
         /\ Shape(a)
         /\ a.alive = c.alive /\ a.tr = c.tr /\ a.text = c.text /\ a.hStatement = TRUE
         /\ a.leaked <=> c.leaked
         /\ a.srv = [text |-> Scanned[c.text].out, kind |-> kc[1], cols |-> kc[2], cursor |-> "none"]
         /\ a.params = c.params /\ a.names = c.names /\ a.fields = c.fields
         /\ a.fieldNames = c.fieldNames /\ a.mEOF = c.mEOF /\ a.want = c.want /\ a.sent = c.sent
BY DEF Shape, NewSql, Allocated

\* The parameters described for an accepted text are an area of descriptors.
LEMMA FreshIsArea ==
  ASSUME NEW T \in Accepted, NEW d \in Descriptions(Scanned[T].marks)
  PROVE  /\ FreshParams(d) # None /\ FreshParams(d) \in Area(T)
         /\ DOMAIN FreshParams(d) = DOMAIN d
<1>1. d \in [DOMAIN Scanned[T].marks -> Described] /\ T \in Texts
  BY DEF Descriptions, Accepted
<1>2. FreshParams(d) \in Area(T) /\ DOMAIN FreshParams(d) = DOMAIN d
  BY <1>1, FbAssumption DEF FreshParams, Area
<1> QED BY <1>1, <1>2, NoneAssumption

\* The success of fb_prepare_sql.
LEMMA PreparedKeeps ==
  ASSUME NEW c, SqlInv(c), c.alive, c.srv = None, c.params = None, c.fields = None,
         c.text \in Accepted, NEW kc, NEW d \in Descriptions(Scanned[c.text].marks)
  PROVE  LET p == Prepared(c, kc, d) IN
         /\ SqlInv(p) /\ fb_is_sql_prepared(p) /\ ~fb_is_sql_active(p)
         /\ p.alive = c.alive /\ p.tr = c.tr /\ p.text = c.text
<1> DEFINE a == Allocated(c, kc)
           p == Prepared(c, kc, d)
           f == FreshParams(d)
           w == [k \in DOMAIN d |-> Unset]
<1>1. Shape(c) /\ ServerInv(c) /\ TablesInv(c) /\ ExecutedInv(c)
  BY DEF SqlInv
<1>2. /\ Shape(a)
      /\ a.alive = c.alive /\ a.tr = c.tr /\ a.text = c.text /\ a.hStatement = TRUE
      /\ a.leaked <=> c.leaked
      /\ a.srv = [text |-> Scanned[c.text].out, kind |-> kc[1], cols |-> kc[2], cursor |-> "none"]
      /\ a.fields = c.fields /\ a.fieldNames = c.fieldNames /\ a.mEOF = c.mEOF /\ a.sent = c.sent
  BY <1>1, AllocatedKeeps
<1>3. f # None /\ f \in Area(c.text) /\ DOMAIN f = DOMAIN d
  BY FreshIsArea
<1>4. p = [a EXCEPT !.params = f, !.want = w, !.names = ParamNames(Scanned[c.text].marks)]
  BY DEF Prepared
<1> HIDE DEF a, f, p
<1>5. /\ DOMAIN p = DOMAIN NewSql
      /\ p.params = f /\ p.want = w /\ p.names = ParamNames(Scanned[c.text].marks)
      /\ p.alive = a.alive /\ p.tr = a.tr /\ p.text = a.text /\ p.hStatement = a.hStatement
      /\ p.leaked = a.leaked /\ p.srv = a.srv /\ p.fields = a.fields
      /\ p.fieldNames = a.fieldNames /\ p.mEOF = a.mEOF /\ p.sent = a.sent
  BY <1>2, <1>4 DEF Shape, NewSql
<1>6. DOMAIN w = DOMAIN d /\ \A k \in DOMAIN w : w[k] = Unset
  OBVIOUS
<1> HIDE DEF w
<1>7. Shape(p)
  BY <1>2, <1>3, <1>5 DEF Shape
<1>8. PreparedInv(p)
  BY <1>2, <1>3, <1>5, <1>6 DEF PreparedInv
<1>9. ServerInv(p)
  BY <1>1, <1>2, <1>3, <1>5 DEF ServerInv, fb_is_sql_prepared
<1>10. TablesInv(p)
  BY <1>1, <1>2, <1>3, <1>5 DEF TablesInv, fb_is_sql_prepared, fb_is_sql_active
<1>11. ExecutedInv(p)
  <2>1. p.sent = None
    BY <1>1, <1>2, <1>5 DEF ExecutedInv, fb_is_sql_active
  <2>2. ~HasOpenCursor(p)
    BY <1>2, <1>5, NoneAssumption DEF HasOpenCursor
  <2>3. p.fields # "row"
    BY <1>2, <1>5, NoneAssumption DEF fb_is_sql_active
  <2> QED BY <2>1, <2>2, <2>3 DEF ExecutedInv
<1>12. fb_is_sql_prepared(p) /\ ~fb_is_sql_active(p)
  BY <1>2, <1>3, <1>5 DEF fb_is_sql_prepared, fb_is_sql_active
<1> QED BY <1>2, <1>5, <1>7, <1>8, <1>9, <1>10, <1>11, <1>12 DEF SqlInv, p

\* fb_prepare_sql, also in CheckPrepared: success leaves a prepared statement
\* that is not active, failure one that is as good as before.
LEMMA Prepare ==
  ASSUME NEW q, SqlInv(q), q.alive, NEW o \in fb_prepare_sql(q)
  PROVE  /\ SqlInv(o.q)
         /\ o.q.alive = q.alive /\ o.q.tr = q.tr /\ o.q.text = q.text
         /\ o.ok => fb_is_sql_prepared(o.q) /\ ~fb_is_sql_active(o.q)
<1> DEFINE c == Reset(q)
<1>1. /\ SqlInv(c) /\ c.srv = None /\ c.params = None /\ c.fields = None
      /\ c.alive = q.alive /\ c.tr = q.tr /\ c.text = q.text
      /\ Shape(c) /\ ~c.leaked
  BY ResetIsBare DEF SqlInv, ServerInv
<1> HIDE DEF c
<1>2. CASE o = Outcome(FALSE, q) \/ o = Outcome(FALSE, c)
  <2>1. (o.q = q \/ o.q = c) /\ o.ok = FALSE
    BY <1>2 DEF Outcome
  <2>2. SqlInv(o.q)
    BY <1>1, <2>1
  <2> QED BY <1>1, <2>1, <2>2
<1>3. CASE o = Outcome(FALSE, fb_close_sql(c))
  BY <1>1, <1>3, Closed, ClosedInv DEF Outcome
<1>4. ASSUME NEW kc \in Kinds, o = Outcome(FALSE, fb_close_sql(Allocated(c, kc)))
      PROVE  SqlInv(o.q) /\ o.q.alive = q.alive /\ o.q.tr = q.tr /\ o.q.text = q.text /\ ~o.ok
  <2> DEFINE a == Allocated(c, kc)
  <2>1. /\ Shape(a) /\ ~a.leaked
        /\ a.alive = c.alive /\ a.tr = c.tr /\ a.text = c.text
    BY <1>1, AllocatedKeeps
  <2> HIDE DEF a
  <2>2. o.q = fb_close_sql(a)
    BY <1>4 DEF Outcome, a
  <2>3. o.ok = FALSE
    BY <1>4 DEF Outcome
  <2>4. SqlInv(o.q)
    BY <2>1, <2>2, ClosedInv
  <2>5. o.q.alive = q.alive /\ o.q.tr = q.tr /\ o.q.text = q.text
    <3>1. /\ fb_close_sql(a).alive = a.alive /\ fb_close_sql(a).tr = a.tr
          /\ fb_close_sql(a).text = a.text
      BY <2>1, Closed
    <3> QED BY <1>1, <2>1, <2>2, <3>1
  <2> QED BY <2>3, <2>4, <2>5
<1>5. ASSUME c.text \in Accepted, NEW kc \in Kinds,
             NEW d \in Descriptions(Scanned[c.text].marks), o = Outcome(TRUE, Prepared(c, kc, d))
      PROVE  /\ SqlInv(o.q) /\ fb_is_sql_prepared(o.q) /\ ~fb_is_sql_active(o.q)
             /\ o.q.alive = q.alive /\ o.q.tr = q.tr /\ o.q.text = q.text
  <2>1. o.q = Prepared(c, kc, d)
    BY <1>5 DEF Outcome
  <2>2. c.alive
    BY <1>1
  <2>3. LET p == Prepared(c, kc, d) IN
        /\ SqlInv(p) /\ fb_is_sql_prepared(p) /\ ~fb_is_sql_active(p)
        /\ p.alive = c.alive /\ p.tr = c.tr /\ p.text = c.text
    BY <1>1, <1>5, <2>2, PreparedKeeps
  <2> QED BY <1>1, <2>1, <2>3
<1> QED BY <1>2, <1>3, <1>4, <1>5, PrepareOutcomes DEF c
\* CheckPrepared prepares what is not prepared yet.
LEMMA Check ==
  ASSUME NEW q, SqlInv(q), q.alive, NEW o \in CheckPrepared(q)
  PROVE  /\ SqlInv(o.q)
         /\ o.q.alive = q.alive /\ o.q.tr = q.tr /\ o.q.text = q.text
         /\ o.ok => fb_is_sql_prepared(o.q)
         /\ o.ok /\ ~fb_is_sql_active(q) => ~fb_is_sql_active(o.q)
<1>1. CASE fb_is_sql_prepared(q)
  <2>1. o.q = q
    BY <1>1 DEF CheckPrepared, Outcome
  <2>2. SqlInv(o.q)
    BY <2>1
  <2> QED BY <1>1, <2>1, <2>2
<1>2. CASE ~fb_is_sql_prepared(q)
  <2>1. o \in fb_prepare_sql(q)
    BY <1>2 DEF CheckPrepared
  <2> QED BY <2>1, Prepare
<1> QED BY <1>1, <1>2

-----------------------------------------------------------------------------

\* A statement ready to be executed: active, with all that its client has set.
Ready(q) ==
    /\ SqlInv(q) /\ q.alive /\ CanRun(q)
    /\ q.srv # None /\ q.sent = None
    /\ fb_is_sql_active(q) /\ fb_is_sql_prepared(q)
    /\ \A k \in DOMAIN q.want : q.want[k] # Unset => q.params[k].val = q.want[k]

\* The fields of a prepared statement are described: it is ready.
LEMMA FieldsDescribed ==
  ASSUME NEW r, SqlInv(r), r.alive, CanRun(r), r.srv # None,
         fb_is_sql_prepared(r), ~fb_is_sql_active(r)
  PROVE  LET d == DescribeFields(r) IN
         Ready(d) /\ d.alive = r.alive /\ d.tr = r.tr /\ d.text = r.text
<1> DEFINE d == DescribeFields(r)
<1>1. Shape(r) /\ PreparedInv(r) /\ ServerInv(r) /\ TablesInv(r) /\ ExecutedInv(r)
  BY DEF SqlInv
<1>2. r.fields = None /\ r.sent = None /\ ~HasOpenCursor(r) /\ r.fieldNames \notin {"live", "dangling"}
  BY <1>1 DEF ExecutedInv, TablesInv, fb_is_sql_active
<1>3. /\ DOMAIN d = DOMAIN NewSql
      /\ d.alive = r.alive /\ d.tr = r.tr /\ d.text = r.text /\ d.hStatement = r.hStatement
      /\ d.srv = r.srv /\ d.leaked = r.leaked /\ d.params = r.params /\ d.names = r.names
      /\ d.fields = "empty" /\ d.mEOF = r.mEOF /\ d.want = r.want /\ d.sent = None
  BY <1>1 DEF Shape, NewSql, DescribeFields, PurgeFields
<1>4. d.fieldNames # "dangling"
  BY <1>1, <1>2 DEF Shape, NewSql, DescribeFields, PurgeFields
<1> HIDE DEF d
<1>5. fb_is_sql_active(d) /\ fb_is_sql_prepared(d)
  BY <1>3, NoneAssumption DEF fb_is_sql_active, fb_is_sql_prepared
<1>6. Shape(d)
  BY <1>1, <1>3 DEF Shape
<1>7. PreparedInv(d)
  BY <1>1, <1>3, <1>5 DEF PreparedInv
<1>8. ServerInv(d)
  BY <1>1, <1>3, <1>5 DEF ServerInv
<1>9. TablesInv(d)
  BY <1>1, <1>3, <1>4, <1>5 DEF TablesInv
<1>10. ExecutedInv(d)
  BY <1>2, <1>3 DEF ExecutedInv, HasOpenCursor
<1>11. CanRun(d)
  BY <1>3 DEF CanRun, TransactionOf
<1>12. \A k \in DOMAIN d.want : d.want[k] # Unset => d.params[k].val = d.want[k]
  BY <1>1, <1>3 DEF PreparedInv
<1> QED BY <1>2, <1>3, <1>5, <1>6, <1>7, <1>8, <1>9, <1>10, <1>11, <1>12 DEF SqlInv, Ready, d

\* What fb_exec_sql and fb_debug_exec_immed do first makes it ready, or fails.
LEMMA Describe ==
  ASSUME NEW q, SqlInv(q), q.alive, NEW o \in ClosedAndDescribed(q)
  PROVE  SqlInv(o.q) /\ o.q.alive = q.alive /\ (o.ok => Ready(o.q))
<1> DEFINE c == IF fb_is_sql_active(q) THEN fb_close_sql(q) ELSE q
<1>1. Shape(q) /\ ~q.leaked
  BY DEF SqlInv, ServerInv
<1>2. SqlInv(c) /\ ~fb_is_sql_active(c) /\ c.alive = q.alive /\ c.tr = q.tr
  <2>1. CASE fb_is_sql_active(q)
    <3>1. c = fb_close_sql(q)
      BY <2>1
    <3> QED BY <1>1, <3>1, Closed, ClosedInv DEF fb_is_sql_active
  <2>2. CASE ~fb_is_sql_active(q)
    BY <2>2
  <2> QED BY <2>1, <2>2
<1> HIDE DEF c
<1> DEFINE after(r) ==
             IF ~r.ok THEN {Outcome(FALSE, fb_close_sql(r.q))}
             ELSE {Outcome(FALSE, fb_close_sql(r.q))} \cup
                  IF r.q.srv = None THEN {} ELSE {Outcome(TRUE, DescribeFields(r.q))}
<1>3. \/ o = Outcome(FALSE, q)
      \/ o = Outcome(FALSE, c)
      \/ CanRun(q) /\ \E r \in CheckPrepared(c) : o \in after(r)
  BY DEF ClosedAndDescribed, DescribedFrom, c
<1> HIDE DEF after
<1>4. CASE o = Outcome(FALSE, q) \/ o = Outcome(FALSE, c)
  <2>1. (o.q = q \/ o.q = c) /\ o.ok = FALSE
    BY <1>4 DEF Outcome
  <2>2. SqlInv(o.q)
    BY <1>2, <2>1
  <2> QED BY <1>2, <2>1, <2>2
<1>5. ASSUME CanRun(q), NEW r \in CheckPrepared(c), o \in after(r)
      PROVE  SqlInv(o.q) /\ o.q.alive = q.alive /\ (o.ok => Ready(o.q))
  <2>1. c.alive
    BY <1>2
  <2>2. /\ SqlInv(r.q) /\ r.q.alive = q.alive /\ r.q.tr = q.tr
        /\ r.ok => fb_is_sql_prepared(r.q) /\ ~fb_is_sql_active(r.q)
    BY <1>2, <2>1, Check
  <2>3. Shape(r.q) /\ ~r.q.leaked
    BY <2>2 DEF SqlInv, ServerInv
  <2>4. \/ o = Outcome(FALSE, fb_close_sql(r.q))
        \/ r.ok /\ r.q.srv # None /\ o = Outcome(TRUE, DescribeFields(r.q))
    BY <1>5 DEF after
  <2>5. CASE o = Outcome(FALSE, fb_close_sql(r.q))
    <3>1. o.q = fb_close_sql(r.q)
      BY <2>5 DEF Outcome
    <3>2. o.ok = FALSE
      BY <2>5 DEF Outcome
    <3>3. SqlInv(o.q)
      BY <2>3, <3>1, ClosedInv
    <3>4. o.q.alive = r.q.alive
      <4>1. fb_close_sql(r.q).alive = r.q.alive
        BY <2>3, Closed
      <4> QED BY <3>1, <4>1
    <3> QED BY <2>2, <3>2, <3>3, <3>4
  <2>6. CASE r.ok /\ r.q.srv # None /\ o = Outcome(TRUE, DescribeFields(r.q))
    <3>1. o.q = DescribeFields(r.q)
      BY <2>6 DEF Outcome
    <3>2. r.q.alive /\ CanRun(r.q)
      BY <1>5, <2>2 DEF CanRun, TransactionOf
    <3>3. LET d == DescribeFields(r.q) IN Ready(d) /\ d.alive = r.q.alive
      BY <2>2, <2>6, <3>2, FieldsDescribed
    <3>4. Ready(o.q) /\ o.q.alive = r.q.alive
      BY <3>1, <3>3
    <3> QED BY <2>2, <3>4 DEF Ready
  <2> QED BY <2>4, <2>5, <2>6
<1> QED BY <1>3, <1>4, <1>5
\* The record after an execution with some cursor.
LEMMA ExecutedKeeps ==
  ASSUME NEW q, Ready(q), NEW cursor
  PROVE  LET e == Executed(q, cursor) IN
         /\ Shape(e) /\ PreparedInv(e) /\ ServerInv(e) /\ TablesInv(e)
         /\ fb_is_sql_active(e) /\ e.alive = q.alive /\ e.tr = q.tr /\ e.mEOF = q.mEOF
         /\ e.srv # None => e.srv.cursor = cursor
         /\ e.sent # None /\ e.sent.text = Scanned[e.text].out
         /\ \A k \in DOMAIN e.want : e.want[k] # Unset => e.sent.values[k] = e.want[k]
<1> DEFINE e == Executed(q, cursor)
           sent == [text |-> q.srv.text, values |-> [k \in DOMAIN q.params |-> q.params[k].val]]
           srv == [q.srv EXCEPT !.cursor = cursor]
<1>1. Shape(q) /\ PreparedInv(q) /\ ServerInv(q) /\ TablesInv(q)
  BY DEF Ready, SqlInv
<1>2. /\ q.srv # None /\ fb_is_sql_active(q) /\ fb_is_sql_prepared(q)
      /\ \A k \in DOMAIN q.want : q.want[k] # Unset => q.params[k].val = q.want[k]
  BY DEF Ready
<1>3. e = [q EXCEPT !.srv = srv, !.sent = sent]
  BY DEF Executed
<1>4. /\ DOMAIN srv = {"text", "kind", "cols", "cursor"}
      /\ srv.text = q.srv.text /\ srv.cursor = cursor
  BY <1>1, <1>2 DEF Shape
<1>5. /\ sent.text = q.srv.text
      /\ \A k \in DOMAIN q.params : sent.values[k] = q.params[k].val
  OBVIOUS
<1>14. sent # None
  <2>1. q.text \in Accepted /\ q.params \in Area(q.text)
    BY <1>1, <1>2 DEF PreparedInv
  <2>2. sent \in Sendable(q.text)
    <3>1. [k \in DOMAIN q.params |-> q.params[k].val]
             \in [DOMAIN Scanned[q.text].marks -> Int \cup {Null, Unset}]
      BY <2>1 DEF Area
    <3>2. q.srv.text = Scanned[q.text].out
      BY <1>1, <1>2 DEF ServerInv
    <3> QED BY <3>1, <3>2 DEF Sendable
  <2> QED BY <2>1, <2>2, NoneAssumption DEF Accepted
<1> HIDE DEF e, sent, srv
<1>6. /\ DOMAIN e = DOMAIN NewSql
      /\ e.alive = q.alive /\ e.tr = q.tr /\ e.text = q.text /\ e.hStatement = q.hStatement
      /\ e.srv = srv /\ e.leaked = q.leaked /\ e.params = q.params /\ e.names = q.names
      /\ e.fields = q.fields /\ e.fieldNames = q.fieldNames /\ e.mEOF = q.mEOF
      /\ e.want = q.want /\ e.sent = sent
  BY <1>1, <1>3 DEF Shape, NewSql
<1>7. fb_is_sql_active(e) /\ fb_is_sql_prepared(e)
  BY <1>2, <1>6 DEF fb_is_sql_active, fb_is_sql_prepared
<1>8. Shape(e)
  BY <1>1, <1>4, <1>6 DEF Shape
<1>9. PreparedInv(e)
  BY <1>1, <1>2, <1>6, <1>7 DEF PreparedInv
<1>10. ServerInv(e)
  BY <1>1, <1>2, <1>4, <1>6, <1>7 DEF ServerInv
<1>11. TablesInv(e)
  BY <1>1, <1>6, <1>7 DEF TablesInv, fb_is_sql_active
<1>12. e.sent.text = Scanned[e.text].out
  BY <1>1, <1>2, <1>5, <1>6 DEF ServerInv
<1>13. \A k \in DOMAIN e.want : e.want[k] # Unset => e.sent.values[k] = e.want[k]
  BY <1>1, <1>2, <1>5, <1>6 DEF PreparedInv
<1> QED BY <1>4, <1>6, <1>7, <1>8, <1>9, <1>10, <1>11, <1>12, <1>13, <1>14 DEF e

\* A select has its cursor in the transaction of the statement.
LEMMA Opened ==
  ASSUME NEW q, Ready(q), handle \subseteq Trans
  PROVE  LET e == Executed(q, TransactionOf(q)) IN SqlInv(e) /\ e.alive = q.alive
<1> DEFINE e == Executed(q, TransactionOf(q))
<1>1. /\ Shape(e) /\ PreparedInv(e) /\ ServerInv(e) /\ TablesInv(e)
      /\ fb_is_sql_active(e) /\ e.alive = q.alive /\ e.tr = q.tr
      /\ e.srv # None => e.srv.cursor = TransactionOf(q)
      /\ e.sent # None /\ e.sent.text = Scanned[e.text].out
      /\ \A k \in DOMAIN e.want : e.want[k] # Unset => e.sent.values[k] = e.want[k]
  BY ExecutedKeeps
<1>2. TransactionOf(q) \in Trans
  BY DEF Ready, CanRun, fb_in_transaction
<1> HIDE DEF e
<1>3. TransactionOf(e) = TransactionOf(q)
  BY <1>1 DEF TransactionOf
<1>4. ExecutedInv(e)
  BY <1>1, <1>2, <1>3, NoneAssumption DEF ExecutedInv, HasOpenCursor
<1> QED BY <1>1, <1>4 DEF SqlInv, e

\* What is no select is at its end at once.
LEMMA Once ==
  ASSUME NEW q, Ready(q)
  PROVE  SqlInv(ExecutedOnce(q)) /\ ExecutedOnce(q).alive = q.alive
<1> DEFINE e == Executed(q, "none")
           r == ExecutedOnce(q)
<1>1. /\ Shape(e) /\ PreparedInv(e) /\ ServerInv(e) /\ TablesInv(e)
      /\ fb_is_sql_active(e) /\ e.alive = q.alive
      /\ e.srv # None => e.srv.cursor = "none"
      /\ e.sent # None /\ e.sent.text = Scanned[e.text].out
      /\ \A k \in DOMAIN e.want : e.want[k] # Unset => e.sent.values[k] = e.want[k]
  BY ExecutedKeeps
<1>2. r = [e EXCEPT !.fields = IF q.srv.cols > 0 THEN "row" ELSE e.fields, !.mEOF = TRUE]
  BY DEF ExecutedOnce
<1> HIDE DEF e, r
<1>3. /\ DOMAIN r = DOMAIN NewSql
      /\ r.alive = e.alive /\ r.tr = e.tr /\ r.text = e.text /\ r.hStatement = e.hStatement
      /\ r.srv = e.srv /\ r.leaked = e.leaked /\ r.params = e.params /\ r.names = e.names
      /\ r.fields \in {"row", e.fields} /\ r.fieldNames = e.fieldNames
      /\ r.want = e.want /\ r.sent = e.sent
  BY <1>1, <1>2 DEF Shape, NewSql
<1>4. r.mEOF = TRUE
  BY <1>1, <1>2 DEF Shape, NewSql
<1>5. fb_is_sql_active(r)
  BY <1>1, <1>3, NoneAssumption DEF fb_is_sql_active
<1>6. Shape(r)
  BY <1>1, <1>3 DEF Shape
<1>7. PreparedInv(r)
  BY <1>1, <1>3, <1>5 DEF PreparedInv, fb_is_sql_prepared
<1>8. ServerInv(r)
  BY <1>1, <1>3 DEF ServerInv, fb_is_sql_prepared
<1>9. TablesInv(r)
  BY <1>1, <1>3, <1>5 DEF TablesInv, fb_is_sql_prepared
<1>10. ExecutedInv(r)
  BY <1>1, <1>3, <1>4, <1>5, NoneAssumption DEF ExecutedInv, HasOpenCursor
<1> QED BY <1>1, <1>3, <1>6, <1>7, <1>8, <1>9, <1>10 DEF SqlInv, r

\* The fields get a row.
LEMMA RowFetched ==
  ASSUME NEW q, SqlInv(q), fb_is_sql_active(q), HasOpenCursor(q)
  PROVE  LET r == [q EXCEPT !.fields = "row"] IN SqlInv(r) /\ r.alive = q.alive
<1> DEFINE r == [q EXCEPT !.fields = "row"]
<1>1. Shape(q) /\ PreparedInv(q) /\ ServerInv(q) /\ TablesInv(q) /\ ExecutedInv(q)
  BY DEF SqlInv
<1>2. /\ DOMAIN r = DOMAIN NewSql
      /\ r.alive = q.alive /\ r.tr = q.tr /\ r.text = q.text /\ r.hStatement = q.hStatement
      /\ r.srv = q.srv /\ r.leaked = q.leaked /\ r.params = q.params /\ r.names = q.names
      /\ r.fields = "row" /\ r.fieldNames = q.fieldNames /\ r.mEOF = q.mEOF
      /\ r.want = q.want /\ r.sent = q.sent
  BY <1>1 DEF Shape, NewSql
<1> HIDE DEF r
<1>3. fb_is_sql_active(r)
  BY <1>2, NoneAssumption DEF fb_is_sql_active
<1>4. Shape(r) /\ PreparedInv(r)
  BY <1>1, <1>2, <1>3 DEF Shape, PreparedInv, fb_is_sql_prepared
<1>5. ServerInv(r) /\ TablesInv(r)
  BY <1>1, <1>2, <1>3 DEF ServerInv, TablesInv, fb_is_sql_prepared
<1>6. ExecutedInv(r)
  BY <1>1, <1>2, <1>3 DEF ExecutedInv, HasOpenCursor, TransactionOf
<1> QED BY <1>2, <1>4, <1>5, <1>6 DEF SqlInv, r

\* The end of the rows is marked.
LEMMA EndMarked ==
  ASSUME NEW q, SqlInv(q)
  PROVE  LET r == [q EXCEPT !.mEOF = TRUE] IN SqlInv(r) /\ r.alive = q.alive
<1> DEFINE r == [q EXCEPT !.mEOF = TRUE]
<1>1. Shape(q) /\ PreparedInv(q) /\ ServerInv(q) /\ TablesInv(q) /\ ExecutedInv(q)
  BY DEF SqlInv
<1>2. /\ DOMAIN r = DOMAIN NewSql
      /\ r.alive = q.alive /\ r.tr = q.tr /\ r.text = q.text /\ r.hStatement = q.hStatement
      /\ r.srv = q.srv /\ r.leaked = q.leaked /\ r.params = q.params /\ r.names = q.names
      /\ r.fields = q.fields /\ r.fieldNames = q.fieldNames
      /\ r.want = q.want /\ r.sent = q.sent
  BY <1>1 DEF Shape, NewSql
<1>3. r.mEOF = TRUE
  BY <1>1 DEF Shape, NewSql
<1> HIDE DEF r
<1>4. Shape(r) /\ PreparedInv(r)
  BY <1>1, <1>2 DEF Shape, PreparedInv, fb_is_sql_prepared, fb_is_sql_active
<1>5. ServerInv(r) /\ TablesInv(r)
  BY <1>1, <1>2 DEF ServerInv, TablesInv, fb_is_sql_prepared, fb_is_sql_active
<1>6. ExecutedInv(r)
  BY <1>1, <1>2, <1>3 DEF ExecutedInv, HasOpenCursor, TransactionOf, fb_is_sql_active
<1> QED BY <1>2, <1>4, <1>5, <1>6 DEF SqlInv, r

\* fb_sql_next
LEMMA SqlNextKeeps ==
  ASSUME NEW q, SqlInv(q), NEW o \in fb_sql_next(q)
  PROVE  SqlInv(o.q) /\ o.q.alive = q.alive
<1> DEFINE row == [q EXCEPT !.fields = "row"]
           end == [q EXCEPT !.mEOF = TRUE]
<1>1. SqlInv(end) /\ end.alive = q.alive
  BY EndMarked
<1>2. fb_is_sql_active(q) /\ HasOpenCursor(q) => SqlInv(row) /\ row.alive = q.alive
  BY RowFetched
<1> HIDE DEF row, end
<1>3. \/ o = Outcome(FALSE, q)
      \/ fb_is_sql_active(q) /\ HasOpenCursor(q) /\ o = Outcome(TRUE, row)
      \/ o = Outcome(TRUE, end)
  BY DEF fb_sql_next, row, end
<1>4. o.q = q \/ (fb_is_sql_active(q) /\ HasOpenCursor(q) /\ o.q = row) \/ o.q = end
  BY <1>3 DEF Outcome
<1>5. SqlInv(o.q)
  BY <1>1, <1>2, <1>4
<1> QED BY <1>1, <1>2, <1>4, <1>5
\* The three ways to execute.
LEMMA RunKeeps ==
  ASSUME NEW q, Ready(q), handle \subseteq Trans, NEW o \in Run(q)
  PROVE  SqlInv(o.q) /\ o.q.alive = q.alive
<1> DEFINE e == Executed(q, TransactionOf(q))
           end == [e EXCEPT !.mEOF = TRUE]
           once == ExecutedOnce(q)
<1>1. SqlInv(e) /\ e.alive = q.alive
  BY Opened
<1>2. SqlInv(once) /\ once.alive = q.alive
  BY Once
<1> HIDE DEF e, once
<1>3. SqlInv(end) /\ end.alive = e.alive
  BY <1>1, EndMarked
<1> HIDE DEF end
<1>4. \/ o \in fb_sql_next(e)
      \/ o = Outcome(FALSE, e)
      \/ o = Outcome(TRUE, end)
      \/ o = Outcome(TRUE, once)
  BY DEF Run, RunByKind, e, end, once
<1>5. CASE o \in fb_sql_next(e)
  BY <1>1, <1>5, SqlNextKeeps
<1>6. CASE o \notin fb_sql_next(e)
  <2>1. o.q = e \/ o.q = end \/ o.q = once
    BY <1>4, <1>6 DEF Outcome
  <2>2. SqlInv(o.q)
    BY <1>1, <1>2, <1>3, <2>1
  <2> QED BY <1>1, <1>2, <1>3, <2>1, <2>2
<1> QED BY <1>5, <1>6

\* fb_exec_sql: also its errors leave a statement in order.
LEMMA ExecKeeps ==
  ASSUME NEW q, SqlInv(q), q.alive, handle \subseteq Trans, NEW o \in fb_exec_sql(q)
  PROVE  SqlInv(o.q) /\ o.q.alive = q.alive
<1> DEFINE after(r) == IF ~r.ok THEN {r}
                       ELSE {Outcome(FALSE, fb_close_sql(r.q)), Outcome(FALSE, r.q)} \cup Run(r.q)
<1>1. \E r \in ClosedAndDescribed(q) : o \in after(r)
  BY DEF fb_exec_sql
<1>2. PICK r \in ClosedAndDescribed(q) : o \in after(r)
  BY <1>1
<1>3. SqlInv(r.q) /\ r.q.alive = q.alive /\ (r.ok => Ready(r.q))
  BY Describe
<1>4. Shape(r.q) /\ ~r.q.leaked
  BY <1>3 DEF SqlInv, ServerInv
<1>5. \/ o = r
      \/ o = Outcome(FALSE, fb_close_sql(r.q))
      \/ o = Outcome(FALSE, r.q)
      \/ r.ok /\ o \in Run(r.q)
  BY <1>2
<1>6. CASE o = r \/ o = Outcome(FALSE, r.q)
  <2>1. o.q = r.q
    BY <1>6 DEF Outcome
  <2>2. SqlInv(o.q)
    BY <1>3, <2>1
  <2> QED BY <1>3, <2>1, <2>2
<1>7. CASE o = Outcome(FALSE, fb_close_sql(r.q))
  <2>1. o.q = fb_close_sql(r.q)
    BY <1>7 DEF Outcome
  <2>2. SqlInv(o.q)
    BY <1>4, <2>1, ClosedInv
  <2>3. fb_close_sql(r.q).alive = r.q.alive
    BY <1>4, Closed
  <2> QED BY <1>3, <2>1, <2>2, <2>3
<1>8. CASE r.ok /\ o \in Run(r.q)
  BY <1>3, <1>8, RunKeeps
<1> QED BY <1>5, <1>6, <1>7, <1>8

\* fb_debug_exec_immed
LEMMA DebugKeeps ==
  ASSUME NEW q, SqlInv(q), q.alive, NEW o \in fb_debug_exec_immed(q)
  PROVE  SqlInv(o.q) /\ o.q.alive = q.alive
<1> DEFINE after(r) == IF ~r.ok THEN {r} ELSE {Outcome(FALSE, r.q), Outcome(TRUE, ExecutedOnce(r.q))}
<1>1. \E r \in ClosedAndDescribed(q) : o \in after(r)
  BY DEF fb_debug_exec_immed
<1>2. PICK r \in ClosedAndDescribed(q) : o \in after(r)
  BY <1>1
<1>3. SqlInv(r.q) /\ r.q.alive = q.alive /\ (r.ok => Ready(r.q))
  BY Describe
<1>4. o = r \/ o = Outcome(FALSE, r.q) \/ (r.ok /\ o = Outcome(TRUE, ExecutedOnce(r.q)))
  BY <1>2
<1>5. CASE o = r \/ o = Outcome(FALSE, r.q)
  <2>1. o.q = r.q
    BY <1>5 DEF Outcome
  <2>2. SqlInv(o.q)
    BY <1>3, <2>1
  <2> QED BY <1>3, <2>1, <2>2
<1>6. CASE r.ok /\ o = Outcome(TRUE, ExecutedOnce(r.q))
  <2>1. o.q = ExecutedOnce(r.q)
    BY <1>6 DEF Outcome
  <2>2. SqlInv(ExecutedOnce(r.q)) /\ ExecutedOnce(r.q).alive = r.q.alive
    BY <1>3, <1>6, Once
  <2>3. SqlInv(o.q)
    BY <2>1, <2>2
  <2> QED BY <1>3, <2>1, <2>2, <2>3
<1> QED BY <1>4, <1>5, <1>6

-----------------------------------------------------------------------------

\* A setter writes the cells it finds: a cell it is about holds the value
\* afterwards if the client may rely on it.
LEMMA SetValueKeeps ==
  ASSUME NEW q, SqlInv(q), fb_is_sql_prepared(q),
         NEW how \in Setters, NEW v \in Given(how), NEW found, NEW about, about \subseteq found
  PROVE  LET r == SetValue(q, found, about, how, v).q IN SqlInv(r) /\ r.alive = q.alive
<1> DEFINE refused == {k \in found : ~Takes(q.params[k], how)}
           touched == {k \in found : \A r \in refused : k > r}
           fits(k) == found # {} /\ refused = {} /\ k \in about /\ Stored(q.params[k], v) = v
           params == [k \in DOMAIN q.params |->
                         IF k \in touched THEN [q.params[k] EXCEPT !.val = Stored(q.params[k], v)]
                         ELSE q.params[k]]
           want == [k \in DOMAIN q.want |->
                         IF fb_is_sql_active(q) THEN q.want[k] ELSE IF fits(k) THEN v
                         ELSE IF k \in touched THEN Unset ELSE q.want[k]]
           r == SetValue(q, found, about, how, v).q
<1>1. Shape(q) /\ PreparedInv(q) /\ ServerInv(q) /\ TablesInv(q) /\ ExecutedInv(q) /\ q.params # None
  BY DEF SqlInv, fb_is_sql_prepared
<1>2. r = [q EXCEPT !.params = params, !.want = want]
  BY DEF SetValue, Outcome
<1>3. \A k : fits(k) => k \in touched /\ Stored(q.params[k], v) = v
  OBVIOUS
<1> HIDE DEF touched, fits
<1>4. q.params \in Area(q.text) /\ q.text \in Texts /\ DOMAIN q.want = DOMAIN q.params
  BY <1>1 DEF PreparedInv, fb_is_sql_prepared, Accepted
<1>5. params \in Area(q.text) /\ DOMAIN params = DOMAIN q.params
  <2> DEFINE Cells == [var : VarTypes, val : Int \cup {Null, Unset}]
  <2>1. \A k \in DOMAIN q.params : q.params[k] \in Cells
    BY <1>4 DEF Area
  <2>2. \A k \in DOMAIN q.params : Stored(q.params[k], v) \in Int \cup {Null, Unset}
    BY StoredType
  <2>3. \A k \in DOMAIN q.params : [q.params[k] EXCEPT !.val = Stored(q.params[k], v)] \in Cells
    BY <2>1, <2>2
  <2>4. \A k \in DOMAIN q.params : params[k] \in Cells
    BY <2>1, <2>3
  <2>5. DOMAIN q.params = DOMAIN Scanned[q.text].marks
    BY <1>4 DEF Area
  <2> QED BY <2>4, <2>5 DEF Area
<1>6. params # None
  BY <1>4, <1>5, NoneAssumption
<1>7. /\ DOMAIN want = DOMAIN q.want
      /\ fb_is_sql_active(q) => \A k \in DOMAIN want : want[k] = q.want[k]
  OBVIOUS
<1>8. ASSUME ~fb_is_sql_active(q), NEW k \in DOMAIN want, want[k] # Unset
      PROVE  params[k].val = want[k]
  <2>1. k \in DOMAIN q.params /\ k \in DOMAIN q.want
    BY <1>4, <1>7, <1>8
  <2>2. DOMAIN q.params[k] = {"var", "val"}
    BY <1>4, <2>1 DEF Area
  <2>3. CASE fits(k)
    <3>1. want[k] = v /\ k \in touched /\ Stored(q.params[k], v) = v
      BY <1>3, <1>8, <2>1, <2>3
    <3> QED BY <2>1, <2>2, <3>1
  <2>4. CASE ~fits(k)
    <3>1. want[k] = q.want[k] /\ k \notin touched
      BY <1>8, <2>1, <2>4
    <3>2. q.params[k].val = q.want[k]
      BY <1>1, <1>8, <2>1, <3>1 DEF PreparedInv, fb_is_sql_prepared
    <3> QED BY <2>1, <3>1, <3>2
  <2> QED BY <2>3, <2>4
<1> HIDE DEF params, want, r
<1>9. /\ DOMAIN r = DOMAIN NewSql
      /\ r.alive = q.alive /\ r.tr = q.tr /\ r.text = q.text /\ r.hStatement = q.hStatement
      /\ r.srv = q.srv /\ r.leaked = q.leaked /\ r.params = params /\ r.names = q.names
      /\ r.fields = q.fields /\ r.fieldNames = q.fieldNames /\ r.mEOF = q.mEOF
      /\ r.want = want /\ r.sent = q.sent
  BY <1>1, <1>2 DEF Shape, NewSql
<1>10. /\ fb_is_sql_prepared(r)
       /\ fb_is_sql_active(r) <=> fb_is_sql_active(q)
  BY <1>6, <1>9 DEF fb_is_sql_prepared, fb_is_sql_active
<1>11. Shape(r)
  BY <1>1, <1>9 DEF Shape
<1>12. PreparedInv(r)
  BY <1>1, <1>4, <1>5, <1>7, <1>8, <1>9, <1>10 DEF PreparedInv, fb_is_sql_prepared
<1>13. ServerInv(r) /\ TablesInv(r)
  BY <1>1, <1>9, <1>10 DEF ServerInv, TablesInv
<1>14. ExecutedInv(r)
  <2>1. r.sent # None => \A k \in DOMAIN r.want : r.want[k] # Unset => r.sent.values[k] = r.want[k]
    BY <1>1, <1>7, <1>9 DEF ExecutedInv
  <2> QED BY <1>1, <1>9, <1>10, <2>1 DEF ExecutedInv, HasOpenCursor, TransactionOf
<1> QED BY <1>9, <1>11, <1>12, <1>13, <1>14 DEF SqlInv, r
\* A setter by position.
LEMMA SetParamKeeps ==
  ASSUME NEW q, SqlInv(q), q.alive, NEW k, NEW how \in Setters, NEW v \in Given(how),
         NEW o \in fb_set_param(q, k, how, v)
  PROVE  SqlInv(o.q)
<1>1. PICK c \in CheckPrepared(q) :
         o = IF HasParam(c, k) THEN SetValue(c.q, {k}, {k}, how, v) ELSE Outcome(FALSE, c.q)
  BY DEF fb_set_param
<1>2. SqlInv(c.q) /\ (c.ok => fb_is_sql_prepared(c.q))
  BY Check
<1>3. CASE HasParam(c, k)
  <2>1. fb_is_sql_prepared(c.q) /\ o = SetValue(c.q, {k}, {k}, how, v)
    BY <1>1, <1>2, <1>3 DEF HasParam
  <2>2. SqlInv(SetValue(c.q, {k}, {k}, how, v).q)
    BY <1>2, <2>1, SetValueKeeps
  <2> QED BY <2>1, <2>2
<1>4. CASE ~HasParam(c, k)
  <2>1. o.q = c.q
    BY <1>1, <1>4 DEF Outcome
  <2> QED BY <1>2, <2>1
<1> QED BY <1>3, <1>4

\* The nodes of a name are the occurrences of the name in the text.
LEMMA NodesAreOccurrences ==
  ASSUME NEW q, SqlInv(q), fb_is_sql_prepared(q), NEW name, name # <<>>
  PROVE  Occurrences(q.text, name) \subseteq {n.index : n \in {m \in q.names : m.name = name}}
<1> DEFINE marks == Scanned[q.text].marks
<1>1. q.names = ParamNames(marks)
  BY DEF SqlInv, PreparedInv
<1> SUFFICES ASSUME NEW k \in DOMAIN marks, marks[k].name = name
             PROVE  \E n \in q.names : n.name = name /\ n.index = k
  BY DEF Occurrences
<1>2. [name |-> marks[k].name, index |-> k, live |-> TRUE] \in ParamNames(marks)
  BY DEF ParamNames
<1> QED BY <1>1, <1>2

\* A setter by name: all occurrences get the value.
LEMMA SetByNameKeeps ==
  ASSUME NEW q, SqlInv(q), q.alive, NEW name, name # <<>>,
         NEW how \in Setters, NEW v \in Given(how), NEW o \in fb_set_pbn(q, name, how, v)
  PROVE  SqlInv(o.q)
<1> DEFINE found(r) == {n.index : n \in {m \in r.names : m.name = name}}
           about == Occurrences(q.text, name)
<1>1. PICK c \in CheckPrepared(q) : o = IF ~c.ok THEN c ELSE SetValue(c.q, found(c.q), about, how, v)
  BY DEF fb_set_pbn, SetNodes
<1>2. SqlInv(c.q) /\ c.q.text = q.text /\ (c.ok => fb_is_sql_prepared(c.q))
  BY Check
<1>3. CASE c.ok
  <2>1. fb_is_sql_prepared(c.q) /\ about \subseteq found(c.q)
    <3>1. Occurrences(c.q.text, name) \subseteq found(c.q)
      BY <1>2, <1>3, NodesAreOccurrences
    <3> QED BY <1>1, <1>2, <1>3, <3>1
  <2> HIDE DEF found, about
  <2>2. SqlInv(SetValue(c.q, found(c.q), about, how, v).q)
    BY <1>2, <2>1, SetValueKeeps
  <2> QED BY <1>1, <1>3, <2>2
<1>4. CASE ~c.ok
  <2>1. o.q = c.q
    BY <1>1, <1>4
  <2> QED BY <1>2, <2>1
<1> QED BY <1>3, <1>4

\* A new text belongs to a bare statement.
LEMMA NewTextKeeps ==
  ASSUME NEW q, SqlInv(q), NEW T, NEW o \in fb_sql_set_text(q, T)
  PROVE  SqlInv(o.q)
<1> DEFINE c == Reset(q)
           r == [c EXCEPT !.text = T]
<1>1. SqlInv(c) /\ c.srv = None /\ c.params = None /\ c.fields = None
  BY ResetIsBare
<1>2. o.q = r
  BY DEF fb_sql_set_text, Reset, Outcome
<1> HIDE DEF c
<1>3. Shape(c) /\ ServerInv(c) /\ TablesInv(c) /\ ExecutedInv(c)
  BY <1>1 DEF SqlInv
<1>4. /\ DOMAIN r = DOMAIN NewSql
      /\ r.srv = None /\ r.params = None /\ r.fields = None
      /\ r.leaked = c.leaked /\ r.names = c.names /\ r.fieldNames = c.fieldNames
      /\ r.want = c.want /\ r.sent = c.sent
  BY <1>1, <1>3 DEF Shape, NewSql
<1> HIDE DEF r
<1>5. SqlInv(r)
  BY <1>1, <1>3, <1>4 DEF SqlInv, Shape, PreparedInv, ServerInv, TablesInv, ExecutedInv, HasOpenCursor,
                          fb_is_sql_prepared, fb_is_sql_active
<1> QED BY <1>2, <1>5

\* The transaction changes only where no cursor can be open.
LEMMA SetTransactionKeeps ==
  ASSUME NEW q, SqlInv(q), NEW t, NEW o \in fb_sql_set_transaction(q, t)
  PROVE  SqlInv(o.q)
<1> DEFINE r == [q EXCEPT !.tr = t]
<1>1. Shape(q) /\ PreparedInv(q) /\ ServerInv(q) /\ TablesInv(q) /\ ExecutedInv(q)
  BY DEF SqlInv
<1>2. /\ DOMAIN r = DOMAIN NewSql
      /\ r.alive = q.alive /\ r.text = q.text /\ r.hStatement = q.hStatement
      /\ r.srv = q.srv /\ r.leaked = q.leaked /\ r.params = q.params /\ r.names = q.names
      /\ r.fields = q.fields /\ r.fieldNames = q.fieldNames /\ r.mEOF = q.mEOF
      /\ r.want = q.want /\ r.sent = q.sent
  BY <1>1 DEF Shape, NewSql
<1>3. o.q = q \/ (~fb_is_sql_active(q) /\ o.q = r)
  BY DEF fb_sql_set_transaction, Outcome
<1> HIDE DEF r
<1>4. ASSUME ~fb_is_sql_active(q) PROVE SqlInv(r)
  <2>1. Shape(r) /\ PreparedInv(r)
    BY <1>1, <1>2 DEF Shape, PreparedInv, fb_is_sql_prepared, fb_is_sql_active
  <2>2. ServerInv(r) /\ TablesInv(r)
    BY <1>1, <1>2 DEF ServerInv, TablesInv, fb_is_sql_prepared, fb_is_sql_active
  <2>3. r.sent = None /\ ~HasOpenCursor(r) /\ r.fields # "row"
    BY <1>1, <1>2, <1>4, NoneAssumption DEF ExecutedInv, HasOpenCursor, fb_is_sql_active
  <2> QED BY <2>1, <2>2, <2>3 DEF SqlInv, ExecutedInv
<1> QED BY <1>3, <1>4
-----------------------------------------------------------------------------
(* The actions *)

\* The invariant of a record is about the record and the default transaction.
LEMMA SameDefault ==
  ASSUME NEW s, NEW q, sql'[s] = q, SqlInv(q),
         default' = default \/ default \notin Trans \/ q.srv = None
  PROVE  SqlInv(sql[s])'
<1>1. (Shape(sql[s]) /\ PreparedInv(sql[s]) /\ ServerInv(sql[s]) /\ TablesInv(sql[s]))'
  BY DEF SqlInv, Shape, PreparedInv, ServerInv, TablesInv, fb_is_sql_prepared, fb_is_sql_active
<1>2. ExecutedInv(sql[s])'
  BY DEF SqlInv, ExecutedInv, HasOpenCursor, TransactionOf, fb_is_sql_active
<1> QED BY <1>1, <1>2 DEF SqlInv

\* A call whose outcomes are in order keeps the invariant.
LEMMA CallKeeps ==
  ASSUME StatementInv, NEW s \in Stmts, NEW outcomes, Call(s, outcomes),
         \A o \in outcomes : SqlInv(o.q)
  PROVE  StatementInv'
<1>1. PICK o \in outcomes : sql' = [sql EXCEPT ![s] = o.q]
  BY DEF Call
<1>2. UNCHANGED <<default, alive, handle>>
  BY DEF Call, transVars
<1>3. \A u \in Stmts : SqlInv(sql[u])'
  <2> SUFFICES ASSUME NEW u \in Stmts PROVE SqlInv(sql[u])'
    OBVIOUS
  <2>1. PICK q : q = IF u = s THEN o.q ELSE sql[u]
    OBVIOUS
  <2>2. sql'[u] = q /\ SqlInv(q)
    BY <1>1, <2>1 DEF StatementInv
  <2> QED BY <1>2, <2>2, SameDefault
<1> QED BY <1>1, <1>2, <1>3 DEF StatementInv
\* The client's calls on a statement.
LEMMA CallsKeep ==
  ASSUME StatementInv, NEW s \in Stmts,
         \/ SetText(s) \/ SetTransaction(s) \/ PrepareSql(s) \/ CloseSql(s) \/ ExecSql(s)
         \/ DebugExec(s) \/ SqlNext(s) \/ SetParam(s) \/ SetParamByName(s)
  PROVE  StatementInv'
<1>1. SqlInv(sql[s]) /\ handle \subseteq Trans
  BY DEF StatementInv
<1>2. Shape(sql[s]) /\ ~sql[s].leaked
  BY <1>1 DEF SqlInv, ServerInv
<1>3. CASE SetText(s)
  <2>1. PICK T \in Texts \cup {<<>>} : Call(s, fb_sql_set_text(sql[s], T))
    BY <1>3 DEF SetText
  <2>2. \A o \in fb_sql_set_text(sql[s], T) : SqlInv(o.q)
    BY <1>1, NewTextKeeps
  <2> QED BY <2>1, <2>2, CallKeeps
<1>4. CASE SetTransaction(s)
  <2>1. PICK t \in alive \cup {None} : Call(s, fb_sql_set_transaction(sql[s], t))
    BY <1>4 DEF SetTransaction
  <2>2. \A o \in fb_sql_set_transaction(sql[s], t) : SqlInv(o.q)
    BY <1>1, SetTransactionKeeps
  <2> QED BY <2>1, <2>2, CallKeeps
<1>5. CASE PrepareSql(s)
  <2>1. sql[s].alive /\ Call(s, fb_prepare_sql(sql[s]))
    BY <1>5 DEF PrepareSql, Call
  <2>2. \A o \in fb_prepare_sql(sql[s]) : SqlInv(o.q)
    BY <1>1, <2>1, Prepare
  <2> QED BY <2>1, <2>2, CallKeeps
<1>6. CASE CloseSql(s)
  <2>1. Call(s, {Outcome(TRUE, fb_close_sql(sql[s]))})
    BY <1>6 DEF CloseSql
  <2>2. \A o \in {Outcome(TRUE, fb_close_sql(sql[s]))} : SqlInv(o.q)
    <3>1. SqlInv(fb_close_sql(sql[s]))
      BY <1>2, ClosedInv
    <3>2. Outcome(TRUE, fb_close_sql(sql[s])).q = fb_close_sql(sql[s])
      BY DEF Outcome
    <3> QED BY <3>1, <3>2
  <2> QED BY <2>1, <2>2, CallKeeps
<1>7. CASE ExecSql(s)
  <2>1. sql[s].alive /\ Call(s, fb_exec_sql(sql[s]))
    BY <1>7 DEF ExecSql, Call
  <2>2. \A o \in fb_exec_sql(sql[s]) : SqlInv(o.q)
    BY <1>1, <2>1, ExecKeeps
  <2> QED BY <2>1, <2>2, CallKeeps
<1>8. CASE DebugExec(s)
  <2>1. sql[s].alive /\ Call(s, fb_debug_exec_immed(sql[s]))
    BY <1>8 DEF DebugExec, Call
  <2>2. \A o \in fb_debug_exec_immed(sql[s]) : SqlInv(o.q)
    BY <1>1, <2>1, DebugKeeps
  <2> QED BY <2>1, <2>2, CallKeeps
<1>9. CASE SqlNext(s)
  <2>1. Call(s, fb_sql_next(sql[s]))
    BY <1>9 DEF SqlNext
  <2>2. \A o \in fb_sql_next(sql[s]) : SqlInv(o.q)
    BY <1>1, SqlNextKeeps
  <2> QED BY <2>1, <2>2, CallKeeps
<1>10. CASE SetParam(s)
  <2>1. PICK k \in DOMAIN Scanned[sql[s].text].marks, how \in Setters \ {"bigint"} :
           \E v \in Given(how) : Call(s, fb_set_param(sql[s], k, how, v))
    BY <1>10 DEF SetParam
  <2>2. PICK v \in Given(how) : Call(s, fb_set_param(sql[s], k, how, v))
    BY <2>1
  <2>3. sql[s].alive
    BY <2>2 DEF Call
  <2>4. \A o \in fb_set_param(sql[s], k, how, v) : SqlInv(o.q)
    BY <1>1, <2>1, <2>2, <2>3, SetParamKeeps
  <2> QED BY <2>2, <2>4, CallKeeps
<1>11. CASE SetParamByName(s)
  <2>1. PICK name \in {m.name : m \in ParamNames(Scanned[sql[s].text].marks)}, how \in Setters :
           \E v \in Given(how) : Call(s, fb_set_pbn(sql[s], name, how, v))
    BY <1>11 DEF SetParamByName
  <2>2. PICK v \in Given(how) : Call(s, fb_set_pbn(sql[s], name, how, v))
    BY <2>1
  <2>3. sql[s].alive
    BY <2>2 DEF Call
  <2>4. name # <<>>
    BY <2>1 DEF ParamNames
  <2>5. \A o \in fb_set_pbn(sql[s], name, how, v) : SqlInv(o.q)
    BY <1>1, <2>1, <2>2, <2>3, <2>4, SetByNameKeeps
  <2> QED BY <2>2, <2>5, CallKeeps
<1> QED BY <1>3, <1>4, <1>5, <1>6, <1>7, <1>8, <1>9, <1>10, <1>11

\* New and freed statements are bare and have nothing in the server.
LEMMA LifeKeeps ==
  ASSUME StatementInv, NEW s \in Stmts, CreateSql(s) \/ FreeSql(s)
  PROVE  StatementInv'
<1>1. UNCHANGED <<default, alive, handle>>
  BY DEF CreateSql, FreeSql, transVars
<1>2. PICK q : sql' = [sql EXCEPT ![s] = q] /\ q \in {[NewSql EXCEPT !.alive = TRUE], [NewSql EXCEPT !.srv = None]}
  <2>1. CASE CreateSql(s)
    BY <2>1 DEF CreateSql
  <2>2. CASE FreeSql(s)
    <3>1. fb_close_sql(sql[s]).srv = None
      BY Closed DEF StatementInv, SqlInv
    <3> QED BY <2>2, <3>1 DEF FreeSql
  <2> QED BY <2>1, <2>2
<1>3. SqlInv(q)
  <2>1. /\ DOMAIN q = DOMAIN NewSql /\ q.srv = None /\ q.leaked = FALSE /\ q.params = None
        /\ q.names = {} /\ q.fields = None /\ q.fieldNames = "none" /\ q.want = <<>> /\ q.sent = None
    BY <1>2 DEF NewSql
  <2> QED BY <2>1, NoneAssumption
          DEF SqlInv, Shape, PreparedInv, ServerInv, TablesInv, ExecutedInv, HasOpenCursor,
                     fb_is_sql_prepared, fb_is_sql_active
<1>4. \A u \in Stmts : SqlInv(sql[u])'
  <2> SUFFICES ASSUME NEW u \in Stmts PROVE SqlInv(sql[u])'
    OBVIOUS
  <2>1. PICK r : r = IF u = s THEN q ELSE sql[u]
    OBVIOUS
  <2>2. sql'[u] = r /\ SqlInv(r)
    BY <1>2, <1>3, <2>1 DEF StatementInv
  <2> QED BY <1>1, <2>2, SameDefault
<1> QED BY <1>1, <1>2, <1>4 DEF StatementInv

-----------------------------------------------------------------------------

\* The end of its transaction takes a statement's cursor away.
LEMMA CursorEnded ==
  ASSUME NEW q, SqlInv(q), q.srv # None, q.srv.cursor \in Trans, NEW cursor \in {"ended", "orphan"}
  PROVE  SqlInv([q EXCEPT !.srv.cursor = cursor])
<1> DEFINE r == [q EXCEPT !.srv.cursor = cursor]
           srv == [q.srv EXCEPT !.cursor = cursor]
<1>1. Shape(q) /\ PreparedInv(q) /\ ServerInv(q) /\ TablesInv(q) /\ ExecutedInv(q)
  BY DEF SqlInv
<1>2. fb_is_sql_active(q)
  BY <1>1 DEF ExecutedInv, HasOpenCursor
<1>3. r = [q EXCEPT !.srv = srv]
  OBVIOUS
<1>4. /\ DOMAIN srv = {"text", "kind", "cols", "cursor"}
      /\ srv.text = q.srv.text /\ srv.cursor = cursor
  BY <1>1 DEF Shape
<1> HIDE DEF r, srv
<1>5. /\ DOMAIN r = DOMAIN NewSql
      /\ r.alive = q.alive /\ r.tr = q.tr /\ r.text = q.text /\ r.hStatement = q.hStatement
      /\ r.srv = srv /\ r.leaked = q.leaked /\ r.params = q.params /\ r.names = q.names
      /\ r.fields = q.fields /\ r.fieldNames = q.fieldNames /\ r.mEOF = q.mEOF
      /\ r.want = q.want /\ r.sent = q.sent
  BY <1>1, <1>3 DEF Shape, NewSql
<1>6. Shape(r) /\ PreparedInv(r)
  BY <1>1, <1>4, <1>5 DEF Shape, PreparedInv, fb_is_sql_prepared, fb_is_sql_active
<1>7. ServerInv(r) /\ TablesInv(r)
  BY <1>1, <1>4, <1>5 DEF ServerInv, TablesInv, fb_is_sql_prepared, fb_is_sql_active
<1>8. ExecutedInv(r)
  BY <1>1, <1>2, <1>4, <1>5, NoneAssumption DEF ExecutedInv, HasOpenCursor, fb_is_sql_active
<1> QED BY <1>6, <1>7, <1>8 DEF SqlInv, r

\* A statement of a connection that is gone has nothing in the server.
LEMMA ServerGone ==
  ASSUME NEW q, SqlInv(q)
  PROVE  LET r == [q EXCEPT !.srv = None] IN SqlInv(r) /\ r.srv = None
<1> DEFINE r == [q EXCEPT !.srv = None]
<1>1. Shape(q) /\ PreparedInv(q) /\ ServerInv(q) /\ TablesInv(q) /\ ExecutedInv(q)
  BY DEF SqlInv
<1>2. /\ DOMAIN r = DOMAIN NewSql
      /\ r.alive = q.alive /\ r.tr = q.tr /\ r.text = q.text /\ r.hStatement = q.hStatement
      /\ r.srv = None /\ r.leaked = q.leaked /\ r.params = q.params /\ r.names = q.names
      /\ r.fields = q.fields /\ r.fieldNames = q.fieldNames /\ r.mEOF = q.mEOF
      /\ r.want = q.want /\ r.sent = q.sent
  BY <1>1 DEF Shape, NewSql
<1> HIDE DEF r
<1>3. Shape(r) /\ PreparedInv(r)
  BY <1>1, <1>2 DEF Shape, PreparedInv, fb_is_sql_prepared, fb_is_sql_active
<1>4. ServerInv(r) /\ TablesInv(r)
  BY <1>1, <1>2 DEF ServerInv, TablesInv, fb_is_sql_prepared, fb_is_sql_active
<1>5. ExecutedInv(r)
  BY <1>1, <1>2 DEF ExecutedInv, HasOpenCursor, fb_is_sql_active
<1> QED BY <1>2, <1>3, <1>4, <1>5 DEF SqlInv, r

\* The end of a transaction.
LEMMA EndKeeps ==
  ASSUME StatementInv, UNCHANGED default, NEW t \in Trans, Release(t)
  PROVE  DOMAIN sql' = Stmts /\ \A s \in Stmts : SqlInv(sql[s])'
<1>1. CASE t \in handle
  <2>1. PICK cursor \in {"ended", "orphan"} : sql' = CursorsAfter(t, cursor)
    BY <1>1 DEF Release, EndHandle
  <2>2. ASSUME NEW s \in Stmts PROVE SqlInv(sql[s])'
    <3>1. SqlInv(sql[s])
      BY DEF StatementInv
    <3>2. PICK q : q = IF sql[s].srv # None /\ sql[s].srv.cursor = t
                       THEN [sql[s] EXCEPT !.srv.cursor = cursor] ELSE sql[s]
      OBVIOUS
    <3>3. SqlInv(q)
      <4>1. CASE sql[s].srv # None /\ sql[s].srv.cursor = t
        <5>1. SqlInv([sql[s] EXCEPT !.srv.cursor = cursor])
          BY <3>1, <4>1, CursorEnded
        <5> QED BY <3>2, <4>1, <5>1
      <4>2. CASE ~(sql[s].srv # None /\ sql[s].srv.cursor = t)
        <5>1. q = sql[s]
          BY <3>2, <4>2
        <5> QED BY <3>1, <5>1
      <4> QED BY <4>1, <4>2
    <3>4. sql'[s] = q
      BY <2>1, <3>2 DEF CursorsAfter
    <3> QED BY <3>3, <3>4, SameDefault
  <2>3. DOMAIN sql' = Stmts
    BY <2>1 DEF CursorsAfter
  <2> QED BY <2>2, <2>3
<1>2. CASE t \notin handle
  <2>1. UNCHANGED sql
    BY <1>2 DEF Release
  <2>2. ASSUME NEW s \in Stmts PROVE SqlInv(sql[s])'
    <3>1. PICK q : q = sql[s]
      OBVIOUS
    <3>2. sql'[s] = q /\ SqlInv(q)
      BY <2>1, <3>1 DEF StatementInv
    <3> QED BY <3>2, SameDefault
  <2> QED BY <2>1, <2>2 DEF StatementInv
<1> QED BY <1>1, <1>2

\* Transactions begin and end.
LEMMA TransactionsKeep ==
  ASSUME StatementInv, NEW t \in Trans,
         \/ CreateTransaction(t) \/ StartTransaction(t) \/ EndTransaction(t)
         \/ FreeTransaction(t) \/ SetDefault(t)
  PROVE  StatementInv'
<1>1. /\ default \in alive \cup {None}
      /\ handle \subseteq alive /\ alive \subseteq Trans
      /\ DOMAIN sql = Stmts
  BY DEF StatementInv
<1>2. CASE EndTransaction(t) \/ FreeTransaction(t)
  <2>1. UNCHANGED default /\ Release(t)
    BY <1>2 DEF EndTransaction, FreeTransaction, Release
  <2>2. DOMAIN sql' = Stmts /\ \A s \in Stmts : SqlInv(sql[s])'
    BY <2>1, EndKeeps
  <2>3. (default \in alive \cup {None} /\ handle \subseteq alive /\ alive \subseteq Trans)'
    BY <1>1, <1>2 DEF EndTransaction, FreeTransaction, Release, EndHandle
  <2> QED BY <1>1, <2>1, <2>2, <2>3 DEF StatementInv
<1>3. CASE CreateTransaction(t) \/ StartTransaction(t) \/ SetDefault(t)
  <2>1. UNCHANGED sql /\ (default' = default \/ default \notin Trans)
    BY <1>3, FbAssumption DEF CreateTransaction, StartTransaction, SetDefault
  <2>2. \A s \in Stmts : SqlInv(sql[s])'
    <3> SUFFICES ASSUME NEW s \in Stmts PROVE SqlInv(sql[s])'
      OBVIOUS
    <3>1. PICK q : q = sql[s]
      OBVIOUS
    <3>2. sql'[s] = q /\ SqlInv(q)
      BY <2>1, <3>1 DEF StatementInv
    <3> QED BY <2>1, <3>2, SameDefault
  <2>3. (default \in alive \cup {None} /\ handle \subseteq alive /\ alive \subseteq Trans)'
    BY <1>1, <1>3 DEF CreateTransaction, StartTransaction, SetDefault
  <2> QED BY <1>1, <2>1, <2>2, <2>3 DEF StatementInv
<1> QED BY <1>2, <1>3

\* The connection ends when its transactions have.
LEMMA DatabaseKeeps ==
  ASSUME StatementInv, Connect \/ Disconnect \/ FreeDatabase
  PROVE  StatementInv'
<1>1. /\ default \in alive \cup {None}
      /\ handle \subseteq alive /\ alive \subseteq Trans
      /\ DOMAIN sql = Stmts
  BY DEF StatementInv
<1>2. CASE Connect
  <2>1. UNCHANGED <<sql, default, alive, handle>>
    BY <1>2 DEF Connect, transVars
  <2>2. \A s \in Stmts : SqlInv(sql[s])'
    <3> SUFFICES ASSUME NEW s \in Stmts PROVE SqlInv(sql[s])'
      OBVIOUS
    <3>1. PICK q : q = sql[s]
      OBVIOUS
    <3>2. sql'[s] = q /\ SqlInv(q)
      BY <2>1, <3>1 DEF StatementInv
    <3> QED BY <2>1, <3>2, SameDefault
  <2> QED BY <1>1, <2>1, <2>2 DEF StatementInv
<1>3. CASE Disconnect \/ FreeDatabase
  <2>1. Detach
    BY <1>3 DEF Disconnect, FreeDatabase
  <2>2. \A s \in Stmts : SqlInv(sql[s])'
    <3> SUFFICES ASSUME NEW s \in Stmts PROVE SqlInv(sql[s])'
      OBVIOUS
    <3>1. PICK q : q = [sql[s] EXCEPT !.srv = None]
      OBVIOUS
    <3>2. LET r == [sql[s] EXCEPT !.srv = None] IN SqlInv(r) /\ r.srv = None
      BY ServerGone DEF StatementInv
    <3>3. sql'[s] = q /\ SqlInv(q) /\ q.srv = None
      BY <2>1, <3>1, <3>2 DEF Detach
    <3> QED BY <3>3, SameDefault
  <2>3. DOMAIN sql' = Stmts
    BY <1>1, <2>1 DEF Detach
  <2>4. (default \in alive \cup {None} /\ handle \subseteq alive /\ alive \subseteq Trans)'
    BY <1>1, <1>3 DEF Disconnect, FreeDatabase
  <2> QED BY <2>2, <2>3, <2>4 DEF StatementInv
<1> QED BY <1>2, <1>3
-----------------------------------------------------------------------------

\* StatementInv is inductive and holds in every state.
THEOREM StatementInvHolds == Spec => []StatementInv
<1>1. Init => StatementInv
  <2> SUFFICES ASSUME Init PROVE StatementInv
    OBVIOUS
  <2>1. SqlInv(NewSql)
    <3>1. /\ NewSql.srv = None /\ NewSql.leaked = FALSE /\ NewSql.params = None
          /\ NewSql.names = {} /\ NewSql.fields = None /\ NewSql.fieldNames = "none"
          /\ NewSql.want = <<>> /\ NewSql.sent = None
      BY DEF NewSql
    <3> QED BY <3>1, NoneAssumption
            DEF SqlInv, Shape, PreparedInv, ServerInv, TablesInv, ExecutedInv, HasOpenCursor,
                       fb_is_sql_prepared, fb_is_sql_active
  <2>2. \A s \in Stmts : SqlInv(sql[s])
    BY <2>1 DEF Init
  <2>3. DOMAIN sql = Stmts
    BY DEF Init
  <2> QED BY <2>2, <2>3 DEF Init, StatementInv
<1>2. StatementInv /\ [Next]_vars => StatementInv'
  <2> SUFFICES ASSUME StatementInv, [Next]_vars PROVE StatementInv'
    OBVIOUS
  <2>1. CASE UNCHANGED vars
    <3>1. UNCHANGED <<default, alive, handle, sql>>
      BY <2>1 DEF vars
    <3>2. \A s \in Stmts : SqlInv(sql[s])'
      <4> SUFFICES ASSUME NEW s \in Stmts PROVE SqlInv(sql[s])'
        OBVIOUS
      <4>1. PICK q : q = sql[s]
        OBVIOUS
      <4>2. sql'[s] = q /\ SqlInv(q)
        BY <3>1, <4>1 DEF StatementInv
      <4> QED BY <3>1, <4>2, SameDefault
    <3> QED BY <3>1, <3>2 DEF StatementInv
  <2> QED BY <2>1, CallsKeep, LifeKeeps, TransactionsKeep, DatabaseKeeps DEF Next
<1> QED BY <1>1, <1>2, PTL DEF Spec

\* The tables of names never point into freed descriptors: no sequence of
\* prepare, execute, set and close leaves a name behind its descriptor.
THEOREM NamesStayLive == Spec => []NamesLive
<1>1. StatementInv => NamesLive
  <2> SUFFICES ASSUME NEW q, SqlInv(q)
               PROVE  (\A n \in q.names : n.live) /\ q.fieldNames # "dangling"
    BY DEF StatementInv, NamesLive
  <2>1. \A n \in q.names : n.live
    <3>1. q.names = {} \/ q.names = ParamNames(Scanned[q.text].marks)
      BY DEF SqlInv, PreparedInv, TablesInv
    <3> QED BY <3>1 DEF ParamNames
  <2> QED BY <2>1 DEF SqlInv, TablesInv
<1> QED BY StatementInvHolds, <1>1, PTL

\* No error path and no second execution loses a statement of the server.
THEOREM NoStatementLost == Spec => []StatementsTracked
<1>1. StatementInv => StatementsTracked
  BY DEF StatementInv, SqlInv, ServerInv, StatementsTracked
<1> QED BY StatementInvHolds, <1>1, PTL

\* What is executed is the present text with the values its client has set, at
\* every occurrence of a name.
THEOREM ExecutesThePresent == Spec => []ExecutesWhatWasSet
<1>1. StatementInv => ExecutesWhatWasSet
  BY DEF StatementInv, SqlInv, ExecutedInv, ExecutesWhatWasSet
<1> QED BY StatementInvHolds, <1>1, PTL

\* What has no cursor in the server is at its end: it is not fetched from.
THEOREM NothingToFetchIsEOF == Spec => []EOFPreventsFetch
<1>1. StatementInv => EOFPreventsFetch
  BY DEF StatementInv, SqlInv, ExecutedInv, EOFPreventsFetch
<1> QED BY StatementInvHolds, <1>1, PTL

\* An open cursor belongs to the transaction that the statement names now.
THEOREM CursorIsOwn == Spec => []CursorInOwnTransaction
<1>1. StatementInv => CursorInOwnTransaction
  BY DEF StatementInv, SqlInv, ExecutedInv, CursorInOwnTransaction
<1> QED BY StatementInvHolds, <1>1, PTL

\* A row comes from the last call to execute: after one that was refused there is
\* none of an earlier execution to read.
THEOREM RowsAreOfLastExecution == Spec => []RowsOfLastExecution
<1>1. StatementInv => RowsOfLastExecution
  BY DEF StatementInv, SqlInv, ExecutedInv, RowsOfLastExecution
<1> QED BY StatementInvHolds, <1>1, PTL

\* If PreprocessSQL finds in each text that can be prepared what SQL reads in it
\* (TLC compares the two), the names of a prepared statement are those of its
\* present text, whatever was prepared, set and closed before.
THEOREM NamesOfPresentText ==
  ASSUME \A T \in Accepted : NamesInText[T] = ParamNames(Scanned[T].marks)
  PROVE  Spec => []NamesMatchText
<1>1. StatementInv => NamesMatchText
  <2> SUFFICES ASSUME NEW q, SqlInv(q), fb_is_sql_prepared(q)
               PROVE  /\ q.text \in Accepted /\ q.names = NamesInText[q.text]
                      /\ DOMAIN q.params = DOMAIN Scanned[q.text].marks
    BY DEF StatementInv, NamesMatchText
  <2> QED BY DEF SqlInv, PreparedInv, Area
<1> QED BY StatementInvHolds, <1>1, PTL
-----------------------------------------------------------------------------
(* Types *)

\* A record of the right types, of the same object in the same transaction.
Kept(r, q) == Typed(r) /\ r.alive = q.alive /\ r.tr = q.tr

\* A closed statement has nothing left that could have a wrong type.
LEMMA ClosedTyped ==
  ASSUME NEW q, Shape(q), q.alive \in BOOLEAN, q.text \in Texts \cup {<<>>}
  PROVE  Kept(fb_close_sql(q), q)
<1> DEFINE c == fb_close_sql(q)
<1>1. /\ c.alive = q.alive /\ c.tr = q.tr /\ c.text = q.text
      /\ c.srv = None /\ c.params = None /\ c.names = {} /\ c.fields = None
      /\ c.fieldNames = "none" /\ c.mEOF = FALSE /\ c.want = <<>> /\ c.sent = None
  BY Closed
<1>2. c.hStatement = FALSE
  BY DEF Shape, NewSql, fb_close_sql, PurgeFields, PurgeParams
<1> HIDE DEF c
<1>3. \A k \in DOMAIN c.want : c.want[k] \in Cell
  BY <1>1
<1>4. c.names \subseteq [name : Seq(Chars), index : Nat, live : BOOLEAN]
  BY <1>1
<1>5. Typed(c)
  BY <1>1, <1>2, <1>3, <1>4 DEF Typed
<1> QED BY <1>1, <1>5 DEF Kept, c

\* The statement from which fb_prepare_sql starts.
LEMMA ResetTyped ==
  ASSUME NEW q, Shape(q), Typed(q)
  PROVE  Kept(Reset(q), q)
<1>1. q.alive \in BOOLEAN /\ q.text \in Texts \cup {<<>>}
  BY DEF Typed
<1> QED BY <1>1, ClosedTyped DEF Reset, Kept

\* The nodes of the names in an accepted text.
LEMMA NamesTyped ==
  ASSUME ScannedTypes, NEW T \in Accepted
  PROVE  ParamNames(Scanned[T].marks) \subseteq [name : Seq(Chars), index : Nat, live : BOOLEAN]
<1> DEFINE marks == Scanned[T].marks
<1>1. \A k \in DOMAIN marks : k \in Nat /\ marks[k].name \in Seq(Chars)
  BY DEF ScannedTypes, Accepted, Preparable
<1> HIDE DEF marks
<1>2. \A k \in DOMAIN marks :
        [name |-> marks[k].name, index |-> k, live |-> TRUE]
          \in [name : Seq(Chars), index : Nat, live : BOOLEAN]
  BY <1>1
<1> QED BY <1>2 DEF ParamNames, marks

\* The success of fb_prepare_sql.
LEMMA PreparedTyped ==
  ASSUME ScannedTypes, NEW c, Shape(c), Typed(c), c.srv = None, c.text \in Accepted,
         NEW kc \in Kinds, NEW d \in Descriptions(Scanned[c.text].marks)
  PROVE  Kept(Prepared(c, kc, d), c)
<1> DEFINE a == Allocated(c, kc)
           p == Prepared(c, kc, d)
           f == FreshParams(d)
           w == [k \in DOMAIN d |-> Unset]
           srv == [text |-> Scanned[c.text].out, kind |-> kc[1], cols |-> kc[2], cursor |-> "none"]
           names == ParamNames(Scanned[c.text].marks)
<1>1. /\ DOMAIN a = DOMAIN NewSql
      /\ a.alive = c.alive /\ a.tr = c.tr /\ a.text = c.text /\ a.hStatement = TRUE
      /\ a.srv = srv
      /\ a.fields = c.fields /\ a.fieldNames = c.fieldNames /\ a.mEOF = c.mEOF /\ a.sent = c.sent
  BY AllocatedKeeps DEF Shape
<1>2. p = [a EXCEPT !.params = f, !.want = w, !.names = names]
  BY DEF Prepared
<1>3. srv \in Server
  <2>1. Scanned[c.text].out \in Seq(Chars)
    BY DEF ScannedTypes, Accepted, Preparable
  <2>2. kc[1] \in {"select", "once"} /\ kc[2] \in 0 .. 1
    BY DEF Kinds
  <2> QED BY <2>1, <2>2 DEF Server
<1>4. \A k \in DOMAIN f : f[k].var \in Described /\ f[k].val \in Cell
  <2>1. d \in [DOMAIN Scanned[c.text].marks -> Described]
    BY DEF Descriptions
  <2> QED BY <2>1 DEF FreshParams, Cell
<1>5. \A k \in DOMAIN w : w[k] \in Cell
  BY DEF Cell
<1>6. names \subseteq [name : Seq(Chars), index : Nat, live : BOOLEAN]
  BY NamesTyped
<1> HIDE DEF a, p, f, w, srv, names
<1>7. /\ p.params = f /\ p.want = w /\ p.names = names
      /\ p.alive = a.alive /\ p.tr = a.tr /\ p.text = a.text /\ p.hStatement = a.hStatement
      /\ p.srv = a.srv /\ p.fields = a.fields
      /\ p.fieldNames = a.fieldNames /\ p.mEOF = a.mEOF /\ p.sent = a.sent
  BY <1>1, <1>2 DEF NewSql
<1>8. Typed(p)
  BY <1>1, <1>3, <1>4, <1>5, <1>6, <1>7 DEF Typed
<1> QED BY <1>1, <1>7, <1>8 DEF Kept, p

\* fb_prepare_sql, with its errors.
LEMMA PrepareTyped ==
  ASSUME ScannedTypes, NEW q, SqlInv(q), Typed(q), NEW o \in fb_prepare_sql(q)
  PROVE  Kept(o.q, q)
<1> DEFINE c == Reset(q)
<1>1. Shape(q)
  BY DEF SqlInv
<1>2. Shape(c) /\ c.srv = None
  BY ResetIsBare DEF SqlInv
<1>3. Kept(c, q)
  BY <1>1, ResetTyped
<1>4. Typed(c) /\ c.alive = q.alive /\ c.tr = q.tr /\ c.alive \in BOOLEAN /\ c.text \in Texts \cup {<<>>}
  BY <1>3 DEF Kept, Typed
<1> HIDE DEF c
<1>5. CASE o = Outcome(FALSE, q) \/ o = Outcome(FALSE, c)
  <2>1. o.q = q \/ o.q = c
    BY <1>5 DEF Outcome
  <2> QED BY <1>3, <2>1 DEF Kept
<1>6. CASE o = Outcome(FALSE, fb_close_sql(c))
  <2>1. o.q = fb_close_sql(c)
    BY <1>6 DEF Outcome
  <2>2. Kept(fb_close_sql(c), c)
    BY <1>2, <1>4, ClosedTyped
  <2> QED BY <1>4, <2>1, <2>2 DEF Kept
<1>7. ASSUME NEW kc \in Kinds, o = Outcome(FALSE, fb_close_sql(Allocated(c, kc)))
      PROVE  Kept(o.q, q)
  <2> DEFINE a == Allocated(c, kc)
  <2>1. Shape(a) /\ a.alive = c.alive /\ a.tr = c.tr /\ a.text = c.text
    BY <1>2, AllocatedKeeps
  <2> HIDE DEF a
  <2>2. o.q = fb_close_sql(a)
    BY <1>7 DEF Outcome, a
  <2>3. Kept(fb_close_sql(a), a)
    BY <1>4, <2>1, ClosedTyped
  <2> QED BY <1>4, <2>1, <2>2, <2>3 DEF Kept
<1>8. ASSUME c.text \in Accepted, NEW kc \in Kinds,
             NEW d \in Descriptions(Scanned[c.text].marks), o = Outcome(TRUE, Prepared(c, kc, d))
      PROVE  Kept(o.q, q)
  <2>1. o.q = Prepared(c, kc, d)
    BY <1>8 DEF Outcome
  <2>2. Kept(Prepared(c, kc, d), c)
    BY <1>2, <1>4, <1>8, PreparedTyped
  <2> QED BY <1>4, <2>1, <2>2 DEF Kept
<1> QED BY <1>5, <1>6, <1>7, <1>8, PrepareOutcomes DEF c

\* CheckPrepared
LEMMA CheckTyped ==
  ASSUME ScannedTypes, NEW q, SqlInv(q), Typed(q), NEW o \in CheckPrepared(q)
  PROVE  Kept(o.q, q)
<1>1. CASE fb_is_sql_prepared(q)
  <2>1. o.q = q
    BY <1>1 DEF CheckPrepared, Outcome
  <2> QED BY <2>1 DEF Kept
<1>2. CASE ~fb_is_sql_prepared(q)
  BY <1>2, PrepareTyped DEF CheckPrepared
<1> QED BY <1>1, <1>2

\* The fields are described.
LEMMA FieldsTyped ==
  ASSUME NEW q, Shape(q), Typed(q)
  PROVE  Kept(DescribeFields(q), q)
<1> DEFINE d == DescribeFields(q)
<1>1. /\ d.alive = q.alive /\ d.tr = q.tr /\ d.text = q.text /\ d.hStatement = q.hStatement
      /\ d.srv = q.srv /\ d.params = q.params /\ d.names = q.names
      /\ d.fields = "empty" /\ d.mEOF = q.mEOF /\ d.want = q.want /\ d.sent = None
  BY DEF Shape, NewSql, DescribeFields, PurgeFields
<1>2. d.fieldNames \in {"live", "dangling", q.fieldNames}
  BY DEF Shape, NewSql, DescribeFields, PurgeFields
<1> HIDE DEF d
<1>3. Typed(d)
  BY <1>1, <1>2 DEF Typed
<1> QED BY <1>1, <1>3 DEF Kept, d

\* What fb_exec_sql and fb_debug_exec_immed do first.
LEMMA DescribeTyped ==
  ASSUME ScannedTypes, NEW q, SqlInv(q), q.alive, Typed(q), NEW o \in ClosedAndDescribed(q)
  PROVE  Kept(o.q, q)
<1> DEFINE c == IF fb_is_sql_active(q) THEN fb_close_sql(q) ELSE q
<1>1. Shape(q) /\ ~q.leaked
  BY DEF SqlInv, ServerInv
<1>2. q.alive \in BOOLEAN /\ q.text \in Texts \cup {<<>>}
  BY DEF Typed
<1>3. SqlInv(c) /\ Kept(c, q)
  BY <1>1, <1>2, ClosedInv, ClosedTyped DEF Kept
<1> HIDE DEF c
<1> DEFINE after(r) ==
             IF ~r.ok THEN {Outcome(FALSE, fb_close_sql(r.q))}
             ELSE {Outcome(FALSE, fb_close_sql(r.q))} \cup
                  IF r.q.srv = None THEN {} ELSE {Outcome(TRUE, DescribeFields(r.q))}
<1>4. \/ o = Outcome(FALSE, q)
      \/ o = Outcome(FALSE, c)
      \/ \E r \in CheckPrepared(c) : o \in after(r)
  BY DEF ClosedAndDescribed, DescribedFrom, c
<1> HIDE DEF after
<1>5. CASE o = Outcome(FALSE, q) \/ o = Outcome(FALSE, c)
  <2>1. o.q = q \/ o.q = c
    BY <1>5 DEF Outcome
  <2> QED BY <1>3, <2>1 DEF Kept
<1>6. ASSUME NEW r \in CheckPrepared(c), o \in after(r)
      PROVE  Kept(o.q, q)
  <2>1. Typed(c) /\ c.alive /\ c.alive = q.alive /\ c.tr = q.tr
    BY <1>3 DEF Kept
  <2>2. Kept(r.q, c) /\ SqlInv(r.q)
    BY <1>3, <2>1, Check, CheckTyped
  <2>3. Shape(r.q) /\ Typed(r.q) /\ r.q.alive \in BOOLEAN /\ r.q.text \in Texts \cup {<<>>}
    BY <2>2 DEF SqlInv, Kept, Typed
  <2>4. Kept(fb_close_sql(r.q), r.q) /\ Kept(DescribeFields(r.q), r.q)
    BY <2>3, ClosedTyped, FieldsTyped
  <2>5. o.q = fb_close_sql(r.q) \/ o.q = DescribeFields(r.q)
    BY <1>6 DEF after, Outcome
  <2> QED BY <2>1, <2>2, <2>4, <2>5 DEF Kept
<1> QED BY <1>4, <1>5, <1>6

-----------------------------------------------------------------------------

\* The server has executed it.
LEMMA ExecutedTyped ==
  ASSUME NEW q, Shape(q), Typed(q), q.srv # None, NEW cursor \in Trans \cup {"none"}
  PROVE  Kept(Executed(q, cursor), q) /\ Shape(Executed(q, cursor))
<1> DEFINE e == Executed(q, cursor)
           sent == [text |-> q.srv.text, values |-> [k \in DOMAIN q.params |-> q.params[k].val]]
           srv == [q.srv EXCEPT !.cursor = cursor]
<1>1. q.srv \in Server
  BY DEF Typed
<1>2. e = [q EXCEPT !.srv = srv, !.sent = sent]
  BY DEF Executed
<1>3. srv \in Server /\ DOMAIN srv = {"text", "kind", "cols", "cursor"}
  BY <1>1 DEF Server
<1>4. sent.text \in Seq(Chars)
  BY <1>1 DEF Server
<1> HIDE DEF e, sent, srv
<1>5. /\ DOMAIN e = DOMAIN NewSql
      /\ e.alive = q.alive /\ e.tr = q.tr /\ e.text = q.text /\ e.hStatement = q.hStatement
      /\ e.srv = srv /\ e.params = q.params /\ e.names = q.names
      /\ e.fields = q.fields /\ e.fieldNames = q.fieldNames /\ e.mEOF = q.mEOF
      /\ e.want = q.want /\ e.sent = sent
  BY <1>2 DEF Shape, NewSql
<1>6. Typed(e)
  BY <1>3, <1>4, <1>5 DEF Typed
<1>7. Shape(e)
  BY <1>3, <1>5 DEF Shape
<1> QED BY <1>5, <1>6, <1>7 DEF Kept, e

\* Its fields get a row.
LEMMA RowTyped ==
  ASSUME NEW q, Shape(q), Typed(q)
  PROVE  Kept([q EXCEPT !.fields = "row"], q)
<1> DEFINE r == [q EXCEPT !.fields = "row"]
<1>1. /\ r.alive = q.alive /\ r.tr = q.tr /\ r.text = q.text /\ r.hStatement = q.hStatement
      /\ r.srv = q.srv /\ r.params = q.params /\ r.names = q.names
      /\ r.fields = "row" /\ r.fieldNames = q.fieldNames /\ r.mEOF = q.mEOF
      /\ r.want = q.want /\ r.sent = q.sent
  BY DEF Shape, NewSql
<1> HIDE DEF r
<1>2. Typed(r)
  BY <1>1 DEF Typed
<1> QED BY <1>1, <1>2 DEF Kept, r

\* Its end is marked.
LEMMA EndTyped ==
  ASSUME NEW q, Shape(q), Typed(q)
  PROVE  Kept([q EXCEPT !.mEOF = TRUE], q)
<1> DEFINE r == [q EXCEPT !.mEOF = TRUE]
<1>1. /\ r.alive = q.alive /\ r.tr = q.tr /\ r.text = q.text /\ r.hStatement = q.hStatement
      /\ r.srv = q.srv /\ r.params = q.params /\ r.names = q.names
      /\ r.fields = q.fields /\ r.fieldNames = q.fieldNames
      /\ r.want = q.want /\ r.sent = q.sent
  BY DEF Shape, NewSql
<1>2. r.mEOF = TRUE
  BY DEF Shape, NewSql
<1> HIDE DEF r
<1>3. Typed(r)
  BY <1>1, <1>2 DEF Typed
<1> QED BY <1>1, <1>3 DEF Kept, r

\* What is no select is at its end.
LEMMA OnceTyped ==
  ASSUME NEW q, Shape(q), Typed(q), q.srv # None
  PROVE  Kept(ExecutedOnce(q), q)
<1> DEFINE e == Executed(q, "none")
           r == ExecutedOnce(q)
<1>1. Kept(e, q) /\ Shape(e)
  BY ExecutedTyped
<1>2. r = [e EXCEPT !.fields = IF q.srv.cols > 0 THEN "row" ELSE e.fields, !.mEOF = TRUE]
  BY DEF ExecutedOnce
<1> HIDE DEF e, r
<1>3. /\ r.alive = e.alive /\ r.tr = e.tr /\ r.text = e.text /\ r.hStatement = e.hStatement
      /\ r.srv = e.srv /\ r.params = e.params /\ r.names = e.names
      /\ r.fields \in {"row", e.fields} /\ r.fieldNames = e.fieldNames
      /\ r.want = e.want /\ r.sent = e.sent
  BY <1>1, <1>2 DEF Shape, NewSql
<1>4. r.mEOF = TRUE
  BY <1>1, <1>2 DEF Shape, NewSql
<1>5. Typed(e) /\ e.alive = q.alive /\ e.tr = q.tr
  BY <1>1 DEF Kept
<1>6. Typed(r)
  BY <1>3, <1>4, <1>5 DEF Typed
<1> QED BY <1>3, <1>5, <1>6 DEF Kept, r

\* fb_sql_next
LEMMA SqlNextTyped ==
  ASSUME NEW q, Shape(q), Typed(q), NEW o \in fb_sql_next(q)
  PROVE  Kept(o.q, q)
<1> DEFINE row == [q EXCEPT !.fields = "row"]
           end == [q EXCEPT !.mEOF = TRUE]
<1>1. Kept(row, q) /\ Kept(end, q) /\ Kept(q, q)
  BY RowTyped, EndTyped DEF Kept
<1> HIDE DEF row, end
<1>2. o = Outcome(FALSE, q) \/ o = Outcome(TRUE, row) \/ o = Outcome(TRUE, end)
  BY DEF fb_sql_next, row, end
<1>3. o.q = q \/ o.q = row \/ o.q = end
  BY <1>2 DEF Outcome
<1> QED BY <1>1, <1>3

\* The three ways to execute.
LEMMA RunTyped ==
  ASSUME NEW q, Ready(q), Typed(q), handle \subseteq Trans, NEW o \in Run(q)
  PROVE  Kept(o.q, q)
<1> DEFINE e == Executed(q, TransactionOf(q))
           end == [e EXCEPT !.mEOF = TRUE]
           once == ExecutedOnce(q)
<1>1. Shape(q) /\ q.srv # None /\ TransactionOf(q) \in Trans
  BY DEF Ready, SqlInv, CanRun, fb_in_transaction
<1>2. Kept(e, q) /\ Shape(e)
  BY <1>1, ExecutedTyped
<1>3. Kept(once, q)
  BY <1>1, OnceTyped
<1> HIDE DEF e, once
<1>4. Kept(end, e)
  BY <1>2, EndTyped DEF Kept
<1> HIDE DEF end
<1>5. \/ o \in fb_sql_next(e)
      \/ o = Outcome(FALSE, e)
      \/ o = Outcome(TRUE, end)
      \/ o = Outcome(TRUE, once)
  BY DEF Run, RunByKind, e, end, once
<1>6. CASE o \in fb_sql_next(e)
  <2>1. Typed(e)
    BY <1>2 DEF Kept
  <2>2. Kept(o.q, e)
    BY <1>2, <1>6, <2>1, SqlNextTyped
  <2> QED BY <1>2, <2>2 DEF Kept
<1>7. CASE o \notin fb_sql_next(e)
  <2>1. o.q = e \/ o.q = end \/ o.q = once
    BY <1>5, <1>7 DEF Outcome
  <2> QED BY <1>2, <1>3, <1>4, <2>1 DEF Kept
<1> QED BY <1>6, <1>7

\* fb_exec_sql
LEMMA ExecTyped ==
  ASSUME ScannedTypes, NEW q, SqlInv(q), q.alive, Typed(q), handle \subseteq Trans, NEW o \in fb_exec_sql(q)
  PROVE  Kept(o.q, q)
<1> DEFINE after(r) == IF ~r.ok THEN {r}
                       ELSE {Outcome(FALSE, fb_close_sql(r.q)), Outcome(FALSE, r.q)} \cup Run(r.q)
<1>1. \E r \in ClosedAndDescribed(q) : o \in after(r)
  BY DEF fb_exec_sql
<1>2. PICK r \in ClosedAndDescribed(q) : o \in after(r)
  BY <1>1
<1>3. SqlInv(r.q) /\ (r.ok => Ready(r.q)) /\ Kept(r.q, q)
  BY Describe, DescribeTyped
<1>4. Shape(r.q) /\ Typed(r.q) /\ r.q.alive \in BOOLEAN /\ r.q.text \in Texts \cup {<<>>}
  BY <1>3 DEF SqlInv, Kept, Typed
<1>5. \/ o = r
      \/ o = Outcome(FALSE, fb_close_sql(r.q))
      \/ o = Outcome(FALSE, r.q)
      \/ r.ok /\ o \in Run(r.q)
  BY <1>2
<1>6. CASE o = r \/ o = Outcome(FALSE, r.q)
  <2>1. o.q = r.q
    BY <1>6 DEF Outcome
  <2> QED BY <1>3, <2>1
<1>7. CASE o = Outcome(FALSE, fb_close_sql(r.q))
  <2>1. o.q = fb_close_sql(r.q)
    BY <1>7 DEF Outcome
  <2>2. Kept(fb_close_sql(r.q), r.q)
    BY <1>4, ClosedTyped
  <2> QED BY <1>3, <2>1, <2>2 DEF Kept
<1>8. CASE r.ok /\ o \in Run(r.q)
  <2>1. Kept(o.q, r.q)
    BY <1>3, <1>4, <1>8, RunTyped
  <2> QED BY <1>3, <2>1 DEF Kept
<1> QED BY <1>5, <1>6, <1>7, <1>8

\* fb_debug_exec_immed
LEMMA DebugTyped ==
  ASSUME ScannedTypes, NEW q, SqlInv(q), q.alive, Typed(q), NEW o \in fb_debug_exec_immed(q)
  PROVE  Kept(o.q, q)
<1> DEFINE after(r) == IF ~r.ok THEN {r} ELSE {Outcome(FALSE, r.q), Outcome(TRUE, ExecutedOnce(r.q))}
<1>1. \E r \in ClosedAndDescribed(q) : o \in after(r)
  BY DEF fb_debug_exec_immed
<1>2. PICK r \in ClosedAndDescribed(q) : o \in after(r)
  BY <1>1
<1>3. SqlInv(r.q) /\ (r.ok => Ready(r.q)) /\ Kept(r.q, q)
  BY Describe, DescribeTyped
<1>4. o = r \/ o = Outcome(FALSE, r.q) \/ (r.ok /\ o = Outcome(TRUE, ExecutedOnce(r.q)))
  BY <1>2
<1>5. CASE o = r \/ o = Outcome(FALSE, r.q)
  <2>1. o.q = r.q
    BY <1>5 DEF Outcome
  <2> QED BY <1>3, <2>1
<1>6. CASE r.ok /\ o = Outcome(TRUE, ExecutedOnce(r.q))
  <2>1. o.q = ExecutedOnce(r.q)
    BY <1>6 DEF Outcome
  <2>2. Kept(ExecutedOnce(r.q), r.q)
    <3>1. Shape(r.q) /\ Typed(r.q) /\ r.q.srv # None
      BY <1>3, <1>6 DEF Ready, SqlInv, Kept
    <3> QED BY <3>1, OnceTyped
  <2> QED BY <1>3, <2>1, <2>2 DEF Kept
<1> QED BY <1>4, <1>5, <1>6

-----------------------------------------------------------------------------

\* A setter writes cells.
LEMMA SetValueTyped ==
  ASSUME NEW q, SqlInv(q), Typed(q), fb_is_sql_prepared(q),
         NEW how \in Setters, NEW v \in Given(how), NEW found, NEW about
  PROVE  Kept(SetValue(q, found, about, how, v).q, q)
<1> DEFINE refused == {k \in found : ~Takes(q.params[k], how)}
           touched == {k \in found : \A r \in refused : k > r}
           fits(k) == found # {} /\ refused = {} /\ k \in about /\ Stored(q.params[k], v) = v
           params == [k \in DOMAIN q.params |->
                         IF k \in touched THEN [q.params[k] EXCEPT !.val = Stored(q.params[k], v)]
                         ELSE q.params[k]]
           want == [k \in DOMAIN q.want |->
                         IF fb_is_sql_active(q) THEN q.want[k] ELSE IF fits(k) THEN v
                         ELSE IF k \in touched THEN Unset ELSE q.want[k]]
           r == SetValue(q, found, about, how, v).q
<1>1. Shape(q) /\ PreparedInv(q) /\ q.params # None
  BY DEF SqlInv, fb_is_sql_prepared
<1>2. r = [q EXCEPT !.params = params, !.want = want]
  BY DEF SetValue, Outcome
<1> HIDE DEF touched, fits
<1>3. q.params \in Area(q.text)
  BY <1>1 DEF PreparedInv, fb_is_sql_prepared
<1>4. \A k \in DOMAIN params : params[k].var \in Described /\ params[k].val \in Cell
  <2> SUFFICES ASSUME NEW k \in DOMAIN q.params
               PROVE  params[k].var \in Described /\ params[k].val \in Cell
    OBVIOUS
  <2>1. q.params[k].var \in Described /\ q.params[k].val \in Cell
    BY <1>1 DEF Typed
  <2>2. DOMAIN q.params[k] = {"var", "val"}
    BY <1>3 DEF Area
  <2>3. Stored(q.params[k], v) \in Cell
    BY StoredType
  <2> QED BY <2>1, <2>2, <2>3
<1>5. \A k \in DOMAIN want : want[k] \in Cell
  <2>1. v \in Cell /\ Unset \in Cell
    BY DEF Given, Cell
  <2>2. \A k \in DOMAIN q.want : q.want[k] \in Cell
    BY DEF Typed
  <2> QED BY <2>1, <2>2
<1> HIDE DEF params, want, r
<1>6. /\ r.alive = q.alive /\ r.tr = q.tr /\ r.text = q.text /\ r.hStatement = q.hStatement
      /\ r.srv = q.srv /\ r.params = params /\ r.names = q.names
      /\ r.fields = q.fields /\ r.fieldNames = q.fieldNames /\ r.mEOF = q.mEOF
      /\ r.want = want /\ r.sent = q.sent
  BY <1>1, <1>2 DEF Shape, NewSql
<1>7. Typed(r)
  BY <1>4, <1>5, <1>6 DEF Typed
<1> QED BY <1>6, <1>7 DEF Kept, r

\* A setter by position.
LEMMA SetParamTyped ==
  ASSUME ScannedTypes, NEW q, SqlInv(q), q.alive, Typed(q),
         NEW k, NEW how \in Setters, NEW v \in Given(how), NEW o \in fb_set_param(q, k, how, v)
  PROVE  Kept(o.q, q)
<1>1. PICK c \in CheckPrepared(q) :
         o = IF HasParam(c, k) THEN SetValue(c.q, {k}, {k}, how, v) ELSE Outcome(FALSE, c.q)
  BY DEF fb_set_param
<1>2. SqlInv(c.q) /\ (c.ok => fb_is_sql_prepared(c.q)) /\ Kept(c.q, q)
  BY Check, CheckTyped
<1>3. CASE HasParam(c, k)
  <2>1. fb_is_sql_prepared(c.q) /\ o = SetValue(c.q, {k}, {k}, how, v) /\ Typed(c.q)
    BY <1>1, <1>2, <1>3 DEF HasParam, Kept
  <2>2. Kept(SetValue(c.q, {k}, {k}, how, v).q, c.q)
    BY <1>2, <2>1, SetValueTyped
  <2> QED BY <1>2, <2>1, <2>2 DEF Kept
<1>4. CASE ~HasParam(c, k)
  <2>1. o.q = c.q
    BY <1>1, <1>4 DEF Outcome
  <2> QED BY <1>2, <2>1
<1> QED BY <1>3, <1>4

\* A setter by name.
LEMMA SetByNameTyped ==
  ASSUME ScannedTypes, NEW q, SqlInv(q), q.alive, Typed(q),
         NEW name, NEW how \in Setters, NEW v \in Given(how), NEW o \in fb_set_pbn(q, name, how, v)
  PROVE  Kept(o.q, q)
<1> DEFINE found(r) == {n.index : n \in {m \in r.names : m.name = name}}
           about == Occurrences(q.text, name)
<1>1. PICK c \in CheckPrepared(q) : o = IF ~c.ok THEN c ELSE SetValue(c.q, found(c.q), about, how, v)
  BY DEF fb_set_pbn, SetNodes
<1> HIDE DEF found, about
<1>2. SqlInv(c.q) /\ (c.ok => fb_is_sql_prepared(c.q)) /\ Kept(c.q, q)
  BY Check, CheckTyped
<1>3. CASE c.ok
  <2>1. fb_is_sql_prepared(c.q) /\ Typed(c.q)
    BY <1>2, <1>3 DEF Kept
  <2>2. Kept(SetValue(c.q, found(c.q), about, how, v).q, c.q)
    BY <1>2, <2>1, SetValueTyped
  <2> QED BY <1>1, <1>2, <1>3, <2>2 DEF Kept
<1>4. CASE ~c.ok
  <2>1. o.q = c.q
    BY <1>1, <1>4
  <2> QED BY <1>2, <2>1
<1> QED BY <1>3, <1>4

\* A new text.
LEMMA NewTextTyped ==
  ASSUME NEW q, SqlInv(q), Typed(q), NEW T \in Texts \cup {<<>>}, NEW o \in fb_sql_set_text(q, T)
  PROVE  Kept(o.q, q)
<1> DEFINE c == Reset(q)
           r == [c EXCEPT !.text = T]
<1>1. Shape(c) /\ Kept(c, q)
  <2>1. Shape(q)
    BY DEF SqlInv
  <2> QED BY <2>1, ResetTyped, ResetIsBare DEF SqlInv
<1>2. o.q = r
  BY DEF fb_sql_set_text, Reset, Outcome
<1> HIDE DEF c
<1>3. /\ r.alive = c.alive /\ r.tr = c.tr /\ r.text = T /\ r.hStatement = c.hStatement
      /\ r.srv = c.srv /\ r.params = c.params /\ r.names = c.names
      /\ r.fields = c.fields /\ r.fieldNames = c.fieldNames /\ r.mEOF = c.mEOF
      /\ r.want = c.want /\ r.sent = c.sent
  BY <1>1 DEF Shape, NewSql
<1> HIDE DEF r
<1>4. Typed(r)
  BY <1>1, <1>3 DEF Kept, Typed
<1> QED BY <1>1, <1>2, <1>3, <1>4 DEF Kept

\* Another transaction.
LEMMA SetTransactionTyped ==
  ASSUME NEW q, Shape(q), Typed(q), NEW t, NEW o \in fb_sql_set_transaction(q, t)
  PROVE  Typed(o.q) /\ o.q.alive = q.alive /\ o.q.tr \in {q.tr, t}
<1> DEFINE r == [q EXCEPT !.tr = t]
<1>1. /\ r.alive = q.alive /\ r.tr = t /\ r.text = q.text /\ r.hStatement = q.hStatement
      /\ r.srv = q.srv /\ r.params = q.params /\ r.names = q.names
      /\ r.fields = q.fields /\ r.fieldNames = q.fieldNames /\ r.mEOF = q.mEOF
      /\ r.want = q.want /\ r.sent = q.sent
  BY DEF Shape, NewSql
<1>2. o.q = q \/ o.q = r
  BY DEF fb_sql_set_transaction, Outcome
<1> HIDE DEF r
<1>3. Typed(r)
  BY <1>1 DEF Typed
<1> QED BY <1>1, <1>2, <1>3

\* The cursor is taken away, or the whole statement of the server.
LEMMA ServerTyped ==
  ASSUME NEW q, Shape(q), Typed(q), NEW srv, srv = None \/ srv \in Server
  PROVE  Kept([q EXCEPT !.srv = srv], q)
<1> DEFINE r == [q EXCEPT !.srv = srv]
<1>1. /\ r.alive = q.alive /\ r.tr = q.tr /\ r.text = q.text /\ r.hStatement = q.hStatement
      /\ r.srv = srv /\ r.params = q.params /\ r.names = q.names
      /\ r.fields = q.fields /\ r.fieldNames = q.fieldNames /\ r.mEOF = q.mEOF
      /\ r.want = q.want /\ r.sent = q.sent
  BY DEF Shape, NewSql
<1> HIDE DEF r
<1>2. Typed(r)
  BY <1>1 DEF Typed
<1> QED BY <1>1, <1>2 DEF Kept, r

-----------------------------------------------------------------------------

\* A call whose outcomes have their types keeps all types.
LEMMA CallTyped ==
  ASSUME StatementInv, TypeOK, NEW s \in Stmts, NEW outcomes, Call(s, outcomes),
         \A o \in outcomes : Typed(o.q) /\ o.q.alive = sql[s].alive /\ o.q.tr \in alive \cup {None}
  PROVE  TypeOK'
<1>1. PICK o \in outcomes : sql' = [sql EXCEPT ![s] = o.q]
  BY DEF Call
<1>2. UNCHANGED <<connected, default, alive, handle>> /\ sql[s].alive
  BY DEF Call, transVars
<1>3. ASSUME NEW u \in Stmts
      PROVE  Typed(sql'[u]) /\ sql'[u].tr \in IF sql'[u].alive THEN alive \cup {None} ELSE {None}
  <2>1. DOMAIN sql = Stmts
    BY DEF StatementInv
  <2>2. sql'[u] = IF u = s THEN o.q ELSE sql[u]
    BY <1>1, <2>1
  <2> QED BY <1>2, <2>2 DEF TypeOK
<1> HIDE DEF TypeOK
<1>4. \A u \in Stmts : (Typed(sql[u]) /\ sql[u].tr \in IF sql[u].alive THEN alive \cup {None} ELSE {None})'
  BY <1>2, <1>3 DEF Typed
<1> QED BY <1>2, <1>4 DEF TypeOK

\* The client's calls on a statement.
LEMMA CallsTyped ==
  ASSUME ScannedTypes, StatementInv, TypeOK, NEW s \in Stmts,
         \/ SetText(s) \/ SetTransaction(s) \/ PrepareSql(s) \/ CloseSql(s) \/ ExecSql(s)
         \/ DebugExec(s) \/ SqlNext(s) \/ SetParam(s) \/ SetParamByName(s)
  PROVE  TypeOK'
<1> DEFINE q == sql[s]
           good(o) == Typed(o.q) /\ o.q.alive = q.alive /\ o.q.tr \in alive \cup {None}
<1>1. /\ SqlInv(q) /\ handle \subseteq Trans /\ Shape(q)
      /\ Typed(q) /\ q.tr \in alive \cup {None} /\ q.alive \in BOOLEAN /\ q.text \in Texts \cup {<<>>}
  BY DEF StatementInv, TypeOK, SqlInv, Typed
<1>2. \A outcomes : Call(s, outcomes) /\ (\A o \in outcomes : good(o)) => TypeOK'
  BY CallTyped
<1>3. \A o : Kept(o.q, q) => good(o)
  BY <1>1 DEF Kept
<1> HIDE DEF good
<1>4. CASE SetText(s)
  <2>1. PICK T \in Texts \cup {<<>>} : Call(s, fb_sql_set_text(q, T))
    BY <1>4 DEF SetText
  <2>2. \A o \in fb_sql_set_text(q, T) : Kept(o.q, q)
    BY <1>1, NewTextTyped
  <2> QED BY <1>2, <1>3, <2>1, <2>2
<1>5. CASE SetTransaction(s)
  <2>1. PICK t \in alive \cup {None} : Call(s, fb_sql_set_transaction(q, t))
    BY <1>5 DEF SetTransaction
  <2>2. \A o \in fb_sql_set_transaction(q, t) : good(o)
    BY <1>1, SetTransactionTyped DEF good
  <2> QED BY <1>2, <2>1, <2>2
<1>6. CASE PrepareSql(s)
  <2>1. Call(s, fb_prepare_sql(q))
    BY <1>6 DEF PrepareSql
  <2>2. \A o \in fb_prepare_sql(q) : Kept(o.q, q)
    BY <1>1, PrepareTyped
  <2> QED BY <1>2, <1>3, <2>1, <2>2
<1>7. CASE CloseSql(s)
  <2> DEFINE closed == {Outcome(TRUE, fb_close_sql(q))}
  <2>1. Call(s, closed)
    BY <1>7 DEF CloseSql
  <2>2. \A o \in closed : Kept(o.q, q)
    <3>1. Kept(fb_close_sql(q), q)
      BY <1>1, ClosedTyped
    <3>2. Outcome(TRUE, fb_close_sql(q)).q = fb_close_sql(q)
      BY DEF Outcome
    <3> QED BY <3>1, <3>2
  <2> HIDE DEF closed
  <2> QED BY <1>2, <1>3, <2>1, <2>2
<1>8. CASE ExecSql(s)
  <2>1. q.alive /\ Call(s, fb_exec_sql(q))
    BY <1>8 DEF ExecSql, Call
  <2>2. \A o \in fb_exec_sql(q) : Kept(o.q, q)
    BY <1>1, <2>1, ExecTyped
  <2> QED BY <1>2, <1>3, <2>1, <2>2
<1>9. CASE DebugExec(s)
  <2>1. q.alive /\ Call(s, fb_debug_exec_immed(q))
    BY <1>9 DEF DebugExec, Call
  <2>2. \A o \in fb_debug_exec_immed(q) : Kept(o.q, q)
    BY <1>1, <2>1, DebugTyped
  <2> QED BY <1>2, <1>3, <2>1, <2>2
<1>10. CASE SqlNext(s)
  <2>1. Call(s, fb_sql_next(q))
    BY <1>10 DEF SqlNext
  <2>2. \A o \in fb_sql_next(q) : Kept(o.q, q)
    BY <1>1, SqlNextTyped
  <2> QED BY <1>2, <1>3, <2>1, <2>2
<1>11. CASE SetParam(s)
  <2>1. PICK k \in DOMAIN Scanned[q.text].marks, how \in Setters \ {"bigint"} :
           \E v \in Given(how) : Call(s, fb_set_param(q, k, how, v))
    BY <1>11 DEF SetParam
  <2>2. PICK v \in Given(how) : Call(s, fb_set_param(q, k, how, v))
    BY <2>1
  <2>3. q.alive
    BY <2>2 DEF Call
  <2>4. \A o \in fb_set_param(q, k, how, v) : Kept(o.q, q)
    BY <1>1, <2>1, <2>2, <2>3, SetParamTyped
  <2> QED BY <1>2, <1>3, <2>2, <2>4
<1>12. CASE SetParamByName(s)
  <2>1. PICK name \in {m.name : m \in ParamNames(Scanned[q.text].marks)}, how \in Setters :
           \E v \in Given(how) : Call(s, fb_set_pbn(q, name, how, v))
    BY <1>12 DEF SetParamByName
  <2>2. PICK v \in Given(how) : Call(s, fb_set_pbn(q, name, how, v))
    BY <2>1
  <2>3. q.alive
    BY <2>2 DEF Call
  <2>4. \A o \in fb_set_pbn(q, name, how, v) : Kept(o.q, q)
    BY <1>1, <2>1, <2>2, <2>3, SetByNameTyped
  <2> QED BY <1>2, <1>3, <2>2, <2>4
<1> QED BY <1>4, <1>5, <1>6, <1>7, <1>8, <1>9, <1>10, <1>11, <1>12

\* New and freed statements are bare.
LEMMA LifeTyped ==
  ASSUME StatementInv, TypeOK, NEW s \in Stmts, CreateSql(s) \/ FreeSql(s)
  PROVE  TypeOK'
<1>1. UNCHANGED <<connected, default, alive, handle>> /\ DOMAIN sql = Stmts
  BY DEF CreateSql, FreeSql, transVars, StatementInv
<1>2. PICK q : sql' = [sql EXCEPT ![s] = q] /\ q \in {[NewSql EXCEPT !.alive = TRUE], [NewSql EXCEPT !.srv = None]}
  <2>1. CASE CreateSql(s)
    BY <2>1 DEF CreateSql
  <2>2. CASE FreeSql(s)
    <3>1. fb_close_sql(sql[s]).srv = None
      BY Closed DEF StatementInv, SqlInv
    <3> QED BY <2>2, <3>1 DEF FreeSql
  <2> QED BY <2>1, <2>2
<1>3. Typed(q) /\ q.tr = None
  <2>1. /\ q.alive \in BOOLEAN /\ q.tr = None /\ q.text = <<>> /\ q.hStatement = FALSE /\ q.srv = None
        /\ q.params = None /\ q.names = {} /\ q.fields = None /\ q.fieldNames = "none"
        /\ q.mEOF = FALSE /\ q.want = <<>> /\ q.sent = None
    BY <1>2 DEF NewSql
  <2>2. \A k \in DOMAIN q.want : q.want[k] \in Cell
    BY <2>1
  <2>3. q.names \subseteq [name : Seq(Chars), index : Nat, live : BOOLEAN]
    BY <2>1
  <2> QED BY <2>1, <2>2, <2>3 DEF Typed
<1>4. \A u \in Stmts : sql'[u] = IF u = s THEN q ELSE sql[u]
  BY <1>1, <1>2
<1>5. \A u \in Stmts : Typed(sql'[u]) /\ sql'[u].tr \in IF sql'[u].alive THEN alive \cup {None} ELSE {None}
  BY <1>3, <1>4 DEF TypeOK
<1>6. \A u \in Stmts : (Typed(sql[u]) /\ sql[u].tr \in IF sql[u].alive THEN alive \cup {None} ELSE {None})'
  BY <1>1, <1>5 DEF Typed
<1> QED BY <1>1, <1>6 DEF TypeOK

\* The end of a transaction changes only the cursors.
LEMMA EndTypes ==
  ASSUME StatementInv, TypeOK, NEW t \in Trans, Release(t)
  PROVE  \A s \in Stmts : Kept(sql'[s], sql[s])
<1> SUFFICES ASSUME NEW s \in Stmts PROVE Kept(sql'[s], sql[s])
  OBVIOUS
<1> DEFINE q == sql[s]
<1>1. Shape(q) /\ Typed(q)
  BY DEF StatementInv, SqlInv, TypeOK
<1>2. CASE sql' = sql
  BY <1>1, <1>2 DEF Kept
<1>3. ASSUME NEW cursor \in {"ended", "orphan"}, sql' = CursorsAfter(t, cursor) PROVE Kept(sql'[s], q)
  <2>1. CASE q.srv # None /\ q.srv.cursor = t
    <3> DEFINE srv == [q.srv EXCEPT !.cursor = cursor]
    <3>1. sql'[s] = [q EXCEPT !.srv = srv]
      BY <1>3, <2>1 DEF CursorsAfter
    <3>2. srv \in Server
      BY <1>1, <2>1 DEF Typed, Server
    <3> HIDE DEF srv
    <3> QED BY <1>1, <3>1, <3>2, ServerTyped
  <2>2. CASE ~(q.srv # None /\ q.srv.cursor = t)
    BY <1>1, <1>3, <2>2 DEF CursorsAfter, Kept
  <2> QED BY <2>1, <2>2
<1> QED BY <1>2, <1>3 DEF Release, EndHandle

\* No statement is left with a transaction that is freed.
LEMMA TransactionsTyped ==
  ASSUME StatementInv, TypeOK, NEW t \in Trans,
         \/ CreateTransaction(t) \/ StartTransaction(t) \/ EndTransaction(t)
         \/ FreeTransaction(t) \/ SetDefault(t)
  PROVE  TypeOK'
<1>1. /\ connected \in BOOLEAN
      /\ default \in alive \cup {None} /\ handle \subseteq alive /\ alive \subseteq Trans
      /\ \A s \in Stmts :
            Typed(sql[s]) /\ sql[s].tr \in IF sql[s].alive THEN alive \cup {None} ELSE {None}
  BY DEF TypeOK
<1>2. \A s \in Stmts : Kept(sql'[s], sql[s])
  <2>1. CASE EndTransaction(t) \/ FreeTransaction(t)
    <3>1. Release(t)
      BY <2>1 DEF EndTransaction, FreeTransaction, Release
    <3> QED BY <3>1, EndTypes
  <2>2. CASE CreateTransaction(t) \/ StartTransaction(t) \/ SetDefault(t)
    <3>1. sql' = sql
      BY <2>2 DEF CreateTransaction, StartTransaction, SetDefault
    <3> QED BY <1>1, <3>1 DEF Kept
  <2> QED BY <2>1, <2>2
<1>3. (/\ connected \in BOOLEAN
       /\ default \in alive \cup {None} /\ handle \subseteq alive /\ alive \subseteq Trans)'
  <2>1. CASE EndTransaction(t) \/ FreeTransaction(t)
    BY <1>1, <2>1 DEF EndTransaction, FreeTransaction, Release, EndHandle
  <2>2. CASE CreateTransaction(t) \/ StartTransaction(t) \/ SetDefault(t)
    BY <1>1, <2>2 DEF CreateTransaction, StartTransaction, SetDefault
  <2> QED BY <2>1, <2>2
<1>4. \A s \in Stmts : sql[s].tr \in alive => sql[s].tr \in alive'
  <2>1. CASE FreeTransaction(t)
    BY <2>1 DEF FreeTransaction
  <2>2. CASE ~FreeTransaction(t)
    BY <2>2 DEF CreateTransaction, StartTransaction, EndTransaction, SetDefault
  <2> QED BY <2>1, <2>2
<1>5. \A s \in Stmts : Typed(sql'[s]) /\ sql'[s].tr \in IF sql'[s].alive THEN alive' \cup {None} ELSE {None}
  BY <1>1, <1>2, <1>4 DEF Kept
<1>6. \A s \in Stmts : (Typed(sql[s]) /\ sql[s].tr \in IF sql[s].alive THEN alive \cup {None} ELSE {None})'
  BY <1>5 DEF Typed
<1> QED BY <1>3, <1>6 DEF TypeOK

\* The connection.
LEMMA DatabaseTyped ==
  ASSUME StatementInv, TypeOK, Connect \/ Disconnect \/ FreeDatabase
  PROVE  TypeOK'
<1>1. /\ connected \in BOOLEAN
      /\ default \in alive \cup {None} /\ handle \subseteq alive /\ alive \subseteq Trans
      /\ \A s \in Stmts :
            Typed(sql[s]) /\ sql[s].tr \in IF sql[s].alive THEN alive \cup {None} ELSE {None}
  BY DEF TypeOK
<1>2. \A s \in Stmts : Kept(sql'[s], sql[s])
  <2> SUFFICES ASSUME NEW s \in Stmts PROVE Kept(sql'[s], sql[s])
    OBVIOUS
  <2>1. CASE Connect
    BY <1>1, <2>1 DEF Connect, Kept
  <2>2. CASE Disconnect \/ FreeDatabase
    <3>1. sql'[s] = [sql[s] EXCEPT !.srv = None]
      BY <2>2 DEF Disconnect, FreeDatabase, Detach
    <3>2. Shape(sql[s])
      BY DEF StatementInv, SqlInv
    <3> QED BY <1>1, <3>1, <3>2, ServerTyped
  <2> QED BY <2>1, <2>2
<1>3. (/\ connected \in BOOLEAN
       /\ default \in alive \cup {None} /\ handle \subseteq alive /\ alive \subseteq Trans)'
  BY <1>1 DEF Connect, Disconnect, FreeDatabase, Detach, transVars
<1>4. \A s \in Stmts : sql[s].alive => alive' = alive
  BY DEF Connect, Disconnect, FreeDatabase, transVars
<1>5. \A s \in Stmts : Typed(sql'[s]) /\ sql'[s].tr \in IF sql'[s].alive THEN alive' \cup {None} ELSE {None}
  BY <1>1, <1>2, <1>4 DEF Kept
<1>6. \A s \in Stmts : (Typed(sql[s]) /\ sql[s].tr \in IF sql[s].alive THEN alive \cup {None} ELSE {None})'
  BY <1>5 DEF Typed
<1> QED BY <1>3, <1>6 DEF TypeOK

\* If what PreprocessSQL takes from a text is made of the text's characters (TLC
\* checks that), the records of the wrapper have their types in every state: the
\* descriptors are the server's, the values fit their cells, a statement names a
\* transaction that exists, and a freed one none.
THEOREM StatementTypes ==
  ASSUME ScannedTypes
  PROVE  Spec => []TypeOK
<1>1. Init => TypeOK
  <2> SUFFICES ASSUME Init PROVE TypeOK
    OBVIOUS
  <2>1. Typed(NewSql) /\ NewSql.tr = None
    <3>1. \A k \in DOMAIN NewSql.want : NewSql.want[k] \in Cell
      BY DEF NewSql
    <3> QED BY <3>1 DEF NewSql, Typed
  <2>2. \A s \in Stmts : Typed(sql[s]) /\ sql[s].tr = None
    BY <2>1 DEF Init
  <2> QED BY <2>2 DEF Init, TypeOK
<1>2. StatementInv /\ TypeOK /\ [Next]_vars => TypeOK'
  <2> SUFFICES ASSUME StatementInv, TypeOK, [Next]_vars PROVE TypeOK'
    OBVIOUS
  <2>1. CASE UNCHANGED vars
    BY <2>1 DEF vars, TypeOK, Typed
  <2> QED BY <2>1, CallsTyped, LifeTyped, TransactionsTyped, DatabaseTyped DEF Next
<1> QED BY <1>1, <1>2, StatementInvHolds, PTL DEF Spec
=============================================================================
