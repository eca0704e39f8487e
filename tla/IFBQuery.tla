------------------------------ MODULE IFBQuery ------------------------------
(***************************************************************************)
(* fb_iface.cpp: the query object that a user function builds on the       *)
(* attachment and transaction of its call.  Firebird is external: a call   *)
(* into it may throw, and a cursor delivers any rows its text may have.    *)
(*                                                                         *)
(* An operation on a query q is the set of its outcomes: what it returns,  *)
(* whether it threw, and the query afterwards.  held names the members of  *)
(* q that are not NULL; each of them stands for a reference or a block.    *)
(***************************************************************************)
EXTENDS MetaCache, FiniteSets

CONSTANTS
    Statements,  \* Statements[T]: types of the parameters and columns of text T
    Rows,        \* Rows[T]: the rows T may deliver, but for SumText
    SumText,     \* the statement of my_sum_args
    MaxRows,     \* rows a cursor delivers at most
    DoubleBits,  \* bits of the mantissa of a double: 53
    None         \* no text, no index

Numbers == {"short", "long", "int64"}

Ok(q, result) == [thrown |-> FALSE, result |-> result, q |-> q]
Throw(q) == [thrown |-> TRUE, result |-> FALSE, q |-> q]

\* row is out_buffer, rows a history of what the cursor delivered; at tells
\* where the cursor is: "none", "row" or "end".
NewQuery == [text |-> None, held |-> {"att", "tra"}, in |-> <<>>, row |-> Unset,
             at |-> "none", rows |-> <<>>, names |-> <<>>]

-----------------------------------------------------------------------------
\* Statement and cursor.

\* Mutant: only a statement with parameters gets the buffer for its row.
AcquiredNoRowBuffer(T) ==
    <<"stmt", "in_meta">> \o (IF Statements[T].params = <<>> THEN <<"out_meta">>
                               ELSE <<"in_buffer", "out_meta", "out_buffer">>)

\* What prepare acquires, in its order; any Firebird call between may throw.
\* Every text has columns.
Acquired(T) ==
    <<"stmt", "in_meta">> \o (IF Statements[T].params = <<>> THEN <<>> ELSE <<"in_buffer">>)
        \o <<"out_meta", "out_buffer">>

\* in_buffer is filled with 0, out_buffer with nothing.
prepare(q, T) ==
    LET upto(n) == [q EXCEPT !.text = T, !.held = @ \cup Range(SubSeq(Acquired(T), 1, n)),
                             !.in = [i \in DOMAIN Statements[T].params |-> 0], !.row = Unset]
    IN  IF "stmt" \in q.held THEN {Throw(q)}
        ELSE {Throw(upto(n)) : n \in 0 .. Len(Acquired(T)) - 1}
             \cup {Ok(upto(Len(Acquired(T))), TRUE)}

\* my_sum_args sums in SQL, whose result of integers has 64 bits.
Sum(values) ==
    IF Null \in Range(values) THEN Null ELSE FoldLeft(+, 0, values)

Deliverable(q) ==
    IF q.text = SumText THEN (IF q.at = "none" THEN {<<Sum(q.in)>>} ELSE {})
    ELSE IF Len(q.rows) < MaxRows THEN Rows[q.text] ELSE {}

MayEnd(q) == q.text # SumText \/ q.at # "none"

\* fetchNext: a row in out_buffer, no more rows, or an error.
next(q) ==
    {Throw(q)}
    \cup {Ok([q EXCEPT !.row = r, !.at = "row", !.rows = Append(@, r)], TRUE) : r \in Deliverable(q)}
    \cup (IF MayEnd(q) THEN {Ok([q EXCEPT !.at = "end"], FALSE)} ELSE {})

\* The server refuses a second cursor of a statement.
Opened(q) ==
    IF "curs" \in q.held THEN {Throw(q)}
    ELSE {Throw(q), Ok([q EXCEPT !.held = @ \cup {"curs"}, !.rows = <<>>], TRUE)}

\* Mutant: the first row is left to the caller.
OpenCursorOnly(q) == {IF o.thrown THEN o ELSE Ok([o.q EXCEPT !.at = "row"], TRUE) : o \in Opened(q)}

\* The first row is fetched at once, and whether there is one is for eof to tell.
openCursor(q) ==
    UNION {IF o.thrown THEN {o} ELSE {[f EXCEPT !.result = TRUE] : f \in next(o.q)} : o \in Opened(q)}

eof(q) == "curs" \notin q.held \/ q.at = "end"

\* The cursor first and the statement last, each of which may refuse.  The
\* names of the columns are kept.
CloseKeeping(q, kept) ==
    LET idle == [q EXCEPT !.held = @ \ ({"curs", "in_meta", "out_meta", "in_buffer", "out_buffer"} \ kept),
                          !.in = <<>>, !.row = Unset, !.at = "none"]
    IN  (IF "curs" \in q.held THEN {Throw(q)} ELSE {})
        \cup (IF "stmt" \in q.held THEN {Throw(idle)} ELSE {})
        \cup {Ok([idle EXCEPT !.held = @ \ {"stmt"}], TRUE)}

\* Mutant: out_buffer stays when there are no input parameters.
CloseKeepsBuffer(q) == CloseKeeping(q, IF "in_buffer" \in q.held THEN {} ELSE {"out_buffer"})

close(q) == CloseKeeping(q, {})

\* ~IFBQuery: attachment and transaction go first; an exception of close ends
\* the process, since destructors do not let it out.
Destructor(q) == close([q EXCEPT !.held = @ \ {"att", "tra"}])

-----------------------------------------------------------------------------
\* Parameters.  A type the function does not know is refused, and the parameter
\* stays as it was.  A short takes the low bits.
Narrow(type, v) ==
    IF type = "short"
    THEN LET half == 2 ^ (IntBits - 2) IN ((v + half) % (2 * half)) - half
    ELSE v

setParamAsInt(q, par_idx, value) ==
    LET type == Statements[q.text].params[par_idx]
    IN  IF type \in Numbers THEN Ok([q EXCEPT !.in[par_idx] = Narrow(type, value)], TRUE)
        ELSE Ok(q, FALSE)

setParamAsNull(q, par_idx) == Ok([q EXCEPT !.in[par_idx] = Null], TRUE)

-----------------------------------------------------------------------------
\* Fields of the row.  Before the first fetch anything may be found.
Column(q, field_idx) == Statements[q.text].columns[field_idx]

getFieldIsNull(q, field_idx) ==
    IF q.row = Unset THEN BOOLEAN ELSE {q.row[field_idx] = Null}

Value(q, field_idx) == IF q.row = Unset THEN Ints ELSE {q.row[field_idx]}

\* A double is a mantissa of DoubleBits bits times or over a power of 2: Double(n, d)
\* is the nearest to n / d as a fraction, with an even mantissa at a half.
HalfEven(n, d) ==
    LET far == 2 * (n % d)
        up == far > d \/ (far = d /\ (n \div d) % 2 = 1)
    IN  n \div d + (IF up THEN 1 ELSE 0)

Double(n, d) ==
    LET top == 2 ^ DoubleBits
        size == IF n < 0 THEN -n ELSE n
        signed(mantissa) == IF n < 0 THEN -mantissa ELSE mantissa
        full(a, b) == top * b <= 2 * a /\ a < top * b
        down == CHOOSE k \in 0 .. 1022 : full(size, d * 2 ^ k)
        up == CHOOSE k \in 0 .. 1022 : full(size * 2 ^ k, d)
    IN  IF n = 0 \/ (d = 1 /\ size < top) THEN <<n, 1>>
        ELSE IF top * d <= size THEN <<signed(HalfEven(size, d * 2 ^ down) * 2 ^ down), 1>>
        ELSE <<signed(HalfEven(size * 2 ^ up, d)), 2 ^ up>>

\* Both numbers become doubles, and so does what comes of them; round goes away
\* from 0 at a half.
adjustNumericScale(value, scale) ==
    LET v == Double(value, 1)[1]
        scaling(n) == Double(10 ^ n, 1)[1]
    IN  CASE scale > 0 -> Double(v * scaling(scale), 1)
          [] scale < 0 -> Double(v, scaling(-scale))
          [] OTHER     -> <<v, 1>>

Rounded(x) ==
    LET up(n) == (2 * n + x[2]) \div (2 * x[2])
    IN  IF x[1] >= 0 THEN up(x[1]) ELSE -up(-x[1])

Refused(value) == [ok |-> FALSE, value |-> value]

\* The number is cast before its range is checked; a cast out of range is
\* undefined, and processors give the one or the other end.
Cast(n) == IF n \in Ints THEN {n} ELSE {IntMin, IntMax}

tryAsInt(q, field_idx) ==
    LET c == Column(q, field_idx)
        read(v) == LET n == Rounded(adjustNumericScale(v, c.scale))
                   IN  {[ok |-> n > IntMin + 1 /\ n <= IntMax, value |-> i] : i \in Cast(n)}
    IN  UNION {IF null \/ c.type \notin Numbers THEN {Refused(0)}
               ELSE UNION {read(v) : v \in Value(q, field_idx) \ {Null}} :
               null \in getFieldIsNull(q, field_idx)}

\* Mutant: a refused number counts as 0.
AsIntChecked(q, field_idx) ==
    {IF r.ok THEN r.value ELSE 0 : r \in tryAsInt(q, field_idx)}

\* What tryAsInt says of the range is ignored.
asInt(q, field_idx) == {r.value : r \in tryAsInt(q, field_idx)}

\* A CHAR is read up to a character that is no digit, which may lie behind the
\* field; the copy of a VARCHAR is compared with 0 and refused.
tryAsDouble(q, field_idx) ==
    LET c == Column(q, field_idx)
    IN  UNION {IF null \/ c.type = "varying" THEN {Refused(<<0, 1>>)}
               ELSE {[ok |-> TRUE, value |-> adjustNumericScale(v, c.scale)] :
                        v \in Value(q, field_idx) \ {Null}}
                    \cup (IF c.type = "text" THEN {Refused(<<0, 1>>)} ELSE {}) :
               null \in getFieldIsNull(q, field_idx)}

asDouble(q, field_idx) == {r.value : r \in tryAsDouble(q, field_idx)}

\* fieldIdxByName.  The table of names is filled once; the last of equal names counts.
Named(q) ==
    IF q.names # <<>> \/ "out_meta" \notin q.held THEN q
    ELSE [q EXCEPT !.names = [i \in DOMAIN Statements[q.text].columns |-> Column(q, i).alias]]

fieldIdxByName(q, name) ==
    LET at == {i \in DOMAIN Named(q).names : Named(q).names[i] = name}
    IN  IF "out_meta" \notin q.held \/ at = {} THEN None ELSE Max(at)

fbn_is_null(q, name) ==
    LET i == fieldIdxByName(q, name) IN IF i = None THEN {TRUE} ELSE getFieldIsNull(q, i)
fbn_as_int(q, name) ==
    LET i == fieldIdxByName(q, name) IN IF i = None THEN {0} ELSE asInt(q, i)
fbn_as_double(q, name) ==
    LET i == fieldIdxByName(q, name) IN IF i = None THEN {<<0, 1>>} ELSE asDouble(q, i)

-----------------------------------------------------------------------------
\* __vax_integer: the lowest byte first, the last one with its sign.
VaxInteger(bytes) ==
    LET weight(i) == 256 ^ (i - 1)
        top == bytes[Len(bytes)]
    IN  IF Len(bytes) \notin 1 .. 4 THEN 0
        ELSE (IF top < 128 THEN top ELSE top - 256) * weight(Len(bytes))
             + FoldLeft(LAMBDA n, i : n + bytes[i] * weight(i), 0, [i \in 1 .. Len(bytes) - 1 |-> i])

\* Strings, whose caller owns a pointer: "null", to a "block", or "dangling".
\* twice: a block was freed again.
Pointer(ok, str, twice) == [ok |-> ok, str |-> str, twice |-> twice]
Freed(str) == Pointer(FALSE, IF str = "null" THEN "null" ELSE "dangling", str = "dangling")

\* A VARCHAR is known by the two bytes of its length: any but an empty one is copied, freed
\* and refused, since strncpy returns its first argument and not 0.
StringRealloc(q, field_idx, str, Failed) ==
    LET type == Column(q, field_idx).type
        grown == Pointer(TRUE, "block", str = "dangling")
        read(v) == IF type = "varying" /\ VaxInteger(v) > 0 THEN Failed ELSE grown
    IN  {Pointer(FALSE, str, FALSE)}
        \cup IF type \in {"text", "varying"} /\ q.row # Unset /\ q.row[field_idx] # Null
             THEN {read(q.row[field_idx])} ELSE {}

\* Mutant: the pointer is not set to NULL when the copy is refused.
StringReallocKeeps(q, field_idx, str) == StringRealloc(q, field_idx, str, Freed("block"))

field_try_as_string_realloc(q, field_idx, str) ==
    StringRealloc(q, field_idx, str, Pointer(FALSE, "null", str = "dangling"))

\* A failure frees the caller's block, whose pointer is left as it is.
fbn_as_string_realloc(q, name, str) ==
    LET i == fieldIdxByName(q, name)
        tried == IF i = None THEN {Pointer(FALSE, str, FALSE)}
                 ELSE field_try_as_string_realloc(q, i, str)
    IN  {IF r.ok THEN r ELSE [Freed(r.str) EXCEPT !.twice = @ \/ r.twice] : r \in tried}
=============================================================================
