----------------------------- MODULE MetaCache ------------------------------
(***************************************************************************)
(* meta_cache.h: the description of a routine's messages, copied from      *)
(* Firebird when the function object is created.                           *)
(*                                                                         *)
(* A message is a function from offsets to cells.  A cell holds a number   *)
(* of 32 bits, a character or a NULL flag, so that only widths of one      *)
(* message against another count.                                          *)
(***************************************************************************)
EXTENDS Integers, SequencesExt

CONSTANTS
    IntBits,   \* width of ISC_LONG and of int
    Null,      \* the SQL value NULL
    Unset      \* a cell nobody has written

ASSUME CellAssumption == Null \notin Int /\ Unset \notin Int \cup {Null}

IntMin == -(2 ^ (IntBits - 1))
IntMax == 2 ^ (IntBits - 1) - 1
Ints == IntMin .. IntMax

\* Cells of a field without its NULL flag: a VARCHAR has a length in front.
DataCells(f) ==
    CASE f.type = "int64"   -> 2
      [] f.type = "text"    -> f.length
      [] f.type = "varying" -> f.length + 1
      [] OTHER              -> 1

\* getMessageLength: every field is followed by its NULL flag.
MessageLength(fs) == FoldLeft(LAMBDA n, f : n + DataCells(f) + 1, 0, fs)

\* PSEMsgMeta::set
set(fs) ==
    LET at(i) == MessageLength(SubSeq(fs, 1, i - 1))
    IN  [i \in DOMAIN fs |->
            [type |-> fs[i].type, length |-> fs[i].length,
             offset |-> at(i), null_offset |-> at(i) + DataCells(fs[i])]]

\* The look-ups; index counts from 0.
getType(m, index) == m[index + 1].type
getLength(m, index) == m[index + 1].length
getOffset(m, index) == m[index + 1].offset
getNullOffset(m, index) == m[index + 1].null_offset

\* PSERoutineMeta(metadata, status) for a declaration
PSERoutineMeta(d) == [in_meta |-> set(d.in), out_meta |-> set(<<d.out>>)]

-----------------------------------------------------------------------------
\* Firebird's side of a message: a buffer for fields, values put into it, and
\* the value read from it.
Buffer(fs) == [k \in 0 .. MessageLength(fs) - 1 |-> Unset]

\* A 64-bit number lies with its low half first.
Cells(f, v) == IF f.type = "int64" THEN <<v, IF v < 0 THEN -1 ELSE 0>> ELSE <<v>>

Message(fs, values) ==
    LET m == set(fs)
        within(i, k) == k \in m[i].offset .. m[i].null_offset
        cell(i, k) == IF k = m[i].null_offset THEN (IF values[i] = Null THEN -1 ELSE 0)
                      ELSE IF values[i] = Null THEN Unset
                      ELSE Cells(fs[i], values[i])[k - m[i].offset + 1]
    IN  [k \in DOMAIN Buffer(fs) |-> cell(CHOOSE i \in DOMAIN fs : within(i, k), k)]

\* What a program may find at an offset: memory outside the message, or not
\* written, holds anything.
CellAt(msg, k) == IF k \in DOMAIN msg /\ msg[k] # Unset THEN {msg[k]} ELSE Ints

\* One cell, and cells over others: :> and @@, which the provers do not know.
OneCell(k, v) == [j \in {k} |-> v]
Over(f, g) == [k \in DOMAIN f \cup DOMAIN g |-> IF k \in DOMAIN f THEN f[k] ELSE g[k]]

\* The value of the only field of a result message.
Result(f, msg) ==
    LET m == set(<<f>>)
    IN  IF msg[getNullOffset(m, 0)] # 0 THEN Null
        ELSE [k \in 0 .. DataCells(f) - 1 |-> msg[getOffset(m, 0) + k]]
=============================================================================
