------------------------------- MODULE SqlScan -------------------------------
(***************************************************************************)
(* The rewriting of SQL parameters (PreprocessSQL in fbaccess.c).  A text  *)
(* is a sequence of character classes; "n" stands for any character of a   *)
(* parameter name but the letter r, "sp" for any without a meaning of its  *)
(* own, ":" for both ':' and '@', "nl" for the end of a line, "dq" for a   *)
(* double quote.                                                           *)
(***************************************************************************)
EXTENDS Naturals, Sequences, SequencesExt

NameChars == {"n", "r"}
Designators == {"?", ":"}
Chars == {"-", "/", "*", "'", "dq", "nl", "sp"} \cup NameChars \cup Designators

\* The first position of T from i on whose character is in S, or just behind T.
FirstOf(T, i, S) ==
    LET p == SelectInSubSeq(T, i, Len(T), LAMBDA c : c \in S)
    IN  IF p = 0 THEN Len(T) + 1 ELSE p

\* The quote q that closes a text whose first character is at i (a doubled
\* quote stands for itself), or 0.
FindMatchingQuote(T, i, q) ==
    LET find[j \in 1 .. Len(T) + 2] ==
            IF j > Len(T) THEN 0
            ELSE IF T[j] # q THEN find[j + 1]
            ELSE IF j < Len(T) /\ T[j + 1] = q THEN find[j + 2]
            ELSE j
    IN  find[i]

IsPair(T, i, a, b) == i < Len(T) /\ T[i] = a /\ T[i + 1] = b

\* The position behind what begins at i and is no parameter; 0: it never ends.
\* A comment to the end of the line also ends at a letter r: the code compares
\* with 'r' where '\r' is meant.
Skip(T, i) ==
    LET closed(p, n) == IF p = 0 THEN 0 ELSE p + n
    IN  CASE IsPair(T, i, "-", "-") -> FirstOf(T, i + 2, {"r", "nl"})
          [] IsPair(T, i, "/", "*") ->
                LET ends == {j \in i + 2 .. Len(T) : IsPair(T, j, "*", "/")}
                IN  IF ends = {} THEN 0 ELSE Min(ends) + 2
          [] T[i] \in {"'", "dq"} -> closed(FindMatchingQuote(T, i + 1, T[i]), 1)
          [] OTHER -> i + 1

\* The parameter whose designator is at i: its name (<<>>: none) and the
\* position behind it; next = 0: a name is missing or never ends.
Marker(T, i) ==
    LET j == i + 1
        q == FindMatchingQuote(T, j + 1, "dq")
        e == FirstOf(T, j, Chars \ NameChars)
        mark(name, next) == [at |-> i, name |-> name, next |-> next]
    IN  CASE j <= Len(T) /\ T[j] = "dq" ->
                IF q = 0 THEN mark(<<>>, 0) ELSE mark(SubSeq(T, j + 1, q - 1), q + 1)
          [] j <= Len(T) /\ T[j] \in NameChars -> mark(SubSeq(T, j, e - 1), e)
          [] OTHER -> mark(<<>>, IF T[i] = "?" THEN j ELSE 0)

Refused == [ok |-> FALSE, marks |-> <<>>, out |-> <<>>]

\* The parameters of T, and T with a ? in the place of each.  A parameter must
\* have some text before it (LSubstrLen).
PreprocessSQL(T) ==
    LET walk[i \in 1 .. Len(T) + 1, start \in 1 .. Len(T) + 1] ==
            IF i > Len(T)
            THEN [ok |-> TRUE, marks |-> <<>>, out |-> SubSeq(T, start, Len(T))]
            ELSE IF T[i] \in Designators
            THEN LET m    == Marker(T, i)
                     rest == walk[m.next, m.next]
                 IN  IF i = start \/ m.next = 0 \/ ~rest.ok THEN Refused
                     ELSE [ok    |-> TRUE,
                           marks |-> <<m>> \o rest.marks,
                           out   |-> SubSeq(T, start, i - 1) \o <<"?">> \o rest.out]
            ELSE IF Skip(T, i) = 0 THEN Refused ELSE walk[Skip(T, i), start]
    IN  IF T = <<>> THEN Refused ELSE walk[1, 1]

-----------------------------------------------------------------------------
\* How SQL itself reads a text (the server does): the lexical mode before each
\* character and, last, behind the text.
Modes(T) ==
    LET plain == {"code", "dash", "slash"}
        after(m, c) ==
          CASE m = "line"  -> IF c = "nl" THEN "code" ELSE "line"
            [] m = "block" -> IF c = "*" THEN "star" ELSE "block"
            [] m = "star"  -> CASE c = "/" -> "code" [] c = "*" -> "star" [] OTHER -> "block"
            [] m = "'"     -> IF c = "'" THEN "code" ELSE m
            [] m = "dq"    -> IF c = "dq" THEN "code" ELSE m
            [] m \in plain -> CASE c = "-" -> IF m = "dash" THEN "line" ELSE "dash"
                                [] c = "*" -> IF m = "slash" THEN "block" ELSE "code"
                                [] c = "/" -> "slash"
                                [] c \in {"'", "dq"} -> c
                                [] OTHER -> "code"
    IN  FoldLeft(LAMBDA ms, c : Append(ms, after(Last(ms), c)), <<"code">>, T)

Codes == {"code", "dash", "slash"}

\* The positions of the parameters of T, and whether T is complete.
ParametersAt(T) ==
    LET ms == Modes(T) IN {i \in 1 .. Len(T) : T[i] \in Designators /\ ms[i] \in Codes}
IsComplete(T) == Last(Modes(T)) \in Codes \cup {"line"}

\* A letter r in a comment to the end of the line.
RInComment(T) == LET ms == Modes(T) IN \E i \in 1 .. Len(T) : T[i] = "r" /\ ms[i] = "line"

\* PreprocessSQL finds the parameters of T and no others, in their order, and
\* leaves the server as many.
FindsParameters(T) ==
    LET p == PreprocessSQL(T)
    IN  p.ok => /\ [k \in DOMAIN p.marks |-> p.marks[k].at] = SetToSortSeq(ParametersAt(T), <)
                /\ \A i \in ParametersAt(p.out) : p.out[i] = "?"
                /\ Cardinality(ParametersAt(p.out)) = Len(p.marks)
                /\ IsComplete(T)
=============================================================================
