----------------------------- MODULE MCUserCalls ----------------------------
(* A small instance of UserCalls for TLC. *)
EXTENDS UserCallsInv

CONSTANTS ints, chars, varchar

Field(type, length) == [type |-> type, length |-> length, scale |-> 0]
Int4 == Field("long", 0)
Int8 == Field("int64", 0)
SumAs(first) == [in |-> <<first, Int4, Int4>>, out |-> Int4]
TextAs(f) == [in |-> <<Int4>>, out |-> f]

MCDeclarations ==
    (SumFn  :> {SumAs(Int4), SumAs(Int8)}) @@
    (TextFn :> {TextAs(f) : f \in {Field("text", 3), Field("varying", 2), Field("varying", 3),
                                   Field("blob", 0)}}) @@
    (ReadFn :> {[in |-> <<>>, out |-> Int4]})

MCArgs == {IntMin, -1, IntMax, Null}

\* characters are numbers other than 0 and Blank
MCInfoTexts == {[k \in 1 .. n |-> k] : n \in 1 .. 5}

Col(alias, type, scale) == [alias |-> alias, type |-> type, scale |-> scale]

\* a number with a decimal behind a CHAR; a CHAR; a VARCHAR
MCStatements ==
    (SumText :> [params |-> <<"long", "long", "long">>, columns |-> <<Col("res", "int64", 0)>>]) @@
    (ints    :> [params |-> <<>>, columns |-> <<Col("b", "text", 0), Col("a", "int64", -1)>>]) @@
    (chars   :> [params |-> <<"short">>, columns |-> <<Col("a", "text", 0)>>]) @@
    (varchar :> [params |-> <<"text">>, columns |-> <<Col("a", "varying", 0)>>])

MCRows ==
    (ints    :> {<<1, 24>>, <<1, -4>>, <<Null, 99>>, <<1, Null>>}) @@
    (chars   :> {<<2>>, <<Null>>}) @@
    (varchar :> {<< <<0, 0>> >>, << <<2, 0>> >>, <<Null>>})

Abs(n) == IF n < 0 THEN -n ELSE n

\* Double against its definition: of the numbers with so many bits none is nearer,
\* and at a half an even mantissa is taken.
ASSUME DoubleAssumption ==
  LET top == 2 ^ DoubleBits
      powers == {<<2 ^ e, 1>> : e \in 0 .. 8} \cup {<<1, 2 ^ e>> : e \in 0 .. 10}
  IN  \A n \in -300 .. 300, d \in {1, 10, 100} :
        LET x == Double(n, d)
            Off(a, b) == Abs(a * d - n * b)   \* d * b times the distance of a / b and n / d
        IN  /\ n = 0 => x = <<0, 1>>
            /\ n # 0 => \E p \in powers :
                  LET mantissa == (x[1] * p[2]) \div (x[2] * p[1])
                  IN  /\ mantissa * x[2] * p[1] = x[1] * p[2] /\ Abs(mantissa) <= top
                      /\ \A m \in {mantissa - 1, mantissa + 1} :
                            LET near == Off(mantissa * p[1], p[2])
                                other == Off(m * p[1], p[2])
                            IN  near < other \/ (near = other /\ mantissa % 2 = 0)
                      /\ 2 * Abs(mantissa) >= top \/ x = <<n, d>>

\* A number of no more bits than a double has is rounded to the nearest integer, ties
\* away from 0; of a longer one the digits behind them count for nothing, so that 2.4
\* may be read as 3.
ASSUME ScaleAssumption ==
  /\ \A v \in -(2 ^ DoubleBits) .. 2 ^ DoubleBits, scale \in -1 .. 1 :
        LET r == Rounded(adjustNumericScale(v, scale))
            far == 2 * (v - r * 10)
        IN  /\ scale = 0 => r = v
            /\ scale = -1 => Abs(far) < 10 \/ (Abs(far) = 10 /\ (far > 0) = (v < 0))
  /\ Rounded(adjustNumericScale(24, -1)) = 3

\* __vax_integer reads a little-endian number in two's complement.
ASSUME VaxAssumption ==
  \A n \in 1 .. 3 : \A bytes \in [1 .. n -> {0, 1, 127, 128, 255}] :
    LET unsigned(w) == FoldLeft(LAMBDA x, i : 256 * x + w[n + 1 - i], 0, [i \in 1 .. n |-> i])
    IN  VaxInteger(bytes) = unsigned(bytes) - (IF bytes[n] >= 128 THEN 256 ^ n ELSE 0)

\* print_human_time_elapsed prints the whole seconds since a time in the past,
\* from the largest unit that is not 0.
ASSUME ElapsedAssumption ==
  \A seconds \in {0, 1, 59, 60, 61, 3599, 3600, 3661, 86399, 86400, 86401, 90061, 172800},
     ms \in {0, 999} :
    LET p == print_human_time_elapsed(1000 * seconds + ms)
        unit == [d |-> 86400, h |-> 3600, m |-> 60, s |-> 1]
        of(u) == IF u \in DOMAIN p THEN p[u] ELSE 0
    IN  /\ seconds = of("d") * 86400 + of("h") * 3600 + of("m") * 60 + of("s")
        /\ of("h") < 24 /\ of("m") < 60 /\ of("s") < 60
        /\ \A u \in DOMAIN p : \A w \in DOMAIN unit : unit[w] < unit[u] => w \in DOMAIN p
        /\ \A u \in DOMAIN p : p[u] > 0 \/ u = "s" \/ \E w \in DOMAIN p : unit[w] > unit[u]
=============================================================================
