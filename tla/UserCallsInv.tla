---------------------------- MODULE UserCallsInv ----------------------------
(***************************************************************************)
(* The inductive invariant behind the properties of UserCalls: what the    *)
(* query of a call holds at each step of the function, how far its cursor  *)
(* is against what the function has read, who owns the string; where the   *)
(* sum is on its way from the arguments to the result, and by which        *)
(* declaration messages are read.                                          *)
(***************************************************************************)
EXTENDS UserCalls

\* The steps of a function between the constructor and the destructor.
Querying == {"prepare", "bind", "open", "take", "loop", "next", "close", "destroy", "unwind"}

Members == {"att", "tra", "stmt", "curs", "in_meta", "out_meta", "in_buffer", "out_buffer"}

\* A query and a call have their fields.
ShapeInv ==
    /\ DOMAIN call = DOMAIN NoCall
    /\ call.pc \in Querying => DOMAIN q = DOMAIN NewQuery

\* A query holds nothing but its members, and nothing once it is destroyed.
HeldInv ==
    /\ call.pc \in {"idle", "enter", "build"} => q = None
    /\ call.pc \in Querying => q.held \subseteq Members
    /\ call.pc \in {"bind", "open", "loop", "next"} => "out_buffer" \in q.held
    /\ QueryReleased

\* A pointer dangles from a failed call to the next row.
StringInv ==
    /\ StringsOwned
    /\ call.str \in {"null", "block", "dangling"}
    /\ call.str = "dangling" => call.pc = "next"

\* The index of a column in the table of names that a text gives.
Aliases(T) == [i \in DOMAIN Statements[T].columns |-> Statements[T].columns[i].alias]
IndexIn(T, name) ==
    LET at == {i \in DOMAIN Aliases(T) : Aliases(T)[i] = name}
    IN  IF at = {} THEN None ELSE Max(at)

\* What a function that reads numbers is to make of the column in row r.
RightIn(T, how, r) ==
    LET c == Statements[T].columns[IndexIn(T, Column1)]
        v == r[IndexIn(T, Column1)]
        x == adjustNumericScale(v, c.scale)
    IN  IF v = Null THEN (IF how = "int" THEN 0 ELSE <<0, 1>>)
        ELSE IF how = "int" THEN Rounded(x) ELSE x

\* Value x was read from row r.
ReadFrom(x, T, how, r) ==
    /\ IndexIn(T, Column1) # None
    /\ Statements[T].columns[IndexIn(T, Column1)].type \in Numbers
    /\ how = "int" => RightIn(T, how, r) \in Ints
    => x = RightIn(T, how, r)

\* Before the cursor is open nothing has been read.
IdleInv ==
    /\ call.pc \in {"build", "prepare", "bind", "open", "close", "destroy"} => call.seen = <<>>
    /\ call.pc = "prepare" => q.at = "none" /\ {"stmt", "curs"} \cap q.held = {}
    /\ call.pc \in {"bind", "open"} =>
          q.at = "none" /\ "curs" \notin q.held /\ "out_meta" \in q.held

\* In the loop the function is at the row it has yet to read, or at the end; what
\* it has seen is what the rows before had.
LoopInv ==
    call.pc \in {"loop", "next"} =>
        /\ {"curs", "out_meta"} \subseteq q.held
        /\ q.rows \in Seq(Range(q.rows)) /\ call.seen \in Seq(Range(call.seen))
        /\ q.at = "row" => q.row # Unset
        /\ call.args.how # "string" =>
              /\ q.at \in {"row", "end"}
              /\ call.pc = "loop" /\ q.at = "row" =>
                    Len(q.rows) = Len(call.seen) + 1 /\ q.row = q.rows[Len(q.rows)]
              /\ call.pc = "next" \/ q.at = "end" => Len(q.rows) = Len(call.seen)
              /\ \A k \in DOMAIN call.seen :
                    ReadFrom(call.seen[k], q.text, call.args.how, q.rows[k])

\* A call has one text, whose columns are the only names its query ever has.
ReaderInv ==
    fn = ReadFn =>
        /\ call.pc \notin {"enter", "take", "write"}
        /\ call.pc \in Querying \cup {"build"} => call.args.text \in ReadTexts
        /\ call.pc \in Querying =>
              /\ q.names \in {<<>>, Aliases(call.args.text)}
              /\ call.pc \in {"bind", "open", "loop", "next"} => q.text = call.args.text
        /\ IdleInv
        /\ LoopInv

QueryInv ==
    /\ fn \in Functions
    /\ ShapeInv
    /\ HeldInv
    /\ StringInv
    /\ ReaderInv

(* What the function answers *)

\* An object describes messages by a declaration there was; a call has one of
\* those there are.
DescribedInv ==
    /\ decl \in [Databases -> Declarations[fn] \cup {None}]
    /\ ever \subseteq Declarations[fn] /\ Declared \subseteq ever /\ IsFiniteSet(ever)
    /\ meta # None => \E d \in ever : meta = PSERoutineMeta(d)
    /\ call.pc # "idle" =>
          call.db \in Databases /\ Declaration # None /\ \E d \in ever : meta = PSERoutineMeta(d)

\* The sum on its way: arguments, parameters of the query, its row, the result.
\* With one declaration nothing is lost between them.
SumInv ==
    fn = SumFn =>
        /\ call.pc \notin {"loop", "next"}
        /\ call.pc # "idle" => call.args \in [1 .. 3 -> Args]
        /\ call.pc = "prepare" => q.at = "none"
        /\ call.pc \in {"bind", "open"} => q.text = SumText /\ q.at = "none"
        /\ call.pc = "bind" => DOMAIN q.in = 1 .. 3
        /\ Cardinality(ever) = 1 =>
              /\ call.pc \in {"build", "prepare", "bind"} => \A i \in 1 .. 3 : call.n[i] = call.args[i]
              /\ call.pc = "open" => q.in = call.args
              /\ call.pc = "take" => q.text = SumText /\ q.row = <<Sum(call.args)>>
              /\ call.pc \in {"close", "destroy", "write"} /\ Sum(call.args) \in Ints \cup {Null} =>
                    call.result = Sum(call.args)
        /\ ReturnsSum

TextInv ==
    fn = TextFn => call.pc \in {"idle", "enter", "returned"} /\ TextReturned

AnswerInv == DescribedInv /\ SumInv /\ TextInv

(* What its values are *)

\* The values of a query, while there is one and after its destruction.
ValidQuery(p) ==
    /\ DOMAIN p = DOMAIN NewQuery
    /\ p.held \subseteq Members
    /\ p.text \in DOMAIN Statements \cup {None}
    /\ p.at \in {"none", "row", "end"}
    /\ p.rows \in Seq(Range(p.rows)) /\ Len(p.rows) <= MaxRows + 1
    /\ Range(p.in) \subseteq Ints \cup {Null}
    /\ p.row # Unset => "out_buffer" \in p.held

ValuesInv ==
    /\ q = None \/ ValidQuery(q)
    /\ call.pc \in Querying => ValidQuery(q)
    /\ call.pc \in Querying \cup {"idle", "enter", "build", "write", "returned", "threw", "terminated"}
    /\ call.db \in Databases \cup {None}
    /\ Range(call.n) \subseteq Ints \cup {Null} /\ call.result \in Ints \cup {Null}
    /\ fn = SumFn /\ call.pc \in {"build", "prepare", "bind"} => DOMAIN call.n = 1 .. 3
    /\ call.twice \in BOOLEAN /\ call.outside \in BOOLEAN

\* The inductive invariant, whose parts rest on those before them.
CallInv == QueryInv /\ AnswerInv /\ ValuesInv
=============================================================================
