------------------------------ MODULE UserCalls -----------------------------
(***************************************************************************)
(* A call of a function of the engine, from the message Firebird sends to  *)
(* the message it gets back: the functions of the user module, which work  *)
(* through IFBQuery, and the two of the engine, which return a text.       *)
(*                                                                         *)
(* The calls of a function share nothing but the description of its        *)
(* messages, written once; so one call at a time is all there is to see.   *)
(* What they do to the module is PSEngine's matter.                        *)
(***************************************************************************)
EXTENDS IFBQuery, ResultText

CONSTANTS
    Databases,
    SumFn,          \* my_sum_args and my_sum_args2
    TextFn,         \* pse_reload_module and pse_get_module_info
    ReadFn,         \* a user function that reads the rows of a query
    Declarations,   \* Declarations[fn]: ways to declare fn in a database
    Args,           \* values of arguments
    InfoTexts,      \* texts the engine has to return
    Column1         \* the column ReadFn reads

Functions == {SumFn, TextFn, ReadFn}
ReadTexts == DOMAIN Statements \ {SumText}

ASSUME UserCallsAssumption ==
    /\ IntBits \in Nat \ {0, 1} /\ ShortBits \in Nat \ {0} /\ MaxRows \in Nat
    \* a double tells every int from every other
    /\ DoubleBits \in Nat /\ 2 ^ (IntBits - 1) < 2 ^ DoubleBits
    /\ Args \subseteq Ints \cup {Null}
    /\ SumFn # TextFn /\ SumFn # ReadFn /\ TextFn # ReadFn
    /\ \A T \in ReadTexts : Unset \notin Rows[T]
    /\ Unset \notin Seq(Int \cup {Null})
    \* my_sum_args has three integers, which it casts and adds in SQL
    /\ \A d \in Declarations[SumFn] :
          /\ DOMAIN d.in = 1 .. 3 /\ \A i \in 1 .. 3 : d.in[i].type \in {"long", "int64"}
          /\ d.out.type = "long"
    /\ SumText \in DOMAIN Statements /\ Statements[SumText].params = <<"long", "long", "long">>
    /\ LET res == Statements[SumText].columns[1] IN res.type = "int64" /\ res.scale = 0
    \* Firebird has no VARCHAR longer than a short
    /\ \A d \in Declarations[TextFn] : d.out.length \in 0 .. 2 ^ (ShortBits - 1) - 1
    /\ InfoTexts \subseteq Seq(Nat) /\ None \notin InfoTexts

VARIABLES
    fn,      \* the function this behaviour is about
    decl,    \* decl[d]: its declaration in database d, or None
    meta,    \* the description its object has, or None without an object
    ever,    \* history: declarations there were since the server started
    q,       \* the IFBQuery of the call, or None
    call     \* the call

server == <<fn, decl, meta, ever>>
vars == <<server, q, call>>

\* args: what it is called with; n: the arguments as parsed; result: the value
\* to return, text: the text to return; seen: values read from rows; str: the caller's string pointer;
\* twice: a string was freed twice; out: the message returned; outside: something
\* was written behind it.
NoCall == [pc |-> "idle", db |-> None, args |-> <<>>, n |-> <<>>, result |-> Null,
           text |-> None, seen |-> <<>>, str |-> "null", twice |-> FALSE, out |-> <<>>, outside |-> FALSE]

Init ==
    /\ fn \in Functions
    /\ decl = [d \in Databases |-> None] /\ meta = None /\ ever = {}
    /\ q = None /\ call = NoCall

Declared == {decl[d] : d \in Databases} \ {None}
Declaration == decl[call.db]

-----------------------------------------------------------------------------
\* Declarations, which a call in progress keeps from changing.

\* CREATE OR ALTER FUNCTION
Declare(d) ==
    /\ call.pc = "idle"
    /\ \E s \in Declarations[fn] : decl' = [decl EXCEPT ![d] = s] /\ ever' = ever \cup {s}
    /\ UNCHANGED <<fn, meta, q, call>>

\* DROP FUNCTION: the engine is not told.
DropFunction(d) ==
    /\ call.pc = "idle"
    /\ decl' = [decl EXCEPT ![d] = None]
    /\ UNCHANGED <<fn, meta, ever, q, call>>

\* The server ends, by itself or by an exception in a destructor, and starts again.
Restart ==
    /\ call.pc \in {"idle", "terminated"}
    /\ meta' = None /\ ever' = Declared
    /\ q' = None /\ call' = NoCall
    /\ UNCHANGED <<fn, decl>>

-----------------------------------------------------------------------------
\* The call: Firebird makes the function, which describes the messages if it is
\* the first, and executes it.
ArgsOf(d) ==
    CASE fn = SumFn  -> [DOMAIN decl[d].in -> Args]
      [] fn = TextFn -> {<<>>}
      [] fn = ReadFn -> [text : ReadTexts, how : {"int", "double", "string"}]

BeginCall(d) ==
    /\ call.pc = "idle"
    /\ decl[d] # None
    /\ meta' = IF meta = None THEN PSERoutineMeta(decl[d]) ELSE meta
    /\ \E a \in ArgsOf(d) : call' = [NoCall EXCEPT !.pc = IF fn = ReadFn THEN "build" ELSE "enter",
                                                   !.db = d, !.args = a]
    /\ UNCHANGED <<fn, decl, ever, q>>

\* parseArg: the NULL flag and, if it is 0, the value, by the description.
parseArg(m, in, idx) ==
    LET flags == CellAt(in, getNullOffset(m.in_meta, idx))
    IN  (IF flags = {0} THEN {} ELSE {Null})
        \cup (IF 0 \in flags THEN CellAt(in, getOffset(m.in_meta, idx)) ELSE {})

ParseArgs ==
    /\ call.pc = "enter" /\ fn = SumFn
    /\ LET in == Message(Declaration.in, call.args)
       IN  \E n1 \in parseArg(meta, in, 0), n2 \in parseArg(meta, in, 1), n3 \in parseArg(meta, in, 2) :
              call' = [call EXCEPT !.pc = "build", !.n = <<n1, n2, n3>>]
    /\ UNCHANGED <<server, q>>

\* One operation on the query; an exception unwinds the function.
Do(outcomes, to) ==
    \E o \in outcomes :
        /\ q' = o.q
        /\ call' = [call EXCEPT !.pc = IF o.thrown THEN "unwind" ELSE to]
        /\ UNCHANGED server

\* The constructor may throw: then there is no query.
BuildQuery ==
    /\ call.pc = "build"
    /\ \/ Do({Ok(NewQuery, TRUE)}, "prepare")
       \/ call' = [call EXCEPT !.pc = "threw"] /\ UNCHANGED <<server, q>>

Prepare ==
    /\ call.pc = "prepare"
    /\ Do(prepare(q, IF fn = SumFn THEN SumText ELSE call.args.text), "bind")

\* perform_my_sum_args sets all parameters, one after the other; another function
\* sets what it likes.
SetParam(p, i, v) == IF v = Null THEN setParamAsNull(p, i).q ELSE setParamAsInt(p, i, v).q

BindArguments ==
    /\ call.pc = "bind"
    /\ \E values \in IF fn = SumFn THEN {call.n} ELSE [DOMAIN q.in -> Args] :
          Do({Ok([q EXCEPT !.in = [i \in DOMAIN q.in |-> SetParam(q, i, values[i]).in[i]]], TRUE)}, "open")

OpenCursor == call.pc = "open" /\ Do(openCursor(q), IF fn = SumFn THEN "take" ELSE "loop")

\* A look-up in the descriptions of the messages, or the question for the end of
\* the cursor, throws; what was half done goes with the query.
LookUpThrows ==
    /\ call.pc \in {"bind", "take", "loop"}
    /\ call' = [call EXCEPT !.pc = "unwind"]
    /\ UNCHANGED <<server, q>>

\* The sum is in the first row; whether there is one is not asked.
TakeSum ==
    /\ call.pc = "take"
    /\ \E null \in getFieldIsNull(q, 1) : \E v \in IF null THEN {Null} ELSE asInt(q, 1) :
          call' = [call EXCEPT !.pc = "close", !.result = v]
    /\ UNCHANGED <<server, q>>

\* while (!eof()) { read a column by its name; next(); }
ReadNumber ==
    /\ call.pc = "loop" /\ ~eof(q) /\ call.args.how # "string"
    /\ \E v \in IF call.args.how = "int" THEN fbn_as_int(q, Column1) ELSE fbn_as_double(q, Column1) :
          call' = [call EXCEPT !.pc = "next", !.seen = Append(@, v)]
    /\ q' = Named(q)
    /\ UNCHANGED server

ReadString ==
    /\ call.pc = "loop" /\ ~eof(q) /\ call.args.how = "string"
    /\ \E p \in fbn_as_string_realloc(q, Column1, call.str) :
          call' = [call EXCEPT !.pc = "next", !.str = p.str, !.twice = @ \/ p.twice]
    /\ q' = Named(q)
    /\ UNCHANGED server

\* The caller forgets a pointer whose block a failed call has freed.
NextRow ==
    /\ call.pc = "next"
    /\ \E o \in next(q) :
          /\ q' = o.q
          /\ call' = [call EXCEPT !.pc = IF o.thrown THEN "unwind" ELSE "loop",
                                  !.str = IF @ = "dangling" THEN "null" ELSE @]
    /\ UNCHANGED server

EndLoop ==
    /\ call.pc = "loop" /\ eof(q)
    /\ \E to \in {"close", "destroy"} : call' = [call EXCEPT !.pc = to, !.seen = <<>>]
    /\ UNCHANGED <<server, q>>

\* A reader may run its statement again.
CloseQuery ==
    /\ call.pc = "close"
    /\ \E to \in {"destroy"} \cup (IF fn = ReadFn THEN {"prepare"} ELSE {}) : Do(close(q), to)

\* At the end of the function or by an exception.
DestroyQuery ==
    /\ call.pc \in {"destroy", "unwind"}
    /\ \E o \in Destructor(q) :
          /\ q' = o.q
          /\ call' = [call EXCEPT !.pc = IF o.thrown THEN "terminated"
                                         ELSE IF call.pc = "unwind" THEN "threw"
                                         ELSE IF fn = SumFn THEN "write" ELSE "returned"]
    /\ UNCHANGED server

\* The cells w go into the message of the declaration, or past its end; text is
\* what was to be returned.
Return(w, text) ==
    LET out == Buffer(<<Declaration.out>>)
    IN  call' = [call EXCEPT !.pc = "returned", !.text = text,
                             !.out = [k \in DOMAIN out |-> IF k \in DOMAIN w THEN w[k] ELSE Unset],
                             !.outside = ~(DOMAIN w \subseteq DOMAIN out)]

WriteSum ==
    /\ call.pc = "write"
    /\ LET flag == OneCell(getNullOffset(meta.out_meta, 0), IF call.result = Null THEN 1 ELSE 0)
       IN  Return(IF call.result = Null THEN flag
                  ELSE Over(OneCell(getOffset(meta.out_meta, 0), call.result), flag), None)
    /\ UNCHANGED <<server, q>>

\* execSpecReloadModule and execSpecGetModuleInfo: there is no text if the
\* reload failed, or there is no module.
ExecSpec ==
    /\ call.pc = "enter" /\ fn = TextFn
    /\ LET flag(n) == OneCell(getNullOffset(meta.out_meta, 0), n)
       IN  \/ Return(flag(1), None)
           \/ \E text \in InfoTexts : Return(Over(return_result_text(0, meta, text), flag(0)), text)
    /\ UNCHANGED <<server, q>>

EndCall ==
    /\ call.pc \in {"returned", "threw"}
    /\ call' = NoCall /\ q' = None
    /\ UNCHANGED server

Next ==
    \/ \E d \in Databases : Declare(d) \/ DropFunction(d) \/ BeginCall(d)
    \/ Restart \/ ParseArgs \/ BuildQuery \/ Prepare \/ BindArguments \/ OpenCursor
    \/ LookUpThrows \/ TakeSum \/ ReadNumber \/ ReadString \/ NextRow \/ EndLoop \/ CloseQuery \/ DestroyQuery
    \/ WriteSum \/ ExecSpec \/ EndCall

Spec == Init /\ [][Next]_vars
-----------------------------------------------------------------------------
TypeOK ==
    /\ fn \in Functions
    /\ decl \in [Databases -> Declarations[fn] \cup {None}]
    /\ meta = None \/ \E d \in Declarations[fn] : meta = PSERoutineMeta(d)
    /\ ever \subseteq Declarations[fn] /\ Declared \subseteq ever
    /\ q = None \/ /\ q.held \subseteq {"att", "tra", "stmt", "curs", "in_meta", "out_meta",
                                        "in_buffer", "out_buffer"}
                   /\ q.text \in DOMAIN Statements \cup {None}
                   /\ q.at \in {"none", "row", "end"} /\ Len(q.rows) <= MaxRows + 1
                   /\ Range(q.in) \subseteq Ints \cup {Null}
                   /\ q.row # Unset => "out_buffer" \in q.held
    /\ call.pc \in {"idle", "enter", "build", "prepare", "bind", "open", "take", "loop", "next",
                    "close", "unwind", "destroy", "write", "returned", "threw", "terminated"}
    /\ call.db \in Databases \cup {None}
    /\ Range(call.n) \subseteq Ints \cup {Null} /\ call.result \in Ints \cup {Null}
    /\ call.str \in {"null", "block", "dangling"}
    /\ call.twice \in BOOLEAN /\ call.outside \in BOOLEAN

\* What the function should return: NULL if an argument is, otherwise the sum.
CorrectSum ==
    LET sum == Sum(call.args)
    IN  sum \in Ints \cup {Null} =>
            Result(Declaration.out, call.out) = IF sum = Null THEN Null ELSE [k \in {0} |-> sum]

\* my_sum_args returns the sum of its arguments, NULL if one of them is, whenever
\* the function has had but one declaration since the server started: over the
\* offsets of both messages, the parameters of the query and the conversion of
\* its result.  A sum that is no int is left open (do_exec_my_sum_args).
ReturnsSum ==
    fn = SumFn /\ call.pc = "returned" /\ Cardinality(ever) = 1 => CorrectSum

\* The same if only the present declarations are identical in all databases.
IdenticalDeclarationsSuffice ==
    fn = SumFn /\ call.pc = "returned" /\ Cardinality(Declared) = 1 => CorrectSum

\* A text shorter than the field is returned whole, behind its length in a
\* VARCHAR and before blanks in a CHAR, with nothing written outside the message;
\* a field of another type becomes NULL (return_result_text).
TextReturned ==
    fn = TextFn /\ call.pc = "returned" /\ Cardinality(ever) = 1 =>
        LET f == Declaration.out
            size == Len(call.text)
            value == Result(f, call.out)
        IN  IF call.text = None \/ f.type \notin {"text", "varying"} THEN value = Null
            ELSE size >= f.length \/
                 /\ ~call.outside
                 /\ IF f.type = "text"
                    THEN \A k \in DOMAIN value :
                            value[k] = IF k < size THEN call.text[k + 1] ELSE Blank
                    ELSE value[0] = size /\ \A k \in 1 .. size : value[k] = call.text[k]

\* However a user function ends, by return or by an exception of any call into
\* Firebird, its query has given back the statement, the cursor, both
\* descriptions and both buffers (close, ~IFBQuery).
QueryReleased ==
    call.pc \in {"write", "returned", "threw"} /\ q # None => q.held = {}

\* What the column is as a number: int reads NULL as 0.
AsRead(how, v) ==
    LET x == adjustNumericScale(v, Statements[q.text].columns[fieldIdxByName(q, Column1)].scale)
    IN  IF v = Null THEN (IF how = "int" THEN 0 ELSE <<0, 1>>)
        ELSE IF how = "int" THEN Rounded(x) ELSE x

\* while (!eof()) { ... next(); } sees every row the cursor delivers once, in its
\* order: no row between openCursor, which fetches, and next is lost or read
\* twice.  For columns of numbers; an int that does not fit is left open.
RowsReadOnce ==
    fn = ReadFn /\ call.pc = "loop" /\ eof(q) /\ call.args.how # "string" /\ q.rows # <<>> =>
        LET i == fieldIdxByName(q, Column1)
            right(k) == AsRead(call.args.how, q.rows[k][i])
        IN  i # None /\ Column(q, i).type \in Numbers =>
                /\ Len(call.seen) = Len(q.rows)
                /\ \A k \in DOMAIN q.rows :
                      (call.args.how = "int" => right(k) \in Ints) => call.seen[k] = right(k)

\* No block of a string is freed twice, through whatever rows, NULLs and types
\* the string is read (field_try_as_string_realloc, fbn_as_string_realloc).
StringsOwned == ~call.twice
=============================================================================
