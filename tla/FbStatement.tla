----------------------------- MODULE FbStatement -----------------------------
(***************************************************************************)
(* fbaccess.c: databases, transactions and SQL statements over the client  *)
(* library of Firebird, which is external.  One connection with its        *)
(* statements and transactions is used by one thread, so every function of *)
(* fbaccess.h is one action; what the library answers is a free choice.    *)
(*                                                                         *)
(* A statement record holds the fields of fb_sql_t, the server's half of   *)
(* hStatement (srv) and two history fields: want, the values its parameters*)
(* must have by the calls of the client, and sent, what the last call to   *)
(* execute has executed.                                                   *)
(***************************************************************************)
EXTENDS SqlScan, Integers, FiniteSets

CONSTANTS
    Stmts, Trans,   \* fb_sql_t and fb_transaction_t objects
    Texts,          \* texts the client may set
    Described,      \* parameter types the server may describe, a subset of VarTypes
    Values,         \* integers (or times) the client sets
    ShortBits,      \* width of SQL_SHORT
    None,           \* a null pointer or handle
    Null,           \* the SQL value NULL
    Unset           \* memory nobody has written

VarTypes == [type : {"short", "long", "int64", "timestamp", "text"}, nullable : BOOLEAN]

ASSUME FbAssumption ==
    /\ Described \subseteq VarTypes
    /\ Values \subseteq Int
    /\ ShortBits \in Nat \ {0}
    /\ \A T \in Texts : T \in Seq(Chars)
    /\ None \notin Trans
    /\ Null # Unset /\ Null \notin Int /\ Unset \notin Int

VARIABLES
    connected,   \* DBhandle # 0
    default,     \* pDefaultTransaction
    alive,       \* the fb_transaction_t objects that exist
    handle,      \* those whose TRHandle # 0
    sql          \* sql[s]: statement record

vars == <<connected, default, alive, handle, sql>>
transVars == <<default, alive, handle>>

Cell == Values \cup {Null, Unset} \cup -(2 ^ (ShortBits - 1)) .. 2 ^ (ShortBits - 1) - 1

\* srv.cursor: "none", "ended" (closed by the end of its transaction), "orphan"
\* (open in a transaction whose handle was dropped) or an open cursor's transaction
Server == [text : Seq(Chars), kind : {"select", "once"},
           cols : 0 .. 1, cursor : Trans \cup {"none", "ended", "orphan"}]

\* A statement record, but for its transaction.
Typed(q) ==
    /\ q.alive \in BOOLEAN /\ q.hStatement \in BOOLEAN /\ q.mEOF \in BOOLEAN
    /\ q.text \in Texts \cup {<<>>}
    /\ q.srv = None \/ q.srv \in Server
    /\ q.params = None \/ \A k \in DOMAIN q.params :
          q.params[k].var \in Described /\ q.params[k].val \in Cell
    /\ q.names \subseteq [name : Seq(Chars), index : Nat, live : BOOLEAN]
    /\ q.fields \in {None, "empty", "row"}
    /\ q.fieldNames \in {"none", "live", "dangling"}
    /\ q.sent = None \/ q.sent.text \in Seq(Chars)
    /\ \A k \in DOMAIN q.want : q.want[k] \in Cell

\* The transaction that a statement names exists; a freed statement names none.
TypeOK ==
    /\ connected \in BOOLEAN
    /\ default \in alive \cup {None}
    /\ handle \subseteq alive /\ alive \subseteq Trans
    /\ \A s \in Stmts :
          Typed(sql[s]) /\ sql[s].tr \in IF sql[s].alive THEN alive \cup {None} ELSE {None}

NewSql == [alive |-> FALSE, tr |-> None, text |-> <<>>, hStatement |-> FALSE, srv |-> None,
           leaked |-> FALSE, params |-> None, names |-> {}, fields |-> None,
           fieldNames |-> "none", mEOF |-> FALSE, want |-> <<>>, sent |-> None]

Init ==
    /\ connected = FALSE /\ default = None /\ alive = {} /\ handle = {}
    /\ sql = [s \in Stmts |-> NewSql]

fb_is_sql_prepared(q) == q.params # None
fb_is_sql_active(q) == q.fields # None

-----------------------------------------------------------------------------
\* What a call does to a statement: a set of outcomes, the result and the record.
Outcome(ok, q) == [ok |-> ok, q |-> q]

\* The transaction a statement runs in, or None if it cannot run.
TransactionOf(q) == IF q.tr # None THEN q.tr ELSE default
fb_in_transaction(t) == t \in handle
CanRun(q) == fb_in_transaction(TransactionOf(q))

\* Freed descriptors leave the names that point into them dangling.
PurgeParams(q) == [q EXCEPT !.params = None,
                            !.names = {[n EXCEPT !.live = FALSE] : n \in q.names}]
PurgeFields(q) == [q EXCEPT !.fields = None,
                            !.fieldNames = IF @ = "live" THEN "dangling" ELSE @]

\* fb_close_sql: drops the server's statement, both descriptors and both tables.
\* The values of the parameters go with them.  The drop is taken to succeed: the
\* code does not look at what isc_dsql_free_statement answers.
fb_close_sql(q) ==
    [PurgeFields(PurgeParams(q)) EXCEPT !.hStatement = FALSE, !.srv = None, !.names = {},
        !.fieldNames = "none", !.mEOF = FALSE, !.want = <<>>, !.sent = None]

\* The table of names: a node for each occurrence of a named parameter.
ParamNames(marks) ==
    {[name |-> marks[k].name, index |-> k, live |-> TRUE] :
        k \in {i \in DOMAIN marks : marks[i].name # <<>>}}

TypeClass(type) == IF type \in {"text", "timestamp"} THEN type ELSE "number"

\* What the server may describe for n parameters, occurrences of a name having
\* compatible types (AreCompatibleTypes).
Descriptions(marks) ==
    {d \in [DOMAIN marks -> Described] :
        \A i, j \in DOMAIN marks :
            marks[i].name = marks[j].name /\ marks[i].name # <<>>
                => TypeClass(d[i].type) = TypeClass(d[j].type)}

\* SetupXSQLDAStorage: a nullable parameter starts as NULL, any other as it is.
FreshParams(d) ==
    [k \in DOMAIN d |-> [var |-> d[k], val |-> IF d[k].nullable THEN Null ELSE Unset]]

\* Kind of statement and number of fields: what is no select is executed at once,
\* and an EXECUTE PROCEDURE may have fields.
Kinds == {"select", "once"} \X (0 .. 1)

\* What the server prepares: the text must be complete and have no other
\* parameters than ?, as many as were found (sl_get_count # sqld otherwise).
Preparable(p) ==
    /\ p.ok
    /\ IsComplete(p.out)
    /\ \A i \in ParametersAt(p.out) : p.out[i] = "?"
    /\ Cardinality(ParametersAt(p.out)) = Len(p.marks)

\* Both for each text the client may set.
Scanned == [T \in Texts \cup {<<>>} |-> PreprocessSQL(T)]
Accepted == {T \in Texts : Preparable(Scanned[T])}

\* The descriptor areas a text's parameters may have.
Area(T) == [DOMAIN Scanned[T].marks -> [var : VarTypes, val : Int \cup {Null, Unset}]]

\* What may be sent to the server to be executed.
Sendable(T) == [text : {Scanned[T].out},
                values : [DOMAIN Scanned[T].marks -> Int \cup {Null, Unset}]]

\* None is no descriptor area, no execution and no state of the fields; a
\* transaction is no state of a cursor.
ASSUME NoneAssumption ==
    /\ None \notin {"empty", "row"}
    /\ \A T \in Texts : None \notin Area(T) /\ None \notin Sendable(T)
    /\ Trans \cap {"none", "ended", "orphan"} = {}

\* The statement fb_prepare_sql starts from: what was prepared or active is closed.
Reset(q) == IF fb_is_sql_active(q) \/ fb_is_sql_prepared(q) THEN fb_close_sql(q) ELSE q

\* The server has a statement of the kind kc for it ...
Allocated(q, kc) ==
    [q EXCEPT !.hStatement = TRUE, !.leaked = @ \/ q.srv # None,
        !.srv = [text |-> Scanned[q.text].out, kind |-> kc[1], cols |-> kc[2], cursor |-> "none"]]

\* ... and has described its parameters.
Prepared(q, kc, d) ==
    [Allocated(q, kc) EXCEPT !.params = FreshParams(d), !.want = [k \in DOMAIN d |-> Unset],
                             !.names = ParamNames(Scanned[q.text].marks)]

\* fb_prepare_sql; Fail is what an error does to the statement once the first
\* checks are passed, with or without a server's statement allocated.
PrepareOr(q, Fail(_)) ==
    LET c == Reset(q)
        p == Scanned[c.text]
    IN  IF ~CanRun(q) THEN {Outcome(FALSE, q)}
        ELSE IF c.text = <<>> THEN {Outcome(FALSE, c)}
        ELSE {Outcome(FALSE, Fail(c))} \cup
             IF ~p.ok \/ ~connected THEN {}
             ELSE {Outcome(FALSE, Fail(Allocated(c, kc))) : kc \in Kinds} \cup
                  {Outcome(TRUE, Prepared(c, kc, d)) :
                      kc \in Kinds, d \in IF c.text \in Accepted THEN Descriptions(p.marks) ELSE {}}

\* Mutant: an error returns at once.
PrepareKeepsHandle(q) == PrepareOr(q, LAMBDA c : c)

\* The code closes the statement on every error.
fb_prepare_sql(q) == PrepareOr(q, fb_close_sql)

CheckPrepared(q) == IF fb_is_sql_prepared(q) THEN {Outcome(TRUE, q)} ELSE fb_prepare_sql(q)

\* The fields are described anew and nothing is executed yet; a name that is in
\* the table already stays as it is (sht_add).
DescribeFields(q) ==
    [PurgeFields(q) EXCEPT !.fields = "empty", !.sent = None,
        !.fieldNames = IF @ = "none" /\ q.srv.cols > 0 THEN "live" ELSE @]

\* What fb_exec_sql and fb_debug_exec_immed do before they execute; c is the
\* statement once what was active is closed.
DescribedFrom(q, c) ==
    IF ~CanRun(q) THEN {Outcome(FALSE, q)}
    ELSE IF c.text = <<>> THEN {Outcome(FALSE, c)}
    ELSE UNION {IF ~o.ok THEN {Outcome(FALSE, fb_close_sql(o.q))}
                ELSE {Outcome(FALSE, fb_close_sql(o.q))} \cup
                     IF o.q.srv = None THEN {} ELSE {Outcome(TRUE, DescribeFields(o.q))} :
                o \in CheckPrepared(c)}

\* Mutant: an active statement is not closed first.
DescribedActive(q) == DescribedFrom(q, q)

ClosedAndDescribed(q) == DescribedFrom(q, IF fb_is_sql_active(q) THEN fb_close_sql(q) ELSE q)

\* The server has executed the statement with the parameters it was given.
Executed(q, cursor) ==
    [q EXCEPT !.srv.cursor = cursor,
              !.sent = [text |-> q.srv.text, values |-> [k \in DOMAIN q.params |-> q.params[k].val]]]

HasOpenCursor(q) == q.srv # None /\ q.srv.cursor \in Trans \cup {"orphan"}

\* fb_sql_next: a row, the end of the rows, or an error, which changes nothing.
fb_sql_next(q) ==
    {Outcome(FALSE, q)} \cup
    IF ~fb_is_sql_active(q) \/ q.mEOF \/ ~HasOpenCursor(q) THEN {}
    ELSE IF q.srv.cols = 0 THEN {}
    ELSE {Outcome(TRUE, [q EXCEPT !.fields = "row"]), Outcome(TRUE, [q EXCEPT !.mEOF = TRUE])}

\* Executed with the results, if there are any, in the fields.
ExecutedOnce(q) ==
    [Executed(q, "none") EXCEPT !.fields = IF q.srv.cols > 0 THEN "row" ELSE @, !.mEOF = TRUE]

\* The three ways to execute; the cursor of a select has its name set afterwards,
\* which may fail.
RunByKind(q, Once(_)) ==
    LET opened == Executed(q, TransactionOf(q))
    IN  IF q.srv.kind = "select"
        THEN {Outcome(FALSE, opened)} \cup
             IF q.srv.cols > 0 THEN fb_sql_next(opened)
             ELSE {Outcome(TRUE, [opened EXCEPT !.mEOF = TRUE])}
        ELSE {Outcome(TRUE, Once(q))}

\* Mutant: the end of the rows is not marked for what has no cursor.
RunNoEOF(q) == RunByKind(q, LAMBDA r : [ExecutedOnce(r) EXCEPT !.mEOF = FALSE])

Run(q) == RunByKind(q, ExecutedOnce)

\* fb_exec_sql: an unknown statement type closes the statement, an error of the
\* execution itself leaves it active.
fb_exec_sql(q) ==
    UNION {IF ~o.ok THEN {o}
           ELSE {Outcome(FALSE, fb_close_sql(o.q)), Outcome(FALSE, o.q)} \cup Run(o.q) :
           o \in ClosedAndDescribed(q)}

fb_debug_exec_immed(q) ==
    UNION {IF ~o.ok THEN {o} ELSE {Outcome(FALSE, o.q), Outcome(TRUE, ExecutedOnce(o.q))} :
           o \in ClosedAndDescribed(q)}

-----------------------------------------------------------------------------
\* Parameters.  A setter is one of Setters: SetParamAsInt takes numbers and writes
\* as many bits as the type has, SetParamAsBigInt takes 64 bits only,
\* SetParamAsTimestamp timestamps only, SetParamAsNULL what is nullable.
Setters == {"int", "bigint", "timestamp", "null"}
Given(how) == IF how = "null" THEN {Null} ELSE Values
ToShort(v) == LET half == 2 ^ (ShortBits - 1) IN ((v + half) % (2 * half)) - half
Takes(cell, how) ==
    CASE how = "null"   -> cell.var.nullable
      [] how = "int"    -> TypeClass(cell.var.type) = "number"
      [] how = "bigint" -> cell.var.type = "int64"
      [] how = "timestamp" -> cell.var.type = "timestamp"
Stored(cell, v) == IF v # Null /\ cell.var.type = "short" THEN ToShort(v) ELSE v

\* v is written to the cells found, the last first, up to one that refuses it.
\* What the client may rely on (want) is v in each cell the call is about, if the
\* type holds it, and nothing where a refused call stopped half way.  A value
\* given to an active statement is not counted: the next execution drops it.
SetValue(q, found, about, how, v) ==
    LET refused == {k \in found : ~Takes(q.params[k], how)}
        touched == {k \in found : \A r \in refused : k > r}
        ok      == found # {} /\ refused = {}
        fits(k) == ok /\ k \in about /\ Stored(q.params[k], v) = v
    IN  Outcome(ok,
          [q EXCEPT
             !.params = [k \in DOMAIN q.params |->
                 IF k \in touched THEN [@[k] EXCEPT !.val = Stored(q.params[k], v)] ELSE @[k]],
             !.want = [k \in DOMAIN q.want |->
                 IF fb_is_sql_active(q) THEN @[k] ELSE IF fits(k) THEN v
                 ELSE IF k \in touched THEN Unset ELSE @[k]]])

\* ParamByIndex on what CheckPrepared left: is there a parameter k?
HasParam(o, k) == o.ok /\ k \in DOMAIN o.q.params

\* fb_set_param_as_int, _as_timestamp, _as_null: by position, after CheckPrepared.
fb_set_param(q, k, how, v) ==
    {IF HasParam(o, k) THEN SetValue(o.q, {k}, {k}, how, v) ELSE Outcome(FALSE, o.q) :
        o \in CheckPrepared(q)}

\* The parameters with a name in the text.
Occurrences(T, name) ==
    LET ms == Scanned[T].marks IN {k \in DOMAIN ms : ms[k].name = name}

\* fb_set_pbn_as_int, _as_bigint, _as_timestamp, _as_null: all nodes of the name.
SetNodes(q, name, how, v, Nodes(_)) ==
    {IF ~o.ok THEN o
     ELSE SetValue(o.q, {n.index : n \in Nodes({m \in o.q.names : m.name = name})},
                   Occurrences(q.text, name), how, v) :
        o \in CheckPrepared(q)}

\* Mutant: the chain of nodes is not followed.
SetNewestNode(q, name, how, v) ==
    SetNodes(q, name, how, v, LAMBDA ns : {n \in ns : \A m \in ns : m.index <= n.index})

fb_set_pbn(q, name, how, v) == SetNodes(q, name, how, v, LAMBDA ns : ns)

\* Mutant: a prepared statement keeps its server half when the text changes.
SetTextKeeps(q, T) == {Outcome(TRUE, [q EXCEPT !.text = T])}

\* fb_sql_set_text and fb_sql_set_text_sl, also with an empty text.
fb_sql_set_text(q, T) ==
    {Outcome(TRUE, [(IF fb_is_sql_prepared(q) \/ fb_is_sql_active(q) THEN fb_close_sql(q) ELSE q)
                    EXCEPT !.text = T])}

\* Mutant: the transaction of an active statement may be changed.
SetTransactionAlways(q, t) == {Outcome(TRUE, [q EXCEPT !.tr = t])}

fb_sql_set_transaction(q, t) ==
    IF fb_is_sql_active(q) THEN {Outcome(FALSE, q)} ELSE {Outcome(TRUE, [q EXCEPT !.tr = t])}

-----------------------------------------------------------------------------
\* The calls of the client on a statement.
Call(s, outcomes) ==
    /\ sql[s].alive
    /\ \E o \in outcomes : sql' = [sql EXCEPT ![s] = o.q]
    /\ UNCHANGED <<connected, transVars>>

CreateSql(s) ==
    /\ ~sql[s].alive
    /\ sql' = [sql EXCEPT ![s] = [NewSql EXCEPT !.alive = TRUE]]
    /\ UNCHANGED <<connected, transVars>>

\* fb_free_sql closes the statement first.
FreeSql(s) ==
    /\ sql[s].alive
    /\ sql' = [sql EXCEPT ![s] = [NewSql EXCEPT !.srv = fb_close_sql(sql[s]).srv]]
    /\ UNCHANGED <<connected, transVars>>

SetText(s) == \E T \in Texts \cup {<<>>} : Call(s, fb_sql_set_text(sql[s], T))
SetTransaction(s) == \E t \in alive \cup {None} : Call(s, fb_sql_set_transaction(sql[s], t))
PrepareSql(s) == Call(s, fb_prepare_sql(sql[s]))
CloseSql(s) == Call(s, {Outcome(TRUE, fb_close_sql(sql[s]))})
ExecSql(s) == Call(s, fb_exec_sql(sql[s]))
DebugExec(s) == Call(s, fb_debug_exec_immed(sql[s]))
SqlNext(s) == Call(s, fb_sql_next(sql[s]))
SetParam(s) ==
    \E k \in DOMAIN Scanned[sql[s].text].marks, how \in Setters \ {"bigint"} :
        \E v \in Given(how) : Call(s, fb_set_param(sql[s], k, how, v))
SetParamByName(s) ==
    \E name \in {m.name : m \in ParamNames(Scanned[sql[s].text].marks)}, how \in Setters :
        \E v \in Given(how) : Call(s, fb_set_pbn(sql[s], name, how, v))

-----------------------------------------------------------------------------
\* Transactions.  The end of a transaction closes its cursors.  If a commit or
\* rollback fails the server keeps the transaction and its cursors, but TRHandle
\* becomes 0.
CursorsAfter(t, cursor) ==
    [s \in Stmts |-> IF sql[s].srv # None /\ sql[s].srv.cursor = t
                     THEN [sql[s] EXCEPT !.srv.cursor = cursor] ELSE sql[s]]

EndHandle(t) ==
    /\ handle' = handle \ {t}
    /\ \E cursor \in {"ended", "orphan"} : sql' = CursorsAfter(t, cursor)

\* Mutant: the transaction is not ended.
ReleaseOnly(t) == UNCHANGED <<handle, sql>>

\* fb_free_transaction ends the transaction before it frees the object.
Release(t) == IF t \in handle THEN EndHandle(t) ELSE UNCHANGED <<handle, sql>>

CreateTransaction(t) ==
    /\ t \notin alive
    /\ alive' = alive \cup {t}
    /\ UNCHANGED <<connected, default, handle, sql>>

\* It fails without a connection, or when the server says so.
StartTransaction(t) ==
    /\ t \in alive \ handle
    /\ connected
    /\ handle' = handle \cup {t}
    /\ UNCHANGED <<connected, default, alive, sql>>

\* fb_commit_transaction and fb_rollback_transaction
EndTransaction(t) ==
    /\ t \in handle
    /\ EndHandle(t)
    /\ UNCHANGED <<connected, default, alive>>

\* The client frees no transaction that a statement or the database still has.
FreeTransaction(t) ==
    /\ t \in alive /\ t # default
    /\ \A s \in Stmts : sql[s].tr # t
    /\ Release(t)
    /\ alive' = alive \ {t}
    /\ UNCHANGED <<connected, default>>

SetDefault(t) ==
    /\ default = None /\ t \in alive
    /\ default' = t
    /\ UNCHANGED <<connected, alive, handle, sql>>

-----------------------------------------------------------------------------
\* Databases.
Connect ==
    /\ ~connected
    /\ connected' = TRUE
    /\ UNCHANGED <<transVars, sql>>

\* The connection ends; if isc_detach_database is refused DBhandle is dropped all
\* the same.  Statements of a connection that is gone or given up get nothing but
\* errors from the server.
Detach ==
    /\ connected' = FALSE
    /\ sql' = [s \in Stmts |-> [sql[s] EXCEPT !.srv = None]]

\* The client ends its transactions before it disconnects.
Disconnect ==
    /\ connected /\ handle = {}
    /\ Detach
    /\ UNCHANGED <<default, alive, handle>>

\* fb_free_database, when the client has freed everything else: the default
\* transaction is freed, then the database is detached.
FreeDatabase ==
    /\ \A s \in Stmts : ~sql[s].alive
    /\ alive \subseteq {default}
    /\ Detach
    /\ handle' = {} /\ alive' = {} /\ default' = None

Next ==
    \/ \E s \in Stmts :
        \/ CreateSql(s) \/ FreeSql(s) \/ SetText(s) \/ SetTransaction(s)
        \/ PrepareSql(s) \/ CloseSql(s) \/ ExecSql(s) \/ DebugExec(s) \/ SqlNext(s)
        \/ SetParam(s) \/ SetParamByName(s)
    \/ \E t \in Trans :
        \/ CreateTransaction(t) \/ StartTransaction(t) \/ EndTransaction(t)
        \/ FreeTransaction(t) \/ SetDefault(t)
    \/ Connect \/ Disconnect \/ FreeDatabase

Spec == Init /\ [][Next]_vars
-----------------------------------------------------------------------------
\* The tables of parameter and field names never point into freed descriptors
\* (fb_close_sql, fb_prepare_sql and fb_exec_sql keep three lists in step).
NamesLive ==
    \A s \in Stmts : /\ \A n \in sql[s].names : n.live
                     /\ sql[s].fieldNames # "dangling"

\* The named parameters of a text as SQL reads it, with their positions.
NamesInText ==
    [T \in Accepted |->
        LET at == SetToSortSeq(ParametersAt(T), <)
        IN  {[name |-> Marker(T, at[k]).name, index |-> k, live |-> TRUE] :
                k \in {i \in DOMAIN at : Marker(T, at[i]).name # <<>>}}]

\* A prepared statement belongs to its present text: each named parameter of the
\* text, as SQL reads it, has one node at its position, and nothing else has one
\* (PreprocessSQL against the descriptors of fb_prepare_sql).
NamesMatchText ==
    \A s \in Stmts : LET q == sql[s] IN
        fb_is_sql_prepared(q) =>
            /\ q.text \in Accepted /\ q.names = NamesInText[q.text]
            /\ DOMAIN q.params = DOMAIN Scanned[q.text].marks

\* Every statement of the server is the one of a living object's hStatement: no
\* error path of fb_prepare_sql or fb_exec_sql, and no re-execution, loses one.
StatementsTracked ==
    \A s \in Stmts : LET q == sql[s] IN
        ~q.leaked /\ (q.srv # None => q.alive /\ q.hStatement)

\* What is executed is the present text, with the values that the client gave to
\* its parameters while they could be kept, at every occurrence of their names.
ExecutesWhatWasSet ==
    \A s \in Stmts : LET q == sql[s] IN
        q.sent # None =>
            /\ q.sent.text = Scanned[q.text].out
            /\ \A k \in DOMAIN q.want : q.want[k] # Unset => q.sent.values[k] = q.want[k]

\* After an execution that was not refused, a statement that may be fetched from
\* (active, not at its end) has had a cursor in the server: what returns its
\* results at once has mEOF set.
EOFPreventsFetch ==
    \A s \in Stmts : LET q == sql[s] IN
        fb_is_sql_active(q) /\ ~q.mEOF /\ q.sent # None /\ q.srv # None =>
            q.srv.cursor # "none"

\* An open cursor is one of the transaction that its statement names now, in
\* which blobs of its fields are read (fb_sql_set_transaction, default transaction).
CursorInOwnTransaction ==
    \A s \in Stmts : LET q == sql[s] IN
        HasOpenCursor(q) /\ q.srv.cursor # "orphan" => q.srv.cursor = TransactionOf(q)

\* A row that the client reads comes from its last call to execute: when that was
\* refused, the cursor and the row of an earlier execution are gone (fb_exec_sql
\* closes what is active first; an error of the execution leaves it active).
RowsOfLastExecution ==
    \A s \in Stmts : sql[s].fields = "row" => sql[s].sent # None
=============================================================================
