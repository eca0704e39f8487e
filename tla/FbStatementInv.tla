--------------------------- MODULE FbStatementInv ---------------------------
(***************************************************************************)
(* The inductive invariant behind the properties of FbStatement: what a    *)
(* statement record is in each stage of its life (bare, prepared, active,  *)
(* executed), in terms of what the scanner found in its text.              *)
(***************************************************************************)
EXTENDS FbStatement

\* A statement record has its fields, a server's statement has its.
Shape(q) ==
    /\ DOMAIN q = DOMAIN NewSql
    /\ q.srv # None => DOMAIN q.srv = {"text", "kind", "cols", "cursor"}

\* A prepared statement belongs to its text as PreprocessSQL read it; what the
\* client has given to its parameters is there until it is active.
PreparedInv(q) ==
    fb_is_sql_prepared(q) =>
        /\ q.text \in Accepted
        /\ q.names = ParamNames(Scanned[q.text].marks)
        /\ q.params \in Area(q.text)
        /\ DOMAIN q.want = DOMAIN q.params
        /\ ~fb_is_sql_active(q) =>
              \A k \in DOMAIN q.want : q.want[k] # Unset => q.params[k].val = q.want[k]

\* A statement of the server has one owner, which is prepared.
ServerInv(q) ==
    /\ ~q.leaked
    /\ q.srv # None =>
          /\ q.alive /\ q.hStatement /\ fb_is_sql_prepared(q)
          /\ q.srv.text = Scanned[q.text].out

\* The tables of names point into descriptors that are there.
TablesInv(q) ==
    /\ ~fb_is_sql_prepared(q) => q.names = {} /\ q.want = <<>>
    /\ q.fieldNames # "dangling"
    /\ q.fieldNames = "live" => fb_is_sql_active(q)

\* Only an active statement has been executed; it has a cursor or is at its end.
\* An open cursor and a row come from that execution.
ExecutedInv(q) ==
    /\ q.sent # None =>
          /\ fb_is_sql_active(q)
          /\ q.sent.text = Scanned[q.text].out
          /\ \A k \in DOMAIN q.want : q.want[k] # Unset => q.sent.values[k] = q.want[k]
          /\ q.srv # None /\ ~q.mEOF => q.srv.cursor # "none"
    /\ HasOpenCursor(q) =>
          q.sent # None /\ q.srv.cursor \in {TransactionOf(q), "orphan"}
    /\ q.fields = "row" => q.sent # None

SqlInv(q) == Shape(q) /\ PreparedInv(q) /\ ServerInv(q) /\ TablesInv(q) /\ ExecutedInv(q)

StatementInv ==
    /\ default \in alive \cup {None}
    /\ handle \subseteq alive /\ alive \subseteq Trans
    /\ DOMAIN sql = Stmts
    /\ \A s \in Stmts : SqlInv(sql[s])

\* What TypeOK rests on and an induction over the text would show: what
\* PreprocessSQL takes from a text is made of the text's characters.
ScannedTypes ==
    \A T \in Texts : LET p == Scanned[T] IN p.ok =>
        /\ p.out \in Seq(Chars)
        /\ \A k \in DOMAIN p.marks : k \in Nat /\ p.marks[k].name \in Seq(Chars)
=============================================================================
