---------------------------- MODULE MCFbStatement ----------------------------
\* Instance of FbStatement for TLC.
EXTENDS FbStatementInv

SymmetryTrans == Permutations(Trans)

\* The scanner on all texts of up to five characters.
ASSUME ScannerAssumption ==
    \A n \in 0 .. 5 : \A T \in [1 .. n -> Chars \ {"sp"}] : RInComment(T) \/ FindsParameters(T)

MCTexts == {
    <<"n", "?">>,                                          \* x?
    <<"n", ":", "n", "'", ":", "n", "'", ":", "n">>,       \* x:a':a':a
    <<"-", "-", "r", ":", "n", "nl", "n">>,                \* an r in a comment
    <<"n">> }

\* The assumption of NamesOfPresentText, for the texts of this instance.
ASSUME NamesAssumption ==
    \A T \in Accepted : NamesInText[T] = ParamNames(Scanned[T].marks)

\* That of StatementTypes.
ASSUME TypesAssumption == ScannedTypes

MCDescribed == {[type |-> "short", nullable |-> FALSE], [type |-> "int64", nullable |-> TRUE],
                [type |-> "timestamp", nullable |-> FALSE]}
=============================================================================
