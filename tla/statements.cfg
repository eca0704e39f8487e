SPECIFICATION Spec
CONSTANTS
  None = None
  Null = Null
  Unset = Unset
  Stmts = {q1}
  Trans = {t1, t2}
  Texts <- MCTexts
  Described <- MCDescribed
  Values = {6}
  ShortBits = 3
SYMMETRY SymmetryTrans
INVARIANTS
  TypeOK
  NamesLive
  NamesMatchText
  StatementsTracked
  ExecutesWhatWasSet
  EOFPreventsFetch
  CursorInOwnTransaction
  
  StatementInv
