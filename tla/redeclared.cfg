SPECIFICATION Spec
CONSTANTS
  IntBits = 3
  DoubleBits = 4
  ShortBits = 3
  MaxRows = 2
  Null = Null
  Unset = Unset
  None = None
  Blank = Blank
  SumText = SumText
  ints = ints  chars = chars  varchar = varchar
  SumFn = SumFn
  TextFn = TextFn
  ReadFn = ReadFn
  Column1 = "a"
  Databases = {d1, d2}
  Declarations <- MCDeclarations
  Args <- MCArgs
  InfoTexts <- MCInfoTexts
  Statements <- MCStatements
  Rows <- MCRows
INVARIANTS
  IdenticalDeclarationsSuffice
