SPECIFICATION BankSpec
CONSTANTS
  euro = euro
  foreign = foreign
  jan = jan
  TxnId = {t1, t2}
  Month = {jan}
  MaxCents = 1
  RowId = {euro, foreign}
  IncomeRow = {}
  ForeignRow = {foreign}
  RowCents <- MCRowCents
  Near <- MCNear
  BookedAfter <- MCBookedAfter
  AccountRows <- MCAccountRows
  Client = {c1}
  Null = Null
SYMMETRY Symmetry
CONSTRAINT Bounds
ACTION_CONSTRAINT OvertakenEnds
INVARIANTS
  OneRowPerTransaction
  OpenViewIsUnresolved
PROPERTIES
  OutcomeSpec
