SPECIFICATION FairSpec
CONSTANTS
  Symbol = {btc}
  Price = {60, 120}
  Size = {1, 2}
  MaxFills = 3
  NoFile = NoFile
INVARIANTS BooksTypeOK BooksBalance
PROPERTIES FillsAreMeasured
