SPECIFICATION Spec
CONSTANTS
  a = a
  b = b
  c = c
  d = d
  Threads <- MCThreads
  InitialSize = 2
  NoConn = NoConn
INVARIANTS
  TypeOK
  Exclusive
  BooksBalance
