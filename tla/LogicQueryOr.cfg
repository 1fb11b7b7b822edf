CONSTANTS
  p = p
  q = q
  outl = outl
  err = err
  blk = blk
  usr = usr
  tmp = tmp
  star = star
  two = two
  Absent = Absent
  Null = Null
  Undefined = Undefined
  OUTL = outl
  Pats <- MCPats
  Row <- MCRow
  Match <- MCMatch
  Terms <- MCTerms
  Wild <- MCWild
  Stem <- MCStem
  Queries <- OrQueries
  MaxSessions = 3
SPECIFICATION Spec
INVARIANT AnswerIsGrep
CHECK_DEADLOCK FALSE
