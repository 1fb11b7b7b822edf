CONSTANTS
  sp = sp
  eq = eq
  a = a
  b = b
  star = star
  and = and
  or = or
  not = not
  Delims = {sp, eq}
  Star = star
  And = and
  Or = or
  Not = not
  Queries <- MCQueries
  Broken <- MCBroken
  Stores = 2
  MaxArgs = 13
  MaxAsked = 2
SPECIFICATION Spec
INVARIANTS TakenApart CachedAsWritten AbortsWithoutTerm
CHECK_DEADLOCK FALSE
