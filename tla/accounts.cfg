SPECIFICATION AccountSpec
SYMMETRY Symmetry
CONSTRAINTS BlocksApart FewLinks
CONSTANTS
  Users = {u1, u2}
  e1 = e1
  E1 = E1
  Emails <- MCEmails
  Normalized <- MCNormalized
  Phones = {p1, p2}
  Documents = {d1}
  Subjects = {s1, s2}
  Requests = {r1, r2}
  None = None
INVARIANTS AccountTypeOK ContactsUnique OneUserPerIdentity PlaceholdersAreLinked BlocksAlternate
CHECK_DEADLOCK FALSE
