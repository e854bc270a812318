CONSTANTS
 Players = {p, q}
 p = p
 q = q
SPECIFICATION AccessSpec
INVARIANTS ListedMayJoin AdminsAgree
PROPERTIES FormKeepsAccess
CHECK_DEADLOCK FALSE
