SPECIFICATION Spec
CONSTANTS
  Ids = {e1, e2}
  Tgs = {t1, t2}
  Null = Null
  Operators = {o}
  Loop = loop
  Listers = {o}
  Cap = 2
  Uses = 1
  MaxOutside = 0
PROPERTY RollbackSparesMembers
