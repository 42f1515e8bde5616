SPECIFICATION Spec
CONSTANTS
  Ids = {e1, e2}
  Tgs = {t1, t2}
  Null = Null
  Operators = {o}
  Loop = loop
  Listers = {o}
  Cap = 1
  Uses = 1
  MaxOutside = 1
INVARIANTS CredentialsExact LinksExact
PROPERTY NoSilentOrphan
SYMMETRY Symmetry
