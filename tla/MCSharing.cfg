SPECIFICATION Spec
CONSTANTS
  ann = ann  bob = bob  eve = eve  rex = rex  adm = adm  blue = blue  red = red
  None = None  Gone = Gone
  User = {ann, bob, eve, rex, adm}
  Admin = {adm}
  Team <- MCTeam
  Item = {i1}
  Request = {r1, r2, r3, r4, r5}
  Investigator = ann
SYMMETRY Symmetry
INVARIANTS ListedIsReadable ScopesAreSound
PROPERTY GlobalByAdmins
CHECK_DEADLOCK FALSE
