CONSTANTS
  Repositories = {r1}
  Keys = {1, 2}
  Profiles = {p1, p2}
  Contents = {v1, v2}
  Outside = Outside
  Unset = Unset
  None = None
  MaxEvents = 1
  Lower <- MCLower
  Bracketed = {"[::1]"}
  Bare <- MCBare
SPECIFICATION Spec
SYMMETRY Symmetry
INVARIANTS
  BindingsFitProfiles
  ConfigIsAccounted
