SPECIFICATION Spec
CONSTANTS
  t = t
  u = u
  first_idx = first_idx
  second_idx = second_idx
  Table = {t, u}
  IndexName = {first_idx, second_idx}
  Column = {c, d}
  Value = {TRUE, FALSE}
  Default = FALSE
  MaxVersion = 3
SYMMETRY Symmetry
INVARIANT UnrelatedWritesStayLegal
