SPECIFICATION Spec
CONSTANTS
  t = t
  u = u
  None = None
  Provider = {t, u}
  a = a
  b = b
  Name = {a, b}
  Schema = {{a}, {b}}
  Column = {x}
  P = 2
  MaxBatch = 4
  MaxAttachments = 1
  Initial <- Shared
INVARIANTS ServesScannedRows NeverServesTornRead
PROPERTY PlansEnd
