SPECIFICATION Spec
CONSTANTS
  t = t
  u = u
  None = None
  Provider = {t, u}
  a = a
  b = b
  Name = {a, b}
  Schema = {{a}, {b}}
  Column = {x}
  P = 2
  MaxBatch = 3
  MaxAttachments = 1
  Initial <- Either
PROPERTY SharedBuffersFailClosed
