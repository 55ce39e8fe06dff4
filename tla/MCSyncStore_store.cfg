SPECIFICATION FairSpec
CONSTANTS
  c1 = c1  c2 = c2  k1 = k1  r1 = r1  r2 = r2
  m1 = m1  m2 = m2  m3 = m3  m4 = m4   x = x  y = y
  Connection = {c1, c2}
  Reader = {k1}
  RecordId = {r1, r2}
  MutationId = {m1, m2, m3, m4}
  Content = {x, y}
  NoContent = NoContent
  Batches <- MCBatches
  PageLimit = 1
  MaxCursor = 3
INVARIANTS TypeOK CursorsDense NoLostUpdate AcksDurable ReaderComplete
PROPERTIES ImplementsLog PushesEnd ReadersCatchUp
