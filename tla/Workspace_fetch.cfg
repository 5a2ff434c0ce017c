SPECIFICATION Spec
CONSTANTS
  w2 = w2
  s2 = s2
  v1 = v1
  v2 = v2
  f1 = f1
  f2 = f2
  f3 = f3
  g1 = g1
  g2 = g2
  g3 = g3
  top = top
  sub = sub
  a = a
  b = b
  Readers = {r1}
  Requests <- Pages
  Writers = {w1, w2}
  SizeOf <- Sizes
  IntBound = 8
  MaxAlloc = 4
  MaxOutputSize = 2
  PreviewSize = 1
  PreviewLines = 1
  LineLength = 1
  Streams = {"stdout", "stderr"}
  Limit = 3
  MaxWritten = 4
  MaxResponseSize = 2
  MaxPage = 4
  Searched = {g1, g2, g3}
  LinesIn <- Lines
  Globbed <- Patterns
  RgSelected = {g2, g3}
  Paths = {top, sub, a, b}
  Folders = {top, sub}
  Top = top
  ParentOf <- Tree
  Above <- Up
  Rank <- Ranks
  MaxChanged = 2
  MaxSpecial = 1
  Syncs = {s1, s2, s3}
  Archives = {v1, v2}
  Names = {f1, f2, f3}
  Entries <- TwoVersions
  ArchiveOf <- Tasks
  MaxActive = 2
INVARIANT PageInTimeIsReturned
