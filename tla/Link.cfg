SPECIFICATION MCSpec
CONSTANTS
  Width = 2
  Height = 4
  Blank = "_"
  Cells = {"_", "a", "b", "c", "d", "e", "f", "g", "h", "i"}
  Texts <- MCTexts
  MaxChanges = 2
  e1 = e1
  e2 = e2
  p1 = p1
  p2 = p2
  s1 = s1
  s2 = s2
  s3 = s3
  a = a
  b = b
  x = x
  z = z
  Editors = {e1, e2}
  Panes = {p1, p2}
  PaneOf <- MCPaneOf
  All = All
  MaxSeq = 1
  MaxUpsets = 1
  Nobody = Nobody
  Clients = {a, b, x, z}
  Servers = {s1, s2, s3}
  ServerOf <- MCServerOf
  Clicker = a
  Terminals <- MCTerminals
  MaxDepth = 2
  MaxBrowsers = 1
  MaxMoves = 1
  NoClient = NoClient
INVARIANTS RightText OpensOnce FoundIfThere ClickReaches TellStaysHome
PROPERTY ClickEnds
