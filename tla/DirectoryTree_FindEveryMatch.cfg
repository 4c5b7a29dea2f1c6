\* The deployment constants of DirectoryTree.cfg, checking that find()
\* returns every node whose path matches the pattern (spec 4.1).
\* The tree as usvfs fills it: top-level components are drive names that
\* never occur deeper in a path.
CONSTANTS
  TopNames = {c}
  SubNames = {a, b}
  Payloads = {p1, p2}
  EmptyData = EmptyData
  NoName = NoName
  MaxNodes = 5
  MaxDepth = 3
SPECIFICATION Spec
INVARIANT FindFindsEveryMatch
