SPECIFICATION Spec
CONSTANTS
  Nodes = {n1, n2, n3}
  Data = {d1, d2}
  Null = Null
  head = head
  tablesize = 2
  Keys = {0, 1, 2, 4}
SYMMETRY Symmetry
INVARIANTS TypeOK ListIsSequence TableIsMap
