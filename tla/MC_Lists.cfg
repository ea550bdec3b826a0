CONSTANTS
  Pcb = {p1, p2, p3}
  Semd = {d1, d2, d3}
  Sem = {s1, s2}
  Prio = {0, 1}
  NULL = NULL
SYMMETRY Symmetry
SPECIFICATION Spec
INVARIANTS Linked FieldsTellTheList DescriptorsInUse AlwaysBlocks
PROPERTIES ImplementsProcTables
