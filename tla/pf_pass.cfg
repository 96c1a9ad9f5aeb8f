\* Ports of four bits, two filters of different kinds, and every kind by itself.
SPECIFICATION Spec
CONSTANTS
  Width = 4
  Configs <- Lists
INVARIANTS
  TypeOK
  FiltersMatchState
  FiltersExact
