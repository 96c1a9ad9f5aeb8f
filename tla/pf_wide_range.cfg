\* Ports of four bits, ranges that reach beyond the port number.
SPECIFICATION Spec
CONSTANTS
  Width = 4
  Configs <- WideRanges
INVARIANT FiltersExact
