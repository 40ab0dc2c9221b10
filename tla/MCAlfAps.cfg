\* Three identifiers, so that a picture can name a new set and an old one; two
\* temporal layers; one cross-component filter.
CONSTANTS
  N = 3
  MaxTid = 1
  CcComps = {"cb"}
SPECIFICATION Spec
INVARIANTS NamedFiltersArrive WritesAreSound
