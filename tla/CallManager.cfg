\* Four users can be in two calls at once; the third id stays free, so that
\* a duplicate id is told from a fresh one while both calls are up.
CONSTANTS
  Users = {u1, u2, u3, u4}
  CallIds = {k1, k2, k3}
SPECIFICATION Spec
INVARIANTS
  MapsAgree
  GuardsExact
PROPERTY
  ImplementsPairing
