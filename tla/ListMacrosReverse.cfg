SPECIFICATION Spec
SYMMETRY Symmetry
CONSTANTS
  Entry = {a, b, c, d}
  Headers = {L1, L2}
  NULL = NULL
PROPERTY ReverseGoesBack
