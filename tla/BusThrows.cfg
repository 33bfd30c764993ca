SPECIFICATION Spec
CONSTANTS
  o1 = o1  o2 = o2  o3 = o3  i1 = i1  i2 = i2
  k1 = k1  k2 = k2  c1 = c1  c2 = c2
  Null = Null  Absent = Absent
  Objects = {o1, o2}
  Impls = {i1, i2}
  Kernels = {k1, k2}
  Callbacks = {c1, c2}
SYMMETRY Symmetry
INVARIANT ExceptionsCaught
