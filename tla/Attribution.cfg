\* Two threads and two objects that take turns on one struct sock, used twice,
\* with kTLS calls and one element dropped by an LRU map.
SPECIFICATION Spec
CONSTANTS
  Threads = {t1, t2}
  Socks = {s1}
  Objects = {o1, o2}
  KernelTLS = TRUE
  MaxLives = 2
  MaxEvictions = 1
INVARIANTS TypeOK ExactAttribution RolesAreTrue
SYMMETRY Alike
