SPECIFICATION Spec
CONSTANTS
  Threads = {t1, t2}
  Socks = {s1, s2}
  Objects = {o1}
  KernelTLS = TRUE
  MaxLives = 2
  MaxEvictions = 0
INVARIANT NoStaleFallback
