\* Two Providers' logins finish together.
SPECIFICATION Spec
CONSTANTS
  pa = pa
  pb = pb
  k1 = k1
  k2 = k2
  fa = fa
  fb = fb
  fc = fc
  fv = fv
  w1 = w1
  w2 = w2
  tm = tm
  s1 = s1
  s2 = s2
  Provider = {pa, pb}
  Key = {k1, k2}
  File = {fa, fb, fc, fv}
  Session = {s1, s2}
  Timer = tm
  None = None
  Unknown = Unknown
  AccountOf <- MCAccountOf
  VertexFile <- MCVertexFile
  RotatesTo <- MCRotatesTo
  Worker = {w1, w2, tm}
  Setups <- RaceSetups
INVARIANTS
  LoginKept
