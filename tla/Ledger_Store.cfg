SPECIFICATION Spec
CONSTANTS
  Procs = {p1, p2}
  Keys = {k1}
  Actions = {a1, a2}
  Batches = {b1, b2}
  Size <- BatchSize
  Retries = {r1}
  p1 = p1
  p2 = p2
  b1 = b1
  b2 = b2
  a1 = a1
  a2 = a2
SYMMETRY Symmetry
INVARIANTS UnknownIsNotRepeated AnswersAreDurable OneChain
