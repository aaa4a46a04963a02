SPECIFICATION SafetySpec
CONSTANTS
  Callers = {c1, c2, c3}
  NoCaller = NoCaller
SYMMETRY Symmetry
INVARIANTS
  NoTornReply
