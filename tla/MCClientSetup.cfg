SPECIFICATION SetupSpec
CONSTANTS
  u1 = u1
  u2 = u2
  u3 = u3
  auth = auth
  bank = bank
  Users <- ThreeUsers
  Kinds <- TwoKinds
  MaxGets = 1
  Builders <- FourBuilders
  Conf <- Networks
  Signers <- ThreeSigners
  Shared = 1
  Opener = u1
  Auth = auth
SYMMETRY Exchange
INVARIANTS
  SetupTypeOK
  AddressesReadBack
  SignsAsConfigured
  OneClientPerKind
