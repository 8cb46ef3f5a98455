SPECIFICATION Spec
CONSTANTS
  u1 = u1
  u2 = u2
  s1 = s1
  pdf = pdf
  other = other
  Uploads = {u1, u2}
  Contents = {pdf, other}
  Sessions = {s1}
  Versions = {v1, v2}
  Requests = {r1}
  NoUpload = NoUpload
  NoContent = NoContent
  SessionOf <- MCSessionOf
  Expected <- MCExpected
  Pdfs = {pdf}
  Lifetime = 1
INVARIANTS
  RegistryIsBacked
  JobsHaveTheirInput
