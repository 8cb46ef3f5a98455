SPECIFICATION FairSpec
CONSTANTS
  u1 = u1
  u2 = u2
  s1 = s1
  pdf = pdf
  other = other
  Uploads = {u1}
  Contents = {pdf, other}
  Sessions = {s1}
  Versions = {v1}
  Requests = {r1, r2}
  NoUpload = NoUpload
  NoContent = NoContent
  SessionOf <- MCSessionOf
  Expected <- MCExpected
  Pdfs = {pdf}
  Lifetime = 2
INVARIANTS
  AcceptedIsReadable
PROPERTIES
  VerdictIsFinal
  UploadsEnd
