SPECIFICATION Spec
CONSTANTS
  pdf = pdf
  url = url
  Jobs = {pdf, url}
  BlobJobs = {pdf}
  Workers = {w1, w2}
  NoWorker = NoWorker
  NoJob = NoJob
  MaxAttempts <- MCMaxAttempts
  LeaseSeconds = 2
  BaseDelay = 1
  MaxDelay = 2
  RetryHints <- MCRetryHints
SYMMETRY MCSymmetry
INVARIANTS
  TypeOK
  RowIsSound
  CancelIsNeverLost
PROPERTIES
  CommitsAreFenced
