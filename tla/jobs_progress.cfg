SPECIFICATION FairSpec
CONSTANTS
  pdf = pdf
  url = url
  Jobs = {pdf}
  BlobJobs = {pdf}
  Workers = {w1, w2}
  NoWorker = NoWorker
  NoJob = NoJob
  MaxAttempts <- MCPdfOnly
  LeaseSeconds = 2
  BaseDelay = 1
  MaxDelay = 2
  RetryHints <- MCRetryHints
PROPERTIES
  JobsProgress
  ImplementsFairLifecycle
