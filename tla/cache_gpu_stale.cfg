SPECIFICATION Spec
CONSTANTS
  q1 = q1
  q2 = q2
  q3 = q3
  d1 = d1
  a = a
  b = b
  c = c
  Queries <- MCQueries
  Documents <- MCDocuments
  MaxSentences = 2
  Embeddings <- MCEmbeddings
  EmbedsAs <- MCReindexed
  Similarity <- MCSimilarity
  Threshold = 95
  LshEnabled = TRUE
  Buckets = 4
  BucketOf <- MCBucketOf
  MaxEntries = 2
  MaxCycles = 100
  LshMin = 1
  GpuMin = 1
  GpuAvailable = TRUE
  PrefetchEnabled = TRUE
  PrefetchWindow = 2
  CycleBound = 8
  NoKey = NoKey
INVARIANTS
  LookupSound
