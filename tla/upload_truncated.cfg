\* Once every request is served, or stuck in its pipe, nothing happens any more.
CONSTANTS
  r1 = r1
  r2 = r2
  u1 = u1
  u2 = u2
  NoUpload = NoUpload
  MaxInt = 15
  Requests <- MCRequests
  UploadIDs <- MCUploadIDs
  Files <- MCFiles
  Slots = 1
SPECIFICATION Spec
INVARIANT DoneMeansWholeFile
CHECK_DEADLOCK FALSE
