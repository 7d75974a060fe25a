CONSTANTS
  r1 = r1
  u1 = u1
  c1 = c1
  NoUpload = NoUpload
  Absent = Absent
  MaxInt = 15
  MaxPageSize = 4
  Slots = 1
  Requests <- MCRequests
  UploadIDs <- MCUploadIDs
  Files <- MCFiles
  Pollers <- MCPollers
  Listings <- MCListings
SPECIFICATION FairServiceSpec
INVARIANTS ServiceTypeOK PollsAddUp
PROPERTIES PollsAdvance KnownOnceAccepted PollingEnds
