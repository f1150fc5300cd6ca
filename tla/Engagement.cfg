\* Two request threads and three requests on one account, one guest and one
\* unregistered address, which may also sign in through the provider.
SPECIFICATION FairSpec
CONSTANTS
  w1 = w1
  w2 = w2
  e1 = e1
  e2 = e2
  Ann = Ann
  Bo = Bo
  bo = bo
  guest = guest
  guest2 = guest2
  p1 = p1
  None = None
  Workers = {w1, w2}
  Emails = {e1, e2}
  Operators = {e2}
  Names = {Ann, Bo, bo}
  GuestNames = {guest, guest2}
  Folded <- MCFolded
  Proposals = {p1}
  Workload = {"code", "verify", "guest", "operator", "like", "unlike", "comment", "change", "overwrite", "redeem"}
  MaxRequests = 3
  MaxRedemptions = 1
  StartUsers <- MCUsers
  StartCodes <- MCCodes
  StartOwner <- MCOwner
  StartLikes <- MCLikes
  StartComments <- MCComments
CHECK_DEADLOCK FALSE
INVARIANTS
  LimitsYieldToRacesOnly
PROPERTIES
  NothingIsTakenBack
  MergeTakesAll
  AuthorsChange
  RequestsEnd
