\* Two administrators, two requests, one change on GitHub and one fault.
CONSTANTS
  Users = {"ann", "bob"}
  Admins = {"ann", "bob"}
  MaxRequests = 2
  MaxChanges = 1
  MaxFaults = 1
SPECIFICATION FairSpec
INVARIANTS
  RevocationComplete
  OneBearerPerLogin
  AuthorizedOnCurrentAccess
PROPERTIES
  EveryRequestEnds
CHECK_DEADLOCK FALSE
