SPECIFICATION Spec
CONSTANTS
  Users <- MCUsers
  Locations <- MCLocations
  Visits <- MCVisits
  Options <- MCOptions
  Archives <- MCArchives
  UserIds = {9999, 10000}
  LocationIds = {9, 10}
  VisitIds = {0, 7, 1000, 99999}
  NoId = NoId
  Uninitialised = {0, 77}
  Requests <- MCRequests
  Malformed = Malformed
  Leftovers <- MCLeftovers
  Overruns = {0, 1}
INVARIANTS LoadedIsInit TextsAreUtf8 AnswersTellTheData AverageRounded
