CONSTANTS
  c1 = c1
  c2 = c2
  alice = alice
  bob = bob
  SeedToken = SeedToken
  Nothing = Nothing
  Calls <- MCCalls
  Emails <- MCEmails
  Overlap = FALSE
  HashReturns = TRUE
SPECIFICATION FairSpec
INVARIANTS TypeOK UsersHavePasswords
PROPERTIES OnlyDemoteDemotes ValidatedStays ChangedByAdmin DeletedLeftAlone Answered
