SPECIFICATION BuildSpec
CONSTANTS
  Senders = {s1, s2}
  JarSenders = {s1}
  HopLimit = 2
  Requests <- MCRequests
  Standard <- MCStandard
  StoreValue <- MCStoreValue
  Canonical <- MCCanonical
INVARIANT NoRedirectHonoured
INVARIANT JarOnlyForOptedIn
INVARIANT SentAsWritten
PROPERTY RequestEnds
