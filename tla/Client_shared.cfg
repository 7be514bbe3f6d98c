SPECIFICATION Spec
CONSTANTS
  Senders = {s1, s2, s3}
  JarSenders = {s1}
  HopLimit = 3
INVARIANT NoRedirectHonoured
