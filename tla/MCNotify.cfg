SPECIFICATION FairSpec
CONSTANTS
  s1 = s1
  s2 = s2
  s3 = s3
  t1 = t1
  t2 = t2
  bad = bad
  NoText = NoText
  Senders = {s1, s2, s3}
  Texts = {t1, t2, bad}
  Text <- Distinct
  Valid = {t1, t2}
  Fingerprints = {t1, t2, bad}
  Crc <- OwnCrc
  Capacity = 2
  Attempts = 2
  MaxDups = 1
INVARIANTS
  TypeOK
  OnceUnlessLost
PROPERTIES
  NoRepeatWithinWindow
  ImplementsDelivery
  SendersEnd
CHECK_DEADLOCK FALSE
