CONSTANTS
  r1 = r1  r2 = r2  q1 = q1  e1 = e1  t1 = t1
  plain = plain  proxied = proxied  m1 = m1  m2 = m2  rc1 = rc1
  NL = NL  None = None
  Request = {r1, r2}
  Reader = {}
  EventId = {e1}
  Team = {t1}
  Body = {plain, proxied}
  Padded = {plain}
  Attested = {proxied}
  Manifest = {m1}
  Receipt = {rc1}
  TeamOf <- OneTeam
  ManifestOf <- FirstManifest
  ReceiptOf <- SameReceipt
  MaxCrashes = 0
  MaxFaults = 0
SPECIFICATION FairSpec
PROPERTIES
  PlainAnswered
