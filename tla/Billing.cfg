\* Two requests and a sweep over three subscriptions of one company.
CONSTANTS
  s1 = s1
  s2 = s2
  s3 = s3
  c1 = c1
  r1 = r1
  r2 = r2
  w1 = w1
  code = code
  campaign = campaign
  Subs = {s1, s2, s3}
  Enterprise = {s3}
  Companies = {c1}
  Codes = {code}
  Campaigns = {campaign}
  Price <- MCPrice
  MaxRedemptions <- MCMaxRedemptions
  MaxPerCompany <- MCMaxPerCompany
  Requests = {r1, r2}
  Sweepers = {w1}
  BatchSize = 2
  Null = Null
SPECIFICATION Spec
SYMMETRY Symmetry
INVARIANTS
  NumbersAreGapFree
  BooksAgree
  LoserIsRefusedCleanly
  RedemptionsAreCounted
  CompanyKeepsLimit
PROPERTY LedgerSpec
