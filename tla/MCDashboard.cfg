CONSTANTS
  Page = {g1, g2}
  NoPage = NoPage
  Request = {r1, r2}
SPECIFICATION FairSpec
CONSTRAINT DemoWhole
INVARIANT DashboardTypeOK
PROPERTIES ClickSettles PageFollows PageStays
