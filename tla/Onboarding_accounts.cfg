CONSTANTS
  u1 = u1
  u2 = u2
  e1 = e1
  e2 = e2
  n1 = n1
  n2 = n2
  p1 = p1
  p2 = p2
  x1 = x1
  x2 = x2
  Null = Null
  User <- TwoUsers
  Applicant <- OneApplicant
  Email <- TwoEmails
  Phone <- TwoPhones
  Proc <- TwoProcs
  Exec <- TwoExecs
  MaxReview = 2
  MaxRegistered = 2
  h1 = h1
  h2 = h2
  m1 = m1
  m2 = m2
  c1 = c1
  c2 = c2
  NoHolder = NoHolder
  NoMailbox = NoMailbox
  Holder <- TwoHolders
  Mailbox <- TwoBoxes
  Call <- TwoCalls
  FirstEmail <- OwnBoxes
  MaxApproved = 1
  JwtNamesUser = TRUE
SPECIFICATION VerifySpec
SYMMETRY Symmetry
INVARIANT EmailsAreUnique
INVARIANT PhoneIsApproved
INVARIANT OnboardingSafe
INVARIANT KycIsLastReview
INVARIANT CodesBuyOnce
\* The reviews of a user, and with them its deliveries, are bounded.
CHECK_DEADLOCK FALSE
