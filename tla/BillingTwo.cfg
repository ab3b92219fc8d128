SPECIFICATION FairSpec
CONSTANTS
  card = card
  apple = apple
  t1 = t1
  t2 = t2
  None = None
  Payments = {card, apple}
  Apple = {apple}
  Tasks = {t1, t2}
  Term = 1
  MaxTime = 2
  MaxExpiry = 2
  Races = {"renewals"}
CHECK_DEADLOCK FALSE
INVARIANTS TypeOK OneTermPerPayment
PROPERTIES TermsAddUp EndedOnlyWhenDue PaidIsRenewed
