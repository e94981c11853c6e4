\* Two processes; t2 has nothing to pay.
SPECIFICATION Spec
CONSTANTS
  None = None
  t1 = t1
  t2 = t2
  ok = ok
  foreign = foreign
  other = other
  abandon = abandon
  i1 = i1
  i1p = i1p
  i2 = i2
  g1 = g1
  Commands = {ok, foreign, other, abandon}
  Targets = {t1, t2}
  Target <- MCTarget
  Reusing = {ok, foreign, other}
  Allowed = {ok, other, abandon}
  Empty = {t2}
  Kind <- MCKind
  ClientIds = {i1, i1p, i2}
  GeneratedIds = {g1}
  AutoId <- MCAutoId
  PaymentId <- MCPaymentId
  Processes = {p1, p2}
  MaxAttempts = 2
INVARIANTS
  TypeOK
  OneDecision
  AnswersAgree
  SamePayment
PROPERTIES
  TakenNotRefused
SYMMETRY ProcessSymmetry
