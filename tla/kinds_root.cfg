SPECIFICATION MCSpec
CONSTANTS
  NoUsage = NoUsage
  Txns = {t1, t2}
  QuotaKinds = {A, B}
  QuotaKindOwned = FALSE
  MaxSize = 2
  Writers = {w1, w2}
  Props = {p1, p2, p3}
  TableSize = 2
  TokensInTxn = FALSE
  A = A  B = B  K = K  C = C  own1 = own1  own2 = own2  adm = adm  Nil = Nil  Root = Root
  t1 = t1  t2 = t2  w1 = w1  w2 = w2  p1 = p1  p2 = p2  p3 = p3
  Kinds = {A, B, K, C}
  Objs = {o1}
  Owners = {own1, own2}
  Admin = adm
  KindObjects <- MCKindObjects
  LoadOrder <- MCLoadOrder
  GrantKinds = {A}
  FailOverMarker = FALSE
  SupersFirst = TRUE
  MaxIndexId = 7
INVARIANT RootFindsAll
CHECK_DEADLOCK FALSE
