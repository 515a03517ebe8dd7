SPECIFICATION Spec
CONSTANTS
  company = company
  divisionA = divisionA
  divisionB = divisionB
  NoAccount = NoAccount
  Unsaid = Unsaid
  Accounts = {company, divisionA, divisionB}
  Parent <- MCParent
  Chain <- MCChain
  Tasks = {t1, t2}
  Requests = {r1}
  DefaultReserve = 1
  TokenCeilings = {2}
  MoneyCeilings = {1}
  TokenAmounts = {2}
  MoneyAmounts = {1}
  MaxMonth = 1
  MaxMoney = 1
INVARIANTS TypeOK TokensWithinCeiling ReservedIsHeld TokenLedgerAgrees MoneyAgreesInAMonth
CHECK_DEADLOCK FALSE
SYMMETRY MCSymmetry
