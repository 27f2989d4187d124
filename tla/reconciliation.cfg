CONSTANTS
  Mints = {tok, sol}
  HoldMints = {sol}
  Strategies = {copy}
  Reconciled = reconciled
  NoOrder = NoOrder
  NoRead = NoRead
  Lot = 3
  MaxLots = 2
  MaxOrders = 2
  MaxHand = 1
  MaxAccepts = 1
  MaxCrashes = 1
SPECIFICATION Spec
 
PROPERTY AcceptKeepsExits
 
PROPERTY AgreementUnblocks
