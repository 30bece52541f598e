\* The page of a company, from before its offer to the end of the order.
CONSTANTS
  Companies = {c1}
  Client = client
  Tabs = {t1}
  Owner <- MCCompanyOwns
  Nobody = nobody
  Retries = 1
  MaxVersion = 4
  MaxBinds = 2
  MaxVisits = 1
  MaxReads = 1
  MaxDrops = 1
  MaxFaults = 1
SPECIFICATION Spec
INVARIANTS
  RoomHoldsParticipants
  
CHECK_DEADLOCK FALSE
