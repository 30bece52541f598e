\* A client and a company at one browser, with up to three events outside.
CONSTANTS
  client = client
  company = company
  Users = {client, company}
  RoleOf <- MCRoleOf
  NoToken = noToken
  NoNext = noNext
  Foreign = foreign
  NoPromise = noPromise
  MaxEvents = 3
SPECIFICATION Spec
INVARIANTS
  CabinetIsServed
  ArrivesWherePromised
PROPERTIES
  EveryoneArrives
