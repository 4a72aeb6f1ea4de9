\* Two handoffs, a loop of this process and a client of the gateway.
SPECIFICATION Spec
CONSTANTS
  h1 = h1  h2 = h2  loop = loop  client = client
  Handoffs = {h1, h2}
  Hosts = {loop, client}
  Clients = {client}
  None = None
  MaxTroubles = 2
  HandOffCost = 2
INVARIANTS TypeOK AnsweredOnce
PROPERTIES NoResultIsLost WaitingIsAnswered 
CHECK_DEADLOCK FALSE
