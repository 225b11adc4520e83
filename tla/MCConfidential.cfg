SPECIFICATION FairSpec
CONSTANTS
  a = a
  b = b
  alice = alice
  miner = miner
  NoOne = NoOne
  Callers = {alice, miner}
  Clients = {alice}
  Miner = miner
  Contracts = {a, b}
  Cells = {"x"}
  Values = {"v"}
  Starts = {2}
  CounterSize = 4
  MaxBlock = 2
  MaxDepth = 2
INVARIANTS TypeOK KMInv ContextMatchesFrame SessionKept ReadsBack MessagesOpen NoncesFresh RefusedOnlyWhenCut PublishedKeyStands
PROPERTY KeyManagerAnswers
CHECK_DEADLOCK FALSE
