SPECIFICATION FairSpec
CONSTANTS
  t1 = t1  t2 = t2  t3 = t3
  alice = alice  bob = bob
  Threads = {t1, t2, t3}
  Accounts = {alice, bob}
  Txns <- MCTxns
  Requests <- LockRequests
  Keccak <- MCKeccak
  BlockGasLimit = 1
  MinGasPrice = 1
  MaxBlock = 1
  MaxLogs = 0
PROPERTIES QueriesFinish SubmissionsFinish Refines
