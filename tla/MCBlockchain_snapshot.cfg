SPECIFICATION Spec
CONSTANTS
  t1 = t1  t2 = t2  t3 = t3
  alice = alice  bob = bob
  Threads = {t1, t2}
  Accounts = {alice, bob}
  Txns <- MCTxns
  Requests <- SnapshotRequests
  Keccak <- MCKeccak
  BlockGasLimit = 1
  MinGasPrice = 1
  MaxBlock = 2
  MaxLogs = 0
INVARIANT StateIsSnapshot
