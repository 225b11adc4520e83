SPECIFICATION Spec
CONSTANTS
  t1 = t1  t2 = t2  s1 = s1
  Threads = {t1, t2}
  Sessions = {s1}
  Http = Http
  Requests <- MCRequests
  RATE_SECONDS = 3
  U16Max = 3
  max_req_per_sec = 2
  max_batch_size = 2
  MaxElapsed = 4
  MaxCount = 4
INVARIANTS TypeOK WithinLimit SteadyClientsServed
