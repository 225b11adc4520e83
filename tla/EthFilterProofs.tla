-------------------------- MODULE EthFilterProofs ---------------------------
(***************************************************************************)
(* Proofs about EthFilter for any tasks, filters and bounds: TypeOK, NoGap *)
(* and FailsOnlyWhenQuiet.  None is inductive; FInv adds what a task knows *)
(* of the range it is reading, and that what lies before that range is     *)
(* accounted for.  What a poisoned chain makes a poll lose is accounted    *)
(* for as lost, and LossInv says that nothing else does.                   *)
(***************************************************************************)
EXTENDS EthFilter, TLAPS

Changes(t) == call[t].op = "filter_changes"

(* A poll that has taken its range and not yet answered. *)
Busy(t) == pc[t] \in {"from", "to", "fetch"} /\ Changes(t)

(* Where the range of a poll begins. *)
Start(t) == IF pc[t] = "fetch" THEN lo[t][1] ELSE want[t].from[1]

(* The call a task serves and what it has read for it. *)
CallInv(t) ==
  /\ pc[t] = "idle" <=> call[t] = NoCall
  /\ pc[t] \in {"idle", "lock"} => want[t] = NoFilter
  /\ pc[t] \in {"from", "to", "fetch"} => call[t].op \in {"filter_changes", "filter_logs"}
  /\ pc[t] \notin {"idle", "lock", "from"} \/ lo[t] = None

(* The range of a poll is the one its filter's cursor gave it: it begins at *)
(* the cursor, its first end is found unless the cursor is past the latest  *)
(* block, and the blocks that are fetched exist.                            *)
RangeInv(t) ==
  /\ pc[t] \in {"from", "to"} /\ Changes(t) =>
       want[t].to = None /\ \E n \in 0 .. (MaxBlock + 1) : want[t].from = Some(n)
  /\ pc[t] = "to" /\ Changes(t) =>
       lo[t] = want[t].from \/ (lo[t] = None /\ blk[t] < want[t].from[1])
  /\ pc[t] = "fetch" => lo[t] # None /\ hi[t] # None /\ hi[t][1] <= height

(* A poll is of a filter that has been created, and its limit is that       *)
(* filter's.                                                                *)
LimitInv(t) ==
  Busy(t) =>
    /\ call[t].id < next_id
    /\ call[t].id \in DOMAIN polls => want[t].limit = polls[call[t].id].filter.limit

(* What lies before the range of a poll is accounted for, and so is         *)
(* everything up to the call when the poll has failed.                      *)
PriorInv(t) ==
  Busy(t) /\ Complete(call[t].id) =>
    \A n \in (born[call[t].id] + 1) .. blk[t] : n < Start(t) => n \in Accounted(call[t].id)

Failed(t) == pc[t] = "failed" /\ Changes(t)

FailedInv(t) ==
  Failed(t) =>
    /\ call[t].id < next_id
    /\ Complete(call[t].id) =>
         \A n \in (born[call[t].id] + 1) .. blk[t] : n \in Accounted(call[t].id)

(* Block filters have no limit. *)
PollsInv ==
  \A i \in DOMAIN polls : polls[i].kind = "block" => polls[i].filter = NoFilter

TasksInv ==
  /\ want \in [Tasks -> FilterType]
  /\ \A t \in Tasks : CallInv(t) /\ RangeInv(t)

(* The two halves of NoGap. *)
GapInv ==
  \A i \in DOMAIN polls : Complete(i) =>
    \A n \in (born[i] + 1) .. height : n < polls[i].number => n \in Accounted(i)

LossInv == \A i \in Ids : lost[i] # {} => poisoned

FInv ==
  /\ TypeOK /\ PollsInv /\ TasksInv /\ GapInv
  /\ \A t \in Tasks : LimitInv(t) /\ PriorInv(t) /\ FailedInv(t)

-----------------------------------------------------------------------------
LEMMA OptionFacts ==
  ASSUME NEW S, NEW o
  PROVE  /\ o \in Options(S) <=> o = None \/ \E x \in S : o = Some(x)
         /\ \A x : Some(x)[1] = x /\ Some(x) # None
<1>1. \A x : Some(x)[1] = x /\ Some(x) # None
  BY Zenon DEF Some, None
<1>2. ASSUME o \in Options(S)
      PROVE  o = None \/ \E x \in S : o = Some(x)
  <2>1. o \in Seq(S) /\ Len(o) \in Nat /\ Len(o) <= 1
    BY <1>2 DEF Options
  <2>2. CASE Len(o) = 0
    BY <2>1, <2>2 DEF None
  <2>3. CASE Len(o) = 1
    BY <2>1, <2>3 DEF Some
  <2>4. \A k \in Nat : k <= 1 => k = 0 \/ k = 1
    OBVIOUS
  <2>5. QED
    BY <2>1, <2>2, <2>3, <2>4, Zenon
<1>3. None \in Options(S) /\ \A x \in S : Some(x) \in Options(S)
  BY DEF Options, None, Some
<1>4. QED
  BY <1>1, <1>2, <1>3, Zenon

LEMMA SomeOf ==
  ASSUME NEW S, NEW o \in Options(S), o # None
  PROVE  o[1] \in S
BY OptionFacts

(* Only what one task holds of a filter changes: it is still accounted for  *)
(* if it goes to its client or with a dying poll.                           *)
LEMMA AccountedGrows ==
  ASSUME NEW t \in Tasks, NEW i,
         \A u \in Tasks \ {t} : InFlight(u, i)' = InFlight(u, i),
         reported[i] \subseteq reported'[i], lost[i] \subseteq lost'[i],
         InFlight(t, i) \subseteq InFlight(t, i)' \cup reported'[i] \cup lost'[i]
  PROVE  Accounted(i) \subseteq Accounted(i)'
BY Zenon DEF Accounted

LEMMA CallFields ==
  ASSUME NEW c \in Calls
  PROVE  /\ c # NoCall
         /\ c.op \in Creates \cup {"filter_changes", "filter_logs", "uninstall_filter"}
         /\ c.op = "new_filter" => c.filter \in Filters
         /\ c.op \in {"filter_changes", "filter_logs", "uninstall_filter"} => c.id \in Ids
BY DEF Calls, NoCall, Creates

LEMMA FilterFields ==
  ASSUME NEW f \in Filters \cup {NoFilter}
  PROVE  f \in FilterType
<1>1. None \in Options(Nat)
  BY OptionFacts, Zenon
<1>2. QED
  BY <1>1, FiltersAssumption DEF NoFilter, FilterType

-----------------------------------------------------------------------------
(* The locals of a task stay. *)
Same(u) ==
  /\ pc'[u] = pc[u] /\ call'[u] = call[u] /\ blk'[u] = blk[u]
  /\ want'[u] = want[u] /\ lo'[u] = lo[u] /\ hi'[u] = hi[u]

(* The filters there were keep their kind and their limit, and what was     *)
(* accounted for remains so.                                                *)
Kept ==
  /\ next_id <= next_id' /\ next_id' \in Nat
  /\ \A i \in DOMAIN polls' : i < next_id =>
       /\ i \in DOMAIN polls
       /\ polls'[i].kind = polls[i].kind /\ polls'[i].filter = polls[i].filter
       /\ born'[i] = born[i]
       /\ Complete(i) => Accounted(i) \subseteq Accounted(i)'

LEMMA OthersKept ==
  ASSUME FInv, Kept, NEW u \in Tasks, Same(u)
  PROVE  LimitInv(u)' /\ PriorInv(u)' /\ FailedInv(u)'
<1> PICK i : i = call[u].id
  BY Zenon
<1>1. LimitInv(u) /\ PriorInv(u) /\ FailedInv(u) /\ next_id \in Nat
  BY DEF FInv, TypeOK
<1>2. Busy(u)' <=> Busy(u)
  BY Zenon DEF Busy, Same, Changes
<1>3. Failed(u)' <=> Failed(u)
  BY Zenon DEF Failed, Same, Changes
<1>4. Start(u)' = Start(u) /\ call'[u].id = i /\ blk'[u] = blk[u]
  BY Zenon DEF Start, Same
<1>5. Busy(u) \/ Failed(u) => i < next_id /\ i \in Ids
  <2>1. call[u].op = "filter_changes" => call[u].id \in Ids
    BY CallFields DEF FInv, TypeOK, NoCall
  <2>2. QED
    BY <1>1, <2>1, Zenon DEF LimitInv, FailedInv, Busy, Failed, Changes
<1>6. ASSUME Busy(u) \/ Failed(u), Complete(i)'
      PROVE  Complete(i) /\ born'[i] = born[i] /\ Accounted(i) \subseteq Accounted(i)'
  BY <1>5, <1>6, Zenon DEF Kept, Complete
<1>7. LimitInv(u)'
  BY <1>1, <1>2, <1>4, <1>5 DEF LimitInv, Kept, Same, Ids
<1>8. PriorInv(u)'
  BY <1>1, <1>2, <1>4, <1>6, Zenon DEF PriorInv
<1>9. FailedInv(u)'
  BY <1>1, <1>3, <1>4, <1>5, <1>6 DEF FailedInv, Kept, Ids
<1>10. QED
  BY <1>7, <1>8, <1>9, Zenon

(* The cursors stay, and new filters begin at the latest block. *)
LEMMA GapKept ==
  ASSUME FInv, Kept, height' \in Nat, height <= height',
         \A i \in DOMAIN polls' : i < next_id => polls'[i].number = polls[i].number,
         \A i \in DOMAIN polls' : i < next_id \/ born'[i] = height'
  PROVE  GapInv'
<1> SUFFICES ASSUME NEW i \in DOMAIN polls', Complete(i)',
                    NEW n \in (born'[i] + 1) .. height', n < polls'[i].number
             PROVE  n \in Accounted(i)'
  BY Zenon DEF GapInv
<1>1. CASE born'[i] = height'
  BY <1>1
<1>2. CASE i < next_id
  <2>1. /\ i \in DOMAIN polls /\ Complete(i) /\ born'[i] = born[i]
        /\ Accounted(i) \subseteq Accounted(i)' /\ n < polls[i].number
    BY <1>2, Zenon DEF Kept, Complete
  <2>2. polls[i].number \in Nat /\ polls[i].number <= height + 1 /\ height \in Nat
        /\ born[i] \in Nat
    BY <2>1, BoundsAssumption DEF FInv, TypeOK, Polls, BlockNumbers
  <2>3. n \in (born[i] + 1) .. height
    BY <2>1, <2>2
  <2>4. QED
    BY <2>1, <2>3, Zenon DEF FInv, GapInv
<1>3. QED
  BY <1>1, <1>2, Zenon

LEMMA InFlightKept ==
  ASSUME NEW u \in Tasks, Same(u), NEW i
  PROVE  InFlight(u, i)' = InFlight(u, i)
BY Zenon DEF InFlight, Same

LEMMA LocalsKept ==
  ASSUME FInv, NEW u \in Tasks, Same(u), height' \in Nat, height <= height'
  PROVE  CallInv(u)' /\ RangeInv(u)'
<1>1. CallInv(u) /\ RangeInv(u)
  BY Zenon DEF FInv, TasksInv
<1>2. CallInv(u)'
  BY <1>1, Zenon DEF CallInv, Same
<1>3. hi[u] # None => hi[u][1] \in Nat
  BY OptionFacts, BoundsAssumption DEF FInv, TypeOK, BlockNumbers
<1>4. height \in Nat
  BY BoundsAssumption DEF FInv, TypeOK, BlockNumbers
<1>5. RangeInv(u)'
  BY <1>1, <1>3, <1>4 DEF RangeInv, Same, Changes
<1>6. QED
  BY <1>2, <1>5, Zenon

(* A step of one task. *)
LEMMA StepKeeps ==
  ASSUME FInv, NEW t \in Tasks, \A u \in Tasks \ {t} : Same(u),
         height' \in Nat, height <= height',
         TypeOK', PollsInv', Kept, GapInv',
         want' \in [Tasks -> FilterType],
         CallInv(t)', RangeInv(t)', LimitInv(t)', PriorInv(t)', FailedInv(t)'
  PROVE  FInv'
<1>1. \A u \in Tasks \ {t} : CallInv(u)' /\ RangeInv(u)'
  BY LocalsKept, Zenon
<1>2. \A u \in Tasks \ {t} : LimitInv(u)' /\ PriorInv(u)' /\ FailedInv(u)'
  BY OthersKept, Zenon
<1>3. TasksInv'
  BY <1>1, Zenon DEF TasksInv
<1>4. QED
  BY <1>2, <1>3, Zenon DEF FInv

LEMMA MineFInv ==
  ASSUME FInv, Mine
  PROVE  FInv'
<1> USE DEF Mine, pollVars, rangeVars, fateVars
<1>1. height \in Nat /\ height' = height + 1 /\ height' \in BlockNumbers /\ height' \in Nat
  BY BoundsAssumption DEF FInv, TypeOK, BlockNumbers
<1>2. \A u \in Tasks : Same(u)
  BY Zenon DEF Same
<1>3. TypeOK'
  <2>1. blk' \in [Tasks -> 0 .. height']
    BY <1>1 DEF FInv, TypeOK
  <2>2. \A i \in DOMAIN polls' : polls'[i] \in Polls /\ polls'[i].number <= height' + 1
    BY <1>1, BoundsAssumption DEF FInv, TypeOK, Polls
  <2>3. \A i \in DOMAIN born' : born'[i] \in 0 .. height'
    BY <1>1 DEF FInv, TypeOK
  <2>4. QED
    BY <1>1, <2>1, <2>2, <2>3, Zenon DEF FInv, TypeOK
<1>4. PollsInv'
  BY Zenon DEF FInv, PollsInv
<1>5. \A i : Accounted(i)' = Accounted(i)
  BY DEF Accounted, InFlight
<1>6. Kept
  BY <1>5 DEF Kept, FInv, TypeOK
<1>7. GapInv'
  BY <1>1, <1>6, GapKept DEF FInv, TypeOK
<1>8. \A u \in Tasks : CallInv(u)' /\ RangeInv(u)' /\ LimitInv(u)' /\ PriorInv(u)' /\ FailedInv(u)'
  BY <1>1, <1>2, <1>6, LocalsKept, OthersKept
<1>9. QED
  BY <1>3, <1>4, <1>7, <1>8, Zenon DEF FInv, TasksInv

(* A task moves on and no filter does: what the task held is still held, or *)
(* has been handed over or lost.                                            *)
LEMMA LocalStep ==
  ASSUME FInv, NEW t \in Tasks, \A u \in Tasks \ {t} : Same(u),
         UNCHANGED << height, polls, next_id, born >>,
         \A i \in DOMAIN polls : Complete(i) =>
           /\ reported[i] \subseteq reported'[i] /\ lost[i] \subseteq lost'[i]
           /\ InFlight(t, i) \subseteq InFlight(t, i)' \cup reported'[i] \cup lost'[i]
  PROVE  Kept /\ GapInv'
<1>1. ASSUME NEW i \in DOMAIN polls, Complete(i)
      PROVE  Accounted(i) \subseteq Accounted(i)'
  <2>1. \A u \in Tasks \ {t} : InFlight(u, i)' = InFlight(u, i)
    BY InFlightKept, Zenon
  <2>2. QED
    BY <1>1, <2>1, AccountedGrows, Zenon
<1>2. height \in Nat /\ next_id \in Nat /\ \A i \in DOMAIN polls : i < next_id
  BY BoundsAssumption DEF FInv, TypeOK, BlockNumbers
<1>3. Kept
  BY <1>1, <1>2 DEF Kept
<1>4. QED
  BY <1>2, <1>3, GapKept

(* As LocalStep, by a task that has no range before or after. *)
LEMMA QuietStep ==
  ASSUME FInv, NEW t \in Tasks, \A u \in Tasks \ {t} : Same(u),
         UNCHANGED << height, polls, next_id, born, reported, lost >>,
         ~ Busy(t), ~ Busy(t)', ~ Failed(t)', TypeOK',
         want' \in [Tasks -> FilterType],
         CallInv(t)', RangeInv(t)'
  PROVE  FInv'
<1>1. \A i : InFlight(t, i) = {} /\ InFlight(t, i)' = {}
  BY Zenon DEF InFlight, Busy, Changes
<1>2. Kept /\ GapInv'
  BY <1>1, LocalStep, Zenon
<1>3. LimitInv(t)' /\ PriorInv(t)' /\ FailedInv(t)'
  BY Zenon DEF LimitInv, PriorInv, FailedInv
<1>4. PollsInv'
  BY Zenon DEF FInv, PollsInv
<1>5. height' \in Nat /\ height <= height'
  BY BoundsAssumption DEF FInv, TypeOK, BlockNumbers
<1>6. QED
  BY <1>2, <1>3, <1>4, <1>5, StepKeeps, Zenon

LEMMA CallFInv ==
  ASSUME FInv, NEW t \in Tasks, NEW c \in Calls, Call(t, c)
  PROVE  FInv'
<1> USE DEF Call, Goto, pollVars, rangeVars, chainVars, fateVars
<1>1. TypeOK /\ CallInv(t) /\ TasksInv
  BY Zenon DEF FInv, TasksInv
<1>2. \A u \in Tasks \ {t} : Same(u)
  BY <1>1, Zenon DEF Same, TypeOK
<1>3. pc'[t] = "lock" /\ call'[t] = c /\ want'[t] = NoFilter /\ lo'[t] = None
  BY <1>1, Zenon DEF TypeOK, CallInv
<1>4. TypeOK'
  <2>1. height \in Nat
    BY <1>1, BoundsAssumption DEF TypeOK, BlockNumbers
  <2>2. pc' \in [Tasks -> Labels] /\ blk' \in [Tasks -> 0 .. height]
        /\ call' \in [Tasks -> Calls \cup {NoCall}]
    BY <1>1, <2>1 DEF TypeOK, Labels
  <2>3. holder' = None \/ \E u \in Tasks : holder' = Some(u) /\ pc'[u] \in {"from", "to"}
    BY <1>1, Zenon DEF TypeOK
  <2>4. QED
    BY <1>1, <2>2, <2>3, Zenon DEF TypeOK
<1>5. CallInv(t)' /\ RangeInv(t)'
  BY <1>3, CallFields, Zenon DEF CallInv, RangeInv
<1>6. ~ Busy(t) /\ ~ Busy(t)' /\ ~ Failed(t)'
  BY <1>3, Zenon DEF Busy, Failed
<1>7. QED
  BY <1>1, <1>2, <1>4, <1>5, <1>6, QuietStep, Zenon DEF TasksInv

(* The call of a task is over. *)
Left(t) ==
  /\ \A u \in Tasks \ {t} : Same(u)
  /\ pc' \in [Tasks -> Labels] /\ call' \in [Tasks -> Calls \cup {NoCall}]
  /\ blk' \in [Tasks -> 0 .. height] /\ want' \in [Tasks -> FilterType]
  /\ lo' \in [Tasks -> Options(0 .. (MaxBlock + 1))] /\ hi' \in [Tasks -> Options(BlockNumbers)]
  /\ holder' = None \/ \E u \in Tasks : holder' = Some(u) /\ pc'[u] \in {"from", "to"}
  /\ CallInv(t)' /\ RangeInv(t)' /\ ~ Busy(t)' /\ ~ Failed(t)'
  /\ \A i : InFlight(t, i)' = {}

LEMMA LeaveFacts ==
  ASSUME FInv, NEW t \in Tasks, Leave(t),
         \/ UNCHANGED holder /\ pc[t] \notin {"from", "to"}
         \/ holder' = IF holder = Some(t) THEN None ELSE holder
  PROVE  Left(t)
<1> USE DEF Leave, Clear, Goto
<1>1. TypeOK /\ TasksInv
  BY Zenon DEF FInv
<1>2. \A u \in Tasks \ {t} : Same(u)
  BY <1>1, Zenon DEF Same, TypeOK, TasksInv
<1>3. /\ pc'[t] = "idle" /\ call'[t] = NoCall /\ want'[t] = NoFilter /\ lo'[t] = None
      /\ want' \in [Tasks -> FilterType]
  BY <1>1, FilterFields, Zenon DEF TypeOK, TasksInv
<1>4. None \in Options(0 .. (MaxBlock + 1)) /\ None \in Options(BlockNumbers)
  BY OptionFacts, Zenon
<1>5. lo' \in [Tasks -> Options(0 .. (MaxBlock + 1))] /\ hi' \in [Tasks -> Options(BlockNumbers)]
  BY <1>1, <1>4, Zenon DEF TypeOK
<1>6. pc' \in [Tasks -> Labels] /\ call' \in [Tasks -> Calls \cup {NoCall}]
  BY <1>1, Zenon DEF TypeOK, Labels
<1>7. blk' \in [Tasks -> 0 .. height]
  <2>1. 0 \in 0 .. height
    BY <1>1, BoundsAssumption DEF TypeOK, BlockNumbers
  <2>2. QED
    BY <1>1, <2>1, Zenon DEF TypeOK
<1>8. holder' = None \/ \E u \in Tasks : holder' = Some(u) /\ pc'[u] \in {"from", "to"}
  <2>1. CASE UNCHANGED holder /\ pc[t] \notin {"from", "to"}
    BY <1>1, <2>1, Zenon DEF TypeOK
  <2>2. CASE holder' = IF holder = Some(t) THEN None ELSE holder
    <3>1. CASE holder = Some(t)
      BY <2>2, <3>1, Zenon
    <3>2. CASE holder # Some(t)
      BY <1>1, <1>2, <2>2, <3>2, Zenon DEF TypeOK, Same
    <3>3. QED
      BY <3>1, <3>2, Zenon
  <2>3. QED
    BY <2>1, <2>2, Zenon
<1>9. CallInv(t)' /\ RangeInv(t)' /\ ~ Busy(t)' /\ ~ Failed(t)'
  BY <1>3, Zenon DEF CallInv, RangeInv, Busy, Failed
<1>10. \A i : InFlight(t, i)' = {}
  BY <1>3, Zenon DEF InFlight
<1> HIDE DEF Leave, Clear, Goto
<1>11. QED
  BY <1>2, <1>3, <1>5, <1>6, <1>7, <1>8, <1>9, <1>10, Zenon DEF Left

(* A task that has no range leaves, and the filters stay. *)
LEMMA ReturnFInv ==
  ASSUME FInv, NEW t \in Tasks, Return(t) \/ FilterNotFound(t) \/ NoChanges(t)
  PROVE  FInv'
<1>1. /\ pc[t] \in {"lock", "failed"} /\ Leave(t)
      /\ UNCHANGED << chainVars, pollVars, fateVars >>
  BY Zenon DEF Return, FilterNotFound, NoChanges, Locks
<1>2. UNCHANGED << height, poisoned, polls, next_id, born, holder, reported, lost >>
  BY <1>1, Zenon DEF pollVars, chainVars, fateVars
<1>3. Left(t)
  BY <1>1, <1>2, LeaveFacts, Zenon
<1>4. TypeOK'
  BY <1>2, <1>3, Zenon DEF FInv, TypeOK, Left
<1>5. ~ Busy(t)
  BY <1>1, Zenon DEF Busy
<1>6. QED
  BY <1>2, <1>3, <1>4, <1>5, QuietStep, Zenon DEF Left

(* What every step that creates or drops a filter keeps. *)
LEMMA PollsStep ==
  ASSUME FInv, NEW t \in Tasks, \A u \in Tasks \ {t} : Same(u),
         UNCHANGED << height, reported, lost >>, TypeOK', PollsInv',
         next_id <= next_id',
         \A i \in DOMAIN polls' : IF i < next_id
                                  THEN /\ i \in DOMAIN polls /\ polls'[i] = polls[i]
                                       /\ born'[i] = born[i]
                                  ELSE born'[i] = height,
         want' \in [Tasks -> FilterType],
         CallInv(t)', RangeInv(t)', ~ Busy(t), ~ Busy(t)', ~ Failed(t)'
  PROVE  FInv'
<1>1. height \in Nat /\ next_id' \in Nat
  BY BoundsAssumption DEF FInv, TypeOK, BlockNumbers
<1>2. \A i : InFlight(t, i) = {} /\ InFlight(t, i)' = {}
  BY Zenon DEF InFlight, Busy, Changes
<1>3. \A i : Accounted(i) \subseteq Accounted(i)'
  <2> TAKE i
  <2>1. \A u \in Tasks \ {t} : InFlight(u, i)' = InFlight(u, i)
    BY InFlightKept, Zenon
  <2>2. QED
    BY <1>2, <2>1, AccountedGrows, Zenon
<1>4. Kept
  BY <1>1, <1>3, Zenon DEF Kept
<1>5. GapInv'
  BY <1>1, <1>4, GapKept
<1>6. LimitInv(t)' /\ PriorInv(t)' /\ FailedInv(t)'
  BY Zenon DEF LimitInv, PriorInv, FailedInv
<1>7. QED
  BY <1>1, <1>4, <1>5, <1>6, StepKeeps

LEMMA CreateFInv ==
  ASSUME FInv, NEW t \in Tasks, pc[t] = "lock", call[t].op \in Creates,
         NEW poll \in Polls, poll.number <= height + 1,
         poll.kind = "block" => poll.filter = NoFilter, CreatePoll(t, poll)
  PROVE  FInv'
<1>1. Leave(t) /\ UNCHANGED << height, poisoned, holder, reported, lost >>
  BY Zenon DEF CreatePoll, chainVars, fateVars
<1>2. Left(t) /\ ~ Busy(t)
  BY <1>1, LeaveFacts, Zenon DEF Busy
<1>3. /\ next_id \in Nat /\ next_id' = next_id + 1 /\ height \in Nat
      /\ DOMAIN polls \subseteq 0 .. (next_id - 1) /\ DOMAIN born = 0 .. (next_id - 1)
  BY BoundsAssumption DEF FInv, TypeOK, CreatePoll, BlockNumbers
<1>4. /\ DOMAIN polls' = DOMAIN polls \cup {next_id} /\ polls'[next_id] = poll
      /\ DOMAIN born' = DOMAIN born \cup {next_id} /\ born'[next_id] = height
      /\ \A i \in DOMAIN polls : polls'[i] = polls[i]
      /\ \A i \in DOMAIN born : born'[i] = born[i]
  BY <1>3 DEF CreatePoll
<1>5. TypeOK'
  <2>1. DOMAIN polls' \subseteq 0 .. (next_id' - 1) /\ DOMAIN born' = 0 .. (next_id' - 1)
    BY <1>3, <1>4
  <2>2. \A i \in DOMAIN polls' : polls'[i] \in Polls /\ polls'[i].number <= height' + 1
    BY <1>1, <1>4, Zenon DEF FInv, TypeOK
  <2>3. \A i \in DOMAIN born' : born'[i] \in 0 .. height'
    BY <1>1, <1>3, <1>4 DEF FInv, TypeOK
  <2>4. next_id' \in 0 .. MaxPolls
    BY <1>3, BoundsAssumption DEF CreatePoll
  <2>5. QED
    BY <1>1, <1>2, <2>1, <2>2, <2>3, <2>4, Zenon DEF FInv, TypeOK, Left
<1>6. PollsInv'
  BY <1>4, Zenon DEF FInv, PollsInv
<1>7. \A i \in DOMAIN polls' : IF i < next_id
                               THEN /\ i \in DOMAIN polls /\ polls'[i] = polls[i]
                                    /\ born'[i] = born[i]
                               ELSE born'[i] = height
  BY <1>3, <1>4
<1>8. next_id <= next_id'
  BY <1>3
<1>9. QED
  BY <1>1, <1>2, <1>5, <1>6, <1>7, <1>8, PollsStep, Zenon DEF Left

LEMMA NewFInv ==
  ASSUME FInv, NEW t \in Tasks,
         NewFilter(t) \/ NewBlockFilter(t) \/ NewPendingTransactionFilter(t)
  PROVE  FInv'
<1>1. /\ height \in 0 .. MaxBlock /\ blk[t] \in 0 .. height
      /\ call[t] \in Calls \cup {NoCall}
  BY Zenon DEF FInv, TypeOK, BlockNumbers
<1>2. CASE NewFilter(t)
  <2>1. call[t].filter \in Filters
    BY <1>1, <1>2, CallFields DEF NewFilter, Locks, NoCall
  <2>2. [kind |-> "logs", number |-> blk[t], filter |-> call[t].filter] \in Polls
    BY <1>1, <2>1, BoundsAssumption DEF Polls
  <2>3. QED
    BY <1>1, <1>2, <2>2, BoundsAssumption, CreateFInv DEF NewFilter, Locks, Creates
<1>3. CASE NewBlockFilter(t)
  <2>1. [kind |-> "block", number |-> blk[t] + 1, filter |-> NoFilter] \in Polls
    BY <1>1, BoundsAssumption DEF Polls
  <2>2. QED
    BY <1>1, <1>3, <2>1, BoundsAssumption, CreateFInv DEF NewBlockFilter, Locks, Creates
<1>4. CASE NewPendingTransactionFilter(t)
  <2>1. [kind |-> "pending", number |-> 0, filter |-> NoFilter] \in Polls
    BY BoundsAssumption DEF Polls
  <2>2. QED
    BY <1>1, <1>4, <2>1, BoundsAssumption, CreateFInv
    DEF NewPendingTransactionFilter, Locks, Creates
<1>5. QED
  BY <1>2, <1>3, <1>4, Zenon

(* A filter goes away. *)
LEMMA DropFacts ==
  ASSUME FInv, NEW i, polls' = [j \in DOMAIN polls \ {i} |-> polls[j]],
         UNCHANGED << height, next_id, born, reported >>
  PROVE  /\ DOMAIN polls' \subseteq DOMAIN polls /\ \A j \in DOMAIN polls' : polls'[j] = polls[j]
         /\ \A j \in DOMAIN polls' : j < next_id
BY BoundsAssumption DEF FInv, TypeOK

LEMMA UninstallFInv ==
  ASSUME FInv, NEW t \in Tasks, UninstallFilter(t)
  PROVE  FInv'
<1>1. pc[t] = "lock" /\ Leave(t)
  BY Zenon DEF UninstallFilter, Locks
<1>2. /\ polls' = [j \in DOMAIN polls \ {call[t].id} |-> polls[j]]
      /\ UNCHANGED << height, poisoned, next_id, born, reported, lost, holder >>
  BY Zenon DEF UninstallFilter, chainVars, fateVars
<1>3. Left(t) /\ ~ Busy(t)
  BY <1>1, <1>2, LeaveFacts, Zenon DEF Busy
<1>4. /\ DOMAIN polls' \subseteq DOMAIN polls /\ \A j \in DOMAIN polls' : polls'[j] = polls[j]
      /\ \A j \in DOMAIN polls' : j < next_id
  BY <1>2, DropFacts, Zenon
<1>5. TypeOK'
  BY <1>2, <1>3, <1>4, Zenon DEF FInv, TypeOK, Left
<1>6. PollsInv'
  BY <1>4, Zenon DEF FInv, PollsInv
<1>7. next_id <= next_id'
  BY <1>2 DEF FInv, TypeOK
<1>8. QED
  BY <1>2, <1>3, <1>4, <1>5, <1>6, <1>7, PollsStep, Zenon DEF Left

LEMMA ExpireFInv ==
  ASSUME FInv, NEW i \in Ids, Expire(i)
  PROVE  FInv'
<1>1. /\ polls' = [j \in DOMAIN polls \ {i} |-> polls[j]]
      /\ UNCHANGED << height, poisoned, next_id, holder, born, call, pc, blk, want, lo, hi,
                      reported, lost >>
  BY Zenon DEF Expire, chainVars, rangeVars, fateVars
<1>2. /\ DOMAIN polls' \subseteq DOMAIN polls /\ \A j \in DOMAIN polls' : polls'[j] = polls[j]
      /\ \A j \in DOMAIN polls' : j < next_id
  BY <1>1, DropFacts, Zenon
<1>3. TypeOK'
  BY <1>1, <1>2, Zenon DEF FInv, TypeOK
<1>4. PollsInv'
  BY <1>1, <1>2, Zenon DEF FInv, PollsInv
<1>5. height \in Nat /\ next_id \in Nat
  BY BoundsAssumption DEF FInv, TypeOK, BlockNumbers
<1>6. \A j : Accounted(j)' = Accounted(j)
  BY <1>1 DEF Accounted, InFlight
<1>7. Kept
  BY <1>1, <1>2, <1>5, <1>6 DEF Kept
<1>8. GapInv'
  BY <1>1, <1>2, <1>5, <1>7, GapKept
<1>9. \A u \in Tasks : Same(u)
  BY <1>1, Zenon DEF Same
<1>10. \A u \in Tasks : CallInv(u)' /\ RangeInv(u)' /\ LimitInv(u)' /\ PriorInv(u)' /\ FailedInv(u)'
  BY <1>1, <1>5, <1>7, <1>9, LocalsKept, OthersKept
<1>11. QED
  BY <1>1, <1>3, <1>4, <1>8, <1>10, Zenon DEF FInv, TasksInv

-----------------------------------------------------------------------------
(* filter_changes moves the cursor to m and takes what lay between: neither *)
(* cursor passes a block that is not accounted for.                         *)
LEMMA TakeRange ==
  ASSUME FInv, NEW t \in Tasks, pc[t] = "lock", Changes(t),
         NEW i \in DOMAIN polls, call[t].id = i,
         NEW m \in 0 .. (blk[t] + 1), polls' = [polls EXCEPT ![i].number = m],
         UNCHANGED << height, next_id, born, reported, lost >>, call'[t] = call[t], blk'[t] = blk[t],
         \A u \in Tasks \ {t} : Same(u),
         pc'[t] \in {"from", "fetch"}, Start(t)' = polls[i].number,
         InFlight(t, i)' = polls[i].number .. blk[t],
         want'[t].limit = polls[i].filter.limit
  PROVE  /\ DOMAIN polls' = DOMAIN polls
         /\ \A j \in DOMAIN polls' : polls'[j] \in Polls /\ polls'[j].number <= height + 1
         /\ PollsInv' /\ Kept /\ GapInv' /\ LimitInv(t)' /\ PriorInv(t)' /\ FailedInv(t)'
<1>1. /\ height \in 0 .. MaxBlock /\ blk[t] \in 0 .. height /\ next_id \in Nat
      /\ \A j \in DOMAIN polls : j \in Nat /\ j < next_id /\ polls[j] \in Polls
                                 /\ polls[j].number <= height + 1 /\ born[j] \in 0 .. height
  BY BoundsAssumption DEF FInv, TypeOK, BlockNumbers
<1>2. /\ DOMAIN polls' = DOMAIN polls /\ polls'[i].number = m
      /\ \A j \in DOMAIN polls : /\ polls'[j].kind = polls[j].kind
                                 /\ polls'[j].filter = polls[j].filter
                                 /\ j # i => polls'[j] = polls[j]
                                 /\ polls'[j] = [kind |-> polls[j].kind, number |-> polls'[j].number,
                                                 filter |-> polls[j].filter]
  BY <1>1, Zenon DEF Polls
<1>3. \A j \in DOMAIN polls' : polls'[j] \in Polls /\ polls'[j].number <= height + 1
  <2> SUFFICES ASSUME NEW j \in DOMAIN polls'
               PROVE  polls'[j] \in Polls /\ polls'[j].number <= height + 1
    BY Zenon
  <2>1. CASE j # i
    BY <1>1, <1>2, <2>1, Zenon
  <2>2. CASE j = i
    <3>1. m \in 0 .. (MaxBlock + 1) /\ m <= height + 1
      BY <1>1, BoundsAssumption
    <3>2. /\ polls[i].kind \in {"logs", "block", "pending"}
          /\ polls[i].filter \in Filters \cup {NoFilter}
      BY <1>1, Zenon DEF Polls
    <3>3. [kind |-> polls[i].kind, number |-> m, filter |-> polls[i].filter] \in Polls
      BY <3>1, <3>2, Zenon DEF Polls
    <3>4. QED
      BY <1>2, <2>2, <3>1, <3>3
  <2>3. QED
    BY <2>1, <2>2, Zenon
<1>4. PollsInv'
  BY <1>2 DEF FInv, PollsInv
<1>5. \A j : Accounted(j) \subseteq Accounted(j)'
  <2> TAKE j
  <2>1. \A u \in Tasks \ {t} : InFlight(u, j)' = InFlight(u, j)
    BY InFlightKept, Zenon
  <2>2. InFlight(t, j) = {}
    BY Zenon DEF InFlight
  <2>3. QED
    BY <2>1, <2>2, AccountedGrows, Zenon
<1>6. Kept
  BY <1>1, <1>2, <1>5 DEF Kept
<1>7. polls[i].number .. blk[t] \subseteq Accounted(i)'
  BY Zenon DEF Accounted
<1>8. Complete(i) => \A n \in (born[i] + 1) .. height : n < polls[i].number => n \in Accounted(i)
  BY Zenon DEF FInv, GapInv
<1>9. polls[i].number \in Nat
  BY <1>1, BoundsAssumption DEF Polls
<1>10. ASSUME Complete(i)', NEW n \in (born[i] + 1) .. height, n < polls[i].number \/ n < m
       PROVE  n \in Accounted(i)'
  <2>1. Complete(i)
    BY <1>2, <1>10, Zenon DEF Complete
  <2>2. CASE n < polls[i].number
    BY <1>5, <1>8, <2>1, <2>2, Zenon
  <2>3. CASE n >= polls[i].number /\ n < m
    BY <1>1, <1>7, <1>9, <2>3
  <2>4. QED
    BY <1>1, <1>9, <1>10, <2>2, <2>3
<1>11. GapInv'
  <2> SUFFICES ASSUME NEW j \in DOMAIN polls', Complete(j)',
                      NEW n \in (born'[j] + 1) .. height', n < polls'[j].number
               PROVE  n \in Accounted(j)'
    BY Zenon DEF GapInv
  <2>1. CASE j = i
    BY <1>2, <1>10, <2>1, Zenon
  <2>2. CASE j # i
    BY <1>2, <1>5, <2>2, Zenon DEF FInv, GapInv, Complete
  <2>3. QED
    BY <2>1, <2>2, Zenon
<1>12. LimitInv(t)'
  BY <1>1, <1>2, Zenon DEF LimitInv
<1>13. PriorInv(t)'
  <2> SUFFICES ASSUME Complete(i)', NEW n \in (born[i] + 1) .. blk[t], n < polls[i].number
               PROVE  n \in Accounted(i)'
    BY Zenon DEF PriorInv
  <2>1. n \in (born[i] + 1) .. height
    BY <1>1
  <2>2. QED
    BY <1>10, <2>1, Zenon
<1>14. FailedInv(t)'
  BY Zenon DEF FailedInv, Failed
<1>15. QED
  BY <1>2, <1>3, <1>4, <1>6, <1>11, <1>12, <1>13, <1>14, Zenon

LEMMA BlockChangesFInv ==
  ASSUME FInv, NEW t \in Tasks, BlockChanges(t)
  PROVE  FInv'
<1> PICK i : i = call[t].id
  BY Zenon
<1>1. /\ pc[t] = "lock" /\ Changes(t) /\ i \in DOMAIN polls /\ polls[i].kind = "block"
      /\ lo' = [lo EXCEPT ![t] = Some(polls[i].number)] /\ hi' = [hi EXCEPT ![t] = Some(blk[t])]
      /\ polls' = [polls EXCEPT ![i].number = blk[t]] /\ pc' = [pc EXCEPT ![t] = "fetch"]
      /\ UNCHANGED << height, poisoned, next_id, holder, born, call, blk, want, reported, lost >>
  BY Zenon DEF BlockChanges, Locks, Changes, Poll, Goto, chainVars, fateVars
<1>2. TypeOK /\ TasksInv /\ CallInv(t) /\ PollsInv
  BY Zenon DEF FInv, TasksInv
<1>3. /\ height \in 0 .. MaxBlock /\ blk[t] \in 0 .. height
      /\ polls[i] \in Polls /\ polls[i].number \in 0 .. (MaxBlock + 1)
  BY <1>1, <1>2, Zenon DEF TypeOK, BlockNumbers, Polls
<1>4. \A u \in Tasks \ {t} : Same(u)
  BY <1>1, <1>2, Zenon DEF Same, TypeOK
<1>5. /\ pc'[t] = "fetch" /\ call'[t] = call[t] /\ want'[t] = NoFilter
      /\ lo'[t] = Some(polls[i].number) /\ hi'[t] = Some(blk[t])
      /\ lo'[t][1] = polls[i].number /\ hi'[t][1] = blk[t]
      /\ lo'[t] # None /\ hi'[t] # None
  BY <1>1, <1>2, OptionFacts, Zenon DEF TypeOK, CallInv
<1>6. blk[t] \in 0 .. (blk[t] + 1) /\ Start(t)' = polls[i].number
      /\ InFlight(t, i)' = polls[i].number .. blk[t]
  BY <1>1, <1>3, <1>5 DEF Start, InFlight, Changes
<1>7. want'[t].limit = polls[i].filter.limit
  BY <1>1, <1>2, <1>5, Zenon DEF PollsInv
<1>8. /\ DOMAIN polls' = DOMAIN polls
      /\ \A j \in DOMAIN polls' : polls'[j] \in Polls /\ polls'[j].number <= height + 1
      /\ PollsInv' /\ Kept /\ GapInv' /\ LimitInv(t)' /\ PriorInv(t)' /\ FailedInv(t)'
  BY <1>1, <1>4, <1>5, <1>6, <1>7, TakeRange, Zenon
<1>9. TypeOK'
  <2>1. /\ lo' \in [Tasks -> Options(0 .. (MaxBlock + 1))]
        /\ hi' \in [Tasks -> Options(BlockNumbers)]
        /\ pc' \in [Tasks -> Labels]
    <3>1. Some(polls[i].number) \in Options(0 .. (MaxBlock + 1))
      BY <1>3, OptionFacts, Zenon
    <3>2. Some(blk[t]) \in Options(BlockNumbers)
      BY <1>3, OptionFacts, BoundsAssumption DEF BlockNumbers
    <3>3. QED
      BY <1>1, <1>2, <3>1, <3>2, Zenon DEF TypeOK, Labels
  <2>2. holder' = None \/ \E u \in Tasks : holder' = Some(u) /\ pc'[u] \in {"from", "to"}
    BY <1>1, <1>2, Zenon DEF TypeOK
  <2>3. QED
    BY <1>1, <1>2, <1>8, <2>1, <2>2, Zenon DEF TypeOK
<1>10. CallInv(t)' /\ RangeInv(t)'
  BY <1>1, <1>2, <1>3, <1>5 DEF CallInv, RangeInv, Changes
<1>11. height \in Nat /\ want' \in [Tasks -> FilterType]
  BY <1>1, <1>2, <1>3 DEF TasksInv
<1>12. QED
  BY <1>1, <1>4, <1>8, <1>9, <1>10, <1>11, StepKeeps

LEMMA LogsChangesFInv ==
  ASSUME FInv, NEW t \in Tasks, LogsChanges(t)
  PROVE  FInv'
<1> PICK i : i = call[t].id
  BY Zenon
<1> DEFINE f == [polls[i].filter EXCEPT !.from = Some(polls[i].number), !.to = None]
<1>1. /\ pc[t] = "lock" /\ Changes(t) /\ i \in DOMAIN polls /\ holder' = Some(t)
      /\ want' = [want EXCEPT ![t] = f]
      /\ polls' = [polls EXCEPT ![i].number = blk[t] + 1] /\ pc' = [pc EXCEPT ![t] = "from"]
      /\ UNCHANGED << height, poisoned, next_id, born, call, blk, lo, hi, reported, lost >>
  BY Zenon DEF LogsChanges, Locks, Changes, Poll, Goto, chainVars, fateVars
<1>2. TypeOK /\ TasksInv /\ CallInv(t)
  BY Zenon DEF FInv, TasksInv
<1>3. /\ height \in 0 .. MaxBlock /\ blk[t] \in 0 .. height
      /\ polls[i] \in Polls /\ polls[i].number \in 0 .. (MaxBlock + 1)
      /\ polls[i].filter \in Filters \cup {NoFilter}
  BY <1>1, <1>2, Zenon DEF TypeOK, BlockNumbers, Polls
<1>4. /\ f \in FilterType /\ f.from = Some(polls[i].number) /\ f.to = None
      /\ f.limit = polls[i].filter.limit
  <2>1. polls[i].filter \in FilterType
    BY <1>3, FilterFields, Zenon
  <2>2. None \in Options(Nat) /\ Some(polls[i].number) \in Options(Nat)
    BY <1>3, BoundsAssumption, OptionFacts
  <2>3. QED
    BY <2>1, <2>2, Zenon DEF FilterType
<1> HIDE DEF f
<1>5. \A u \in Tasks \ {t} : Same(u)
  BY <1>1, <1>2, Zenon DEF Same, TypeOK, TasksInv
<1>6. /\ pc'[t] = "from" /\ call'[t] = call[t] /\ want'[t] = f /\ lo'[t] = None
      /\ want'[t].from[1] = polls[i].number /\ want' \in [Tasks -> FilterType]
  BY <1>1, <1>2, <1>4, OptionFacts DEF TypeOK, TasksInv, CallInv
<1>7. blk[t] + 1 \in 0 .. (blk[t] + 1) /\ Start(t)' = polls[i].number
      /\ InFlight(t, i)' = polls[i].number .. blk[t]
  BY <1>1, <1>3, <1>6 DEF Start, InFlight, Changes
<1>8. want'[t].limit = polls[i].filter.limit
  BY <1>4, <1>6, Zenon
<1>9. /\ DOMAIN polls' = DOMAIN polls
      /\ \A j \in DOMAIN polls' : polls'[j] \in Polls /\ polls'[j].number <= height + 1
      /\ PollsInv' /\ Kept /\ GapInv' /\ LimitInv(t)' /\ PriorInv(t)' /\ FailedInv(t)'
  BY <1>1, <1>5, <1>6, <1>7, <1>8, TakeRange, Zenon
<1>10. TypeOK'
  <2>1. pc' \in [Tasks -> Labels]
    BY <1>1, <1>2, Zenon DEF TypeOK, Labels
  <2>2. holder' = Some(t) /\ pc'[t] \in {"from", "to"}
    BY <1>1, <1>6, Zenon
  <2>3. QED
    BY <1>1, <1>2, <1>9, <2>1, <2>2, Zenon DEF TypeOK
<1>11. CallInv(t)' /\ RangeInv(t)'
  BY <1>1, <1>2, <1>3, <1>4, <1>6, Zenon DEF CallInv, RangeInv, Changes
<1>12. height \in Nat
  BY <1>3
<1>13. QED
  BY <1>1, <1>5, <1>6, <1>9, <1>10, <1>11, <1>12, StepKeeps

LEMMA FilterLogsFInv ==
  ASSUME FInv, NEW t \in Tasks, FilterLogs(t)
  PROVE  FInv'
<1> PICK i : i = call[t].id
  BY Zenon
<1>1. /\ pc[t] = "lock" /\ call[t].op = "filter_logs" /\ i \in DOMAIN polls
      /\ want' = [want EXCEPT ![t] = polls[i].filter] /\ pc' = [pc EXCEPT ![t] = "from"]
      /\ UNCHANGED << height, poisoned, polls, next_id, holder, born, call, blk, lo, hi,
                      reported, lost >>
  BY Zenon DEF FilterLogs, Locks, Poll, Goto, chainVars, pollVars, fateVars
<1>2. TypeOK /\ TasksInv /\ CallInv(t)
  BY Zenon DEF FInv, TasksInv
<1>3. polls[i].filter \in FilterType
  BY <1>1, <1>2, FilterFields, Zenon DEF TypeOK, Polls
<1>4. \A u \in Tasks \ {t} : Same(u)
  BY <1>1, <1>2, Zenon DEF Same, TypeOK, TasksInv
<1>5. /\ pc'[t] = "from" /\ call'[t] = call[t] /\ lo'[t] = None
      /\ want' \in [Tasks -> FilterType]
  BY <1>1, <1>2, <1>3, Zenon DEF TypeOK, TasksInv, CallInv
<1>6. TypeOK'
  <2>1. pc' \in [Tasks -> Labels]
    BY <1>1, <1>2, Zenon DEF TypeOK, Labels
  <2>2. holder' = None \/ \E u \in Tasks : holder' = Some(u) /\ pc'[u] \in {"from", "to"}
    BY <1>1, <1>2, Zenon DEF TypeOK
  <2>3. QED
    BY <1>1, <1>2, <2>1, <2>2, Zenon DEF TypeOK
<1>7. CallInv(t)' /\ RangeInv(t)' /\ ~ Busy(t) /\ ~ Busy(t)' /\ ~ Failed(t)'
  BY <1>1, <1>2, <1>5, Zenon DEF CallInv, RangeInv, Changes, Busy, Failed
<1>8. QED
  BY <1>1, <1>4, <1>5, <1>6, <1>7, QuietStep, Zenon

-----------------------------------------------------------------------------
LEMMA HeightFacts ==
  ASSUME FInv, NEW t \in Tasks
  PROVE  /\ height \in Nat /\ height \in BlockNumbers /\ height <= height
         /\ blk[t] \in 0 .. height
BY BoundsAssumption DEF FInv, TypeOK, BlockNumbers

LEMMA ResolveFacts ==
  ASSUME TypeOK, NEW id \in Options(Nat)
  PROVE  /\ Resolve(id) \in Options(BlockNumbers)
         /\ Resolve(id) \in Options(0 .. (MaxBlock + 1))
         /\ Resolve(id) # None => Resolve(id)[1] <= height
         /\ id = None => Resolve(id) = Some(height) /\ Resolve(id) # None
         /\ id # None => Resolve(id) = id \/ (Resolve(id) = None /\ height < id[1])
<1>1. height \in BlockNumbers /\ height \in 0 .. (MaxBlock + 1) /\ height \in Nat
  BY BoundsAssumption DEF TypeOK, BlockNumbers
<1>2. CASE id = None
  <2>1. Resolve(id) = Some(height)
    BY <1>2, Zenon DEF Resolve
  <2>2. Some(height)[1] = height /\ Some(height) # None
    BY OptionFacts, Zenon
  <2>3. Some(height) \in Options(BlockNumbers) /\ Some(height) \in Options(0 .. (MaxBlock + 1))
    BY <1>1, OptionFacts, Zenon
  <2>4. QED
    BY <1>1, <1>2, <2>1, <2>2, <2>3
<1>3. CASE id # None
  <2>1. PICK n \in Nat : id = Some(n) /\ id[1] = n
    BY <1>3, OptionFacts
  <2>2. CASE n <= height
    <3>1. n \in BlockNumbers /\ n \in 0 .. (MaxBlock + 1)
      BY <1>1, <2>2, BoundsAssumption DEF BlockNumbers
    <3>2. QED
      BY <1>3, <2>1, <2>2, <3>1, OptionFacts, Zenon DEF Resolve
  <2>3. CASE ~ (n <= height)
    BY <1>1, <1>3, <2>1, <2>3, OptionFacts DEF Resolve
  <2>4. QED
    BY <2>2, <2>3, Zenon
<1>4. QED
  BY <1>2, <1>3, Zenon

LEMMA ResolveFromFInv ==
  ASSUME FInv, NEW t \in Tasks, ResolveFrom(t)
  PROVE  FInv'
<1>1. /\ pc[t] = "from" /\ lo' = [lo EXCEPT ![t] = Resolve(want[t].from)]
      /\ pc' = [pc EXCEPT ![t] = "to"]
      /\ UNCHANGED << height, poisoned, polls, next_id, holder, born, call, blk, want, hi,
                      reported, lost >>
  BY Zenon DEF ResolveFrom, Goto, chainVars, pollVars, fateVars
<1>2. TypeOK /\ TasksInv /\ CallInv(t) /\ RangeInv(t) /\ LimitInv(t) /\ PriorInv(t) /\ PollsInv
  BY Zenon DEF FInv, TasksInv
<1>3. \A u \in Tasks \ {t} : Same(u)
  BY <1>1, <1>2, Zenon DEF Same, TypeOK
<1>4. /\ pc'[t] = "to" /\ call'[t] = call[t] /\ want'[t] = want[t] /\ blk'[t] = blk[t]
      /\ lo'[t] = Resolve(want[t].from) /\ want[t].from \in Options(Nat)
      /\ want' \in [Tasks -> FilterType]
      /\ height \in Nat /\ blk[t] \in 0 .. height
  BY <1>1, <1>2, BoundsAssumption DEF TypeOK, TasksInv, FilterType, BlockNumbers
<1>5. TypeOK'
  <2>1. pc' \in [Tasks -> Labels] /\ lo' \in [Tasks -> Options(0 .. (MaxBlock + 1))]
    BY <1>1, <1>2, <1>4, ResolveFacts, Zenon DEF TypeOK, Labels
  <2>2. holder' = None \/ \E u \in Tasks : holder' = Some(u) /\ pc'[u] \in {"from", "to"}
    BY <1>1, <1>2, Zenon DEF TypeOK
  <2>3. QED
    BY <1>1, <1>2, <2>1, <2>2, Zenon DEF TypeOK
<1>6. CallInv(t)'
  BY <1>1, <1>2, <1>4, Zenon DEF CallInv
<1>7. RangeInv(t)'
  <2>1. Changes(t) => want[t].to = None /\ \E n \in 0 .. (MaxBlock + 1) : want[t].from = Some(n)
    BY <1>1, <1>2, Zenon DEF RangeInv
  <2>2. Changes(t) => lo'[t] = want[t].from \/ (lo'[t] = None /\ blk[t] < want[t].from[1])
    <3> SUFFICES ASSUME Changes(t), lo'[t] # want[t].from
                 PROVE  lo'[t] = None /\ blk[t] < want[t].from[1]
      BY Zenon
    <3>1. PICK n \in 0 .. (MaxBlock + 1) :
            want[t].from = Some(n) /\ want[t].from[1] = n /\ want[t].from # None
      BY <2>1, OptionFacts, Zenon
    <3>2. lo'[t] = None /\ height < n
      BY <1>2, <1>4, <3>1, ResolveFacts, Zenon
    <3>3. QED
      BY <1>4, <3>1, <3>2, BoundsAssumption
  <2>3. QED
    BY <1>4, <2>1, <2>2, Zenon DEF RangeInv, Changes
<1>8. ~ Failed(t)' /\ (Busy(t)' <=> Busy(t)) /\ Start(t)' = Start(t)
  BY <1>1, <1>4, Zenon DEF Failed, Busy, Changes, Start
<1>9. PollsInv'
  BY <1>1, <1>2, Zenon DEF PollsInv
<1>10. \A i : InFlight(t, i)' = InFlight(t, i)
  BY <1>1, <1>4, Zenon DEF InFlight
<1>11. Kept /\ GapInv'
  BY <1>1, <1>3, <1>10, LocalStep, Zenon
<1>12. LimitInv(t)' /\ FailedInv(t)'
  BY <1>1, <1>2, <1>4, <1>8, Zenon DEF LimitInv, FailedInv
<1>13. PriorInv(t)'
  <2> PICK i : i = call[t].id
    BY Zenon
  <2>1. Complete(i)' = Complete(i) /\ call'[t].id = i
    BY <1>1, <1>4, Zenon DEF Complete
  <2>2. \A u \in Tasks : InFlight(u, i)' = InFlight(u, i)
    BY <1>3, <1>10, InFlightKept, Zenon
  <2>3. Accounted(i)' = Accounted(i)
    BY <1>1, <2>2, Zenon DEF Accounted
  <2>4. QED
    BY <1>1, <1>2, <1>4, <1>8, <2>1, <2>3, Zenon DEF PriorInv
<1>14. QED
  BY <1>1, <1>3, <1>4, <1>5, <1>6, <1>7, <1>9, <1>11, <1>12, <1>13, StepKeeps

LEMMA ResolveToFInv ==
  ASSUME FInv, NEW t \in Tasks, ResolveTo(t)
  PROVE  FInv'
<1> PICK h : h = Resolve(want[t].to)
  BY Zenon
<1>1. /\ pc[t] = "to" /\ holder' = IF holder = Some(t) THEN None ELSE holder
      /\ UNCHANGED << height, poisoned, polls, next_id, born, call, blk, reported, lost >>
      /\ IF lo[t] = None \/ h = None
         THEN pc' = [pc EXCEPT ![t] = "failed"] /\ Clear(t)
         ELSE /\ pc' = [pc EXCEPT ![t] = "fetch"] /\ hi' = [hi EXCEPT ![t] = h]
              /\ UNCHANGED << want, lo >>
  BY Zenon DEF ResolveTo, Goto, Fail, chainVars, fateVars
<1>2. TypeOK /\ TasksInv /\ CallInv(t) /\ RangeInv(t) /\ LimitInv(t) /\ PriorInv(t) /\ PollsInv
  BY Zenon DEF FInv, TasksInv
<1>3. \A u \in Tasks \ {t} : Same(u)
  <2>1. CASE lo[t] = None \/ h = None
    BY <1>1, <1>2, <2>1, Zenon DEF Same, TypeOK, TasksInv, Clear
  <2>2. CASE ~ (lo[t] = None \/ h = None)
    BY <1>1, <1>2, <2>2, Zenon DEF Same, TypeOK, TasksInv
  <2>3. QED
    BY <2>1, <2>2, Zenon
<1>4. /\ call'[t] = call[t] /\ blk'[t] = blk[t] /\ want[t].to \in Options(Nat)
      /\ want' \in [Tasks -> FilterType]
      /\ height \in Nat /\ blk[t] \in 0 .. height
      /\ pc'[t] = IF lo[t] = None \/ h = None THEN "failed" ELSE "fetch"
      /\ pc'[t] = "fetch" => want'[t] = want[t] /\ lo'[t] = lo[t] /\ hi'[t] = h
      /\ pc' \in [Tasks -> Labels] /\ height' \in Nat /\ height <= height'
  <2>1. /\ call'[t] = call[t] /\ blk'[t] = blk[t]
    BY <1>1, Zenon
  <2>2. want[t] \in FilterType /\ NoFilter \in FilterType
    BY <1>2, FilterFields, Zenon DEF TasksInv
  <2>3. want' \in [Tasks -> FilterType]
    BY <1>1, <1>2, <2>2, Zenon DEF TasksInv, Clear
  <2>4. height \in Nat /\ blk[t] \in 0 .. height /\ height' \in Nat /\ height <= height'
    BY <1>1, HeightFacts, Zenon
  <2>5. want[t].to \in Options(Nat)
    BY <2>2, Zenon DEF FilterType
  <2>6. /\ pc'[t] = IF lo[t] = None \/ h = None THEN "failed" ELSE "fetch"
        /\ pc' \in [Tasks -> Labels]
    BY <1>1, <1>2, Zenon DEF TypeOK, Labels
  <2>7. pc'[t] = "fetch" => want'[t] = want[t] /\ lo'[t] = lo[t] /\ hi'[t] = h
    BY <1>1, <1>2, <2>6, Zenon DEF TypeOK
  <2>8. QED
    BY <2>1, <2>3, <2>4, <2>5, <2>6, <2>7, Zenon
<1>5. h \in Options(BlockNumbers) /\ (h # None => h[1] <= height)
      /\ (want[t].to = None => h = Some(height) /\ h # None)
  BY <1>2, <1>4, ResolveFacts, Zenon
<1>6. TypeOK'
  <2>1. /\ hi' \in [Tasks -> Options(BlockNumbers)]
        /\ lo' \in [Tasks -> Options(0 .. (MaxBlock + 1))]
    <3>1. None \in Options(BlockNumbers) /\ None \in Options(0 .. (MaxBlock + 1))
      BY OptionFacts, Zenon
    <3>2. QED
      BY <1>1, <1>2, <1>5, <3>1, Zenon DEF TypeOK, Clear
  <2>2. holder' = None \/ \E u \in Tasks : holder' = Some(u) /\ pc'[u] \in {"from", "to"}
    <3>1. CASE holder = Some(t)
      BY <1>1, <3>1, Zenon
    <3>2. CASE holder # Some(t)
      BY <1>1, <1>2, <1>3, <3>2, Zenon DEF TypeOK, Same
    <3>3. QED
      BY <3>1, <3>2, Zenon
  <2>3. QED
    BY <1>1, <1>2, <1>4, <2>1, <2>2, Zenon DEF TypeOK
<1>7. CallInv(t)' /\ RangeInv(t)'
  BY <1>1, <1>2, <1>4, <1>5, Zenon DEF CallInv, RangeInv
<1>8. PollsInv'
  BY <1>1, <1>2, Zenon DEF PollsInv
<1>9. CASE ~ Changes(t)
  <2>1. ~ Busy(t) /\ ~ Busy(t)' /\ ~ Failed(t)'
    BY <1>4, <1>9, Zenon DEF Busy, Failed, Changes
  <2>2. QED
    BY <1>1, <1>3, <1>4, <1>6, <1>7, <2>1, QuietStep, Zenon
<1>10. CASE Changes(t)
  <2> PICK i : i = call[t].id
    BY Zenon
  <2>1. PICK n \in 0 .. (MaxBlock + 1) :
          /\ want[t].from = Some(n) /\ want[t].from[1] = n /\ want[t].from # None
          /\ want[t].to = None
    BY <1>1, <1>2, <1>10, OptionFacts, Zenon DEF RangeInv
  <2>2. h # None /\ h[1] = height /\ (lo[t] # None => lo[t][1] = n) /\ (lo[t] = None => blk[t] < n)
    BY <1>1, <1>2, <1>5, <1>10, <2>1, OptionFacts, Zenon DEF RangeInv
  <2>3. InFlight(t, i) = n .. blk[t] /\ \A j : j # i => InFlight(t, j) = {}
    BY <1>1, <1>10, <2>1, Zenon DEF InFlight, Changes
  <2>4. \A j : InFlight(t, j) \subseteq InFlight(t, j)'
    <3> TAKE j
    <3>1. CASE j # i
      BY <2>3, <3>1, Zenon
    <3>2. CASE j = i /\ lo[t] = None
      <4>1. n .. blk[t] = {}
        BY <1>4, <2>2, <3>2, BoundsAssumption
      <4>2. QED
        BY <2>3, <3>2, <4>1, Zenon
    <3>3. CASE j = i /\ lo[t] # None
      <4>1. InFlight(t, i)' = n .. height
        BY <1>4, <1>10, <2>2, <3>3, Zenon DEF InFlight, Changes
      <4>2. n .. blk[t] \subseteq n .. height
        BY <1>4, BoundsAssumption
      <4>3. QED
        BY <2>3, <3>3, <4>1, <4>2, Zenon
    <3>4. QED
      BY <3>1, <3>2, <3>3, Zenon
  <2>5. \A j \in DOMAIN polls : Complete(j) =>
          /\ reported[j] \subseteq reported'[j] /\ lost[j] \subseteq lost'[j]
          /\ InFlight(t, j) \subseteq InFlight(t, j)' \cup reported'[j] \cup lost'[j]
    BY <1>1, <2>4, Zenon
  <2>6. Kept /\ GapInv'
    BY <1>1, <1>3, <2>5, LocalStep, Zenon
  <2>7. Busy(t) /\ Start(t) = n /\ i < next_id
        /\ (i \in DOMAIN polls => want[t].limit = polls[i].filter.limit)
    BY <1>1, <1>2, <1>10, <2>1, Zenon DEF Busy, Start, LimitInv
  <2>8. LimitInv(t)'
    BY <1>1, <1>4, <2>7, Zenon DEF LimitInv, Busy
  <2>9. ASSUME Complete(i)', NEW k \in (born[i] + 1) .. blk[t], k < n
        PROVE  k \in Accounted(i)'
    <3>1. Complete(i) /\ i \in DOMAIN polls'
      BY <1>1, <2>9, Zenon DEF Complete
    <3>2. Accounted(i) \subseteq Accounted(i)'
      BY <2>6, <2>7, <3>1, Zenon DEF Kept
    <3>3. k \in Accounted(i)
      BY <1>2, <2>7, <2>9, <3>1, Zenon DEF PriorInv
    <3>4. QED
      BY <3>2, <3>3, Zenon
  <2>10. PriorInv(t)'
    <3>1. Busy(t)' => Start(t)' = n
      BY <1>4, <2>2, Zenon DEF Busy, Start
    <3>2. QED
      BY <1>1, <1>4, <2>9, <3>1, Zenon DEF PriorInv
  <2>11. FailedInv(t)'
    <3>1. ASSUME Failed(t)', Complete(i)', NEW k \in (born[i] + 1) .. blk[t]
          PROVE  k \in Accounted(i)'
      <4>1. lo[t] = None
        BY <1>4, <2>2, <3>1, Zenon DEF Failed
      <4>2. i \in DOMAIN born
        BY <1>1, <1>2, <3>1, Zenon DEF TypeOK, Complete
      <4>3. born[i] \in Nat
        BY <1>2, <1>4, <4>2 DEF TypeOK
      <4>4. k < n
        BY <1>4, <2>2, <4>1, <4>3, BoundsAssumption
      <4>5. QED
        BY <2>9, <3>1, <4>4, Zenon
    <3>2. QED
      BY <1>1, <1>4, <2>7, <3>1, Zenon DEF FailedInv
  <2>12. QED
    BY <1>3, <1>4, <1>6, <1>7, <1>8, <2>6, <2>8, <2>10, <2>11, StepKeeps, Zenon
<1>11. QED
  BY <1>9, <1>10, Zenon

(* The blocks a poll has taken exist. *)
LEMMA RangeFacts ==
  ASSUME FInv, NEW t \in Tasks, NEW i
  PROVE  /\ InFlight(t, i) \subseteq BlockNumbers
         /\ pc[t] = "fetch" => /\ lo[t][1] .. hi[t][1] \subseteq BlockNumbers
                               /\ ~ \E n \in lo[t][1] .. hi[t][1] : n > height
<1>1. TypeOK /\ RangeInv(t)
  BY Zenon DEF FInv, TasksInv
<1>2. height \in Nat /\ height \in BlockNumbers /\ blk[t] \in 0 .. height
  BY HeightFacts, Zenon
<1>3. CASE pc[t] = "fetch"
  <2>1. lo[t] # None /\ hi[t] # None /\ hi[t][1] <= height
    BY <1>1, <1>3, Zenon DEF RangeInv
  <2>2. lo[t] \in Options(0 .. (MaxBlock + 1)) /\ hi[t] \in Options(BlockNumbers)
    BY <1>1, Zenon DEF TypeOK
  <2>3. lo[t][1] \in 0 .. (MaxBlock + 1) /\ hi[t][1] \in BlockNumbers
    BY <2>1, <2>2, SomeOf, Zenon
  <2>4. PICK m, k : m = lo[t][1] /\ k = hi[t][1]
    BY Zenon
  <2>5. m .. k \subseteq BlockNumbers /\ ~ \E n \in m .. k : n > height
    BY <1>2, <2>1, <2>3, <2>4, BoundsAssumption DEF BlockNumbers
  <2>6. QED
    BY <1>3, <2>4, <2>5, Zenon DEF InFlight
<1>4. CASE pc[t] \in {"from", "to"} /\ Changes(t)
  <2>1. PICK n \in 0 .. (MaxBlock + 1) : want[t].from[1] = n
    BY <1>1, <1>4, OptionFacts, Zenon DEF RangeInv
  <2>2. n .. blk[t] \subseteq BlockNumbers
    BY <1>2, BoundsAssumption DEF BlockNumbers
  <2>3. QED
    BY <1>4, <2>1, <2>2, Zenon DEF InFlight
<1>5. CASE pc[t] \notin {"from", "to", "fetch"} \/ (pc[t] # "fetch" /\ ~ Changes(t))
  BY <1>5, Zenon DEF InFlight, Changes
<1>6. QED
  BY <1>3, <1>4, <1>5, Zenon

(* A task leaves, and what it held has been handed over or lost. *)
LEMMA LeaveFInv ==
  ASSUME FInv, NEW t \in Tasks, Left(t),
         UNCHANGED << height, poisoned, polls, next_id, born >>,
         reported' \in [Ids -> SUBSET BlockNumbers], lost' \in [Ids -> SUBSET BlockNumbers],
         \A i \in Ids : i \in DOMAIN polls /\ Complete(i) =>
           /\ reported[i] \subseteq reported'[i] /\ lost[i] \subseteq lost'[i]
           /\ InFlight(t, i) \subseteq reported'[i] \cup lost'[i]
  PROVE  FInv'
<1>1. DOMAIN polls \subseteq Ids
  BY BoundsAssumption DEF FInv, TypeOK, Ids
<1>2. Kept /\ GapInv'
  <2>1. \A i \in DOMAIN polls : Complete(i) =>
          /\ reported[i] \subseteq reported'[i] /\ lost[i] \subseteq lost'[i]
          /\ InFlight(t, i) \subseteq InFlight(t, i)' \cup reported'[i] \cup lost'[i]
    BY <1>1, Zenon
  <2>2. QED
    BY <2>1, LocalStep, Zenon DEF Left
<1>3. TypeOK'
  BY Zenon DEF FInv, TypeOK, Left
<1>4. PollsInv'
  BY Zenon DEF FInv, PollsInv
<1>5. LimitInv(t)' /\ PriorInv(t)' /\ FailedInv(t)'
  BY Zenon DEF LimitInv, PriorInv, FailedInv, Left
<1>6. height' \in Nat /\ height <= height'
  BY HeightFacts, Zenon
<1>7. QED
  BY <1>2, <1>3, <1>4, <1>5, <1>6, StepKeeps, Zenon DEF Left

LEMMA FetchFInv ==
  ASSUME FInv, NEW t \in Tasks, Fetch(t)
  PROVE  FInv'
<1> PICK i, found : i = call[t].id /\ found = LimitLogs(lo[t][1], hi[t][1], want[t].limit)
  BY Zenon
<1> PICK blocks : blocks = lo[t][1] .. hi[t][1]
  BY Zenon
<1>1. TypeOK /\ LimitInv(t) /\ pc[t] = "fetch"
  BY Zenon DEF FInv, Fetch
<1>2. blocks \subseteq BlockNumbers /\ ~ \E n \in blocks : n > height
  BY <1>1, RangeFacts, Zenon
<1>3. /\ Leave(t) /\ UNCHANGED << height, poisoned, polls, next_id, holder, born, lost >>
      /\ reported' = IF Changes(t) THEN [reported EXCEPT ![i] = @ \cup found] ELSE reported
  BY <1>2, Zenon DEF Fetch, Changes, chainVars, pollVars
<1>4. found \subseteq blocks /\ (want[t].limit = None => found = blocks)
  BY Zenon DEF LimitLogs
<1>5. Left(t)
  BY <1>1, <1>3, LeaveFacts, Zenon
<1>6. Changes(t) => i \in Ids
  BY <1>1, CallFields DEF TypeOK, Changes, NoCall
<1>7. /\ reported' \in [Ids -> SUBSET BlockNumbers] /\ lost' \in [Ids -> SUBSET BlockNumbers]
      /\ \A j \in Ids : reported[j] \subseteq reported'[j] /\ lost[j] \subseteq lost'[j]
  BY <1>1, <1>2, <1>3, <1>4, <1>6, Zenon DEF TypeOK
<1>8. ASSUME NEW j \in Ids, j \in DOMAIN polls, Complete(j)
      PROVE  InFlight(t, j) \subseteq reported'[j]
  <2>1. CASE Changes(t) /\ j = i
    <3>1. InFlight(t, j) = blocks
      BY <1>1, <2>1, Zenon DEF InFlight, Changes
    <3>2. want[t].limit = None
      BY <1>1, <1>8, <2>1, Zenon DEF LimitInv, Busy, Complete
    <3>3. reported'[j] = reported[j] \cup found
      BY <1>1, <1>3, <2>1, Zenon DEF TypeOK
    <3>4. QED
      BY <1>4, <3>1, <3>2, <3>3, Zenon
  <2>2. CASE ~ (Changes(t) /\ j = i)
    BY <2>2, Zenon DEF InFlight, Changes
  <2>3. QED
    BY <2>1, <2>2, Zenon
<1>9. QED
  BY <1>3, <1>5, <1>7, <1>8, LeaveFInv, Zenon

LEMMA ReadPanicsFInv ==
  ASSUME FInv, NEW t \in Tasks, ReadPanics(t)
  PROVE  FInv'
<1>1. /\ Leave(t) /\ holder' = IF holder = Some(t) THEN None ELSE holder
      /\ lost' = [i \in Ids |-> lost[i] \cup InFlight(t, i)]
      /\ UNCHANGED << height, poisoned, polls, next_id, born, reported >>
  BY Zenon DEF ReadPanics, chainVars
<1>2. Left(t)
  BY <1>1, LeaveFacts, Zenon
<1>3. TypeOK /\ \A i \in Ids : InFlight(t, i) \subseteq BlockNumbers
  BY RangeFacts, Zenon DEF FInv
<1>4. /\ reported' \in [Ids -> SUBSET BlockNumbers] /\ lost' \in [Ids -> SUBSET BlockNumbers]
      /\ \A i \in Ids : /\ reported[i] \subseteq reported'[i] /\ lost[i] \subseteq lost'[i]
                        /\ InFlight(t, i) \subseteq lost'[i]
  BY <1>1, <1>3, Zenon DEF TypeOK
<1>5. QED
  BY <1>1, <1>2, <1>4, LeaveFInv, Zenon

-----------------------------------------------------------------------------
LEMMA InitFInv == Init => FInv
<1> SUFFICES ASSUME Init PROVE FInv
  BY Zenon
<1> USE DEF Init
<1>1. None \in Options(0 .. (MaxBlock + 1)) /\ None \in Options(BlockNumbers)
      /\ NoFilter \in FilterType
  BY OptionFacts, FilterFields, Zenon
<1>2. DOMAIN polls = {} /\ DOMAIN born = {}
  OBVIOUS
<1>3. TypeOK
  <2>1. poisoned \in BOOLEAN
    BY Zenon
  <2>2. height \in BlockNumbers /\ 0 \in 0 .. height /\ next_id \in 0 .. MaxPolls
    BY BoundsAssumption DEF BlockNumbers
  <2>3. blk \in [Tasks -> 0 .. height]
    BY <2>2, Zenon
  <2>4. reported \in [Ids -> SUBSET BlockNumbers] /\ lost \in [Ids -> SUBSET BlockNumbers]
    BY Zenon
  <2>5. DOMAIN polls \subseteq 0 .. (next_id - 1) /\ DOMAIN born = 0 .. (next_id - 1)
    BY <1>2
  <2>6. call \in [Tasks -> Calls \cup {NoCall}] /\ pc \in [Tasks -> Labels]
    BY Zenon DEF Labels
  <2>7. lo \in [Tasks -> Options(0 .. (MaxBlock + 1))] /\ hi \in [Tasks -> Options(BlockNumbers)]
        /\ holder = None
    BY <1>1, Zenon
  <2> HIDE DEF Init
  <2>8. QED
    BY <1>2, <2>1, <2>2, <2>3, <2>4, <2>5, <2>6, <2>7, Zenon DEF TypeOK
<1>4. PollsInv
  BY <1>2, BoundsAssumption, Zenon DEF PollsInv
<1>5. TasksInv
  BY <1>1, Zenon DEF TasksInv, CallInv, RangeInv
<1>6. GapInv
  BY <1>2, Zenon DEF GapInv
<1>7. \A t \in Tasks : LimitInv(t) /\ PriorInv(t) /\ FailedInv(t)
  BY Zenon DEF LimitInv, PriorInv, FailedInv, Busy, Failed
<1>8. QED
  BY <1>3, <1>4, <1>5, <1>6, <1>7, Zenon DEF FInv

(* Nothing moves; the lock of the chain may be poisoned. *)
LEMMA StayFInv ==
  ASSUME FInv, poisoned' \in BOOLEAN,
         UNCHANGED << height, polls, next_id, holder, call, pc, blk, want, lo, hi, born,
                      reported, lost >>
  PROVE  FInv'
<1>1. TypeOK'
  BY Zenon DEF FInv, TypeOK
<1>2. PollsInv' /\ want' \in [Tasks -> FilterType]
  BY Zenon DEF FInv, PollsInv, TasksInv
<1>3. height' \in Nat /\ height <= height' /\ next_id \in Nat
  BY BoundsAssumption DEF FInv, TypeOK, BlockNumbers
<1>4. \A i : Accounted(i)' = Accounted(i)
  BY DEF Accounted, InFlight
<1>5. Kept
  BY <1>3, <1>4 DEF Kept
<1>6. GapInv'
  BY <1>4, Zenon DEF FInv, GapInv, Complete
<1>7. \A u \in Tasks : Same(u)
  BY Zenon DEF Same
<1>8. \A u \in Tasks :
        CallInv(u)' /\ RangeInv(u)' /\ LimitInv(u)' /\ PriorInv(u)' /\ FailedInv(u)'
  BY <1>3, <1>5, <1>7, LocalsKept, OthersKept, Zenon
<1>9. QED
  BY <1>1, <1>2, <1>6, <1>8, Zenon DEF FInv, TasksInv

LEMMA NextFInv == FInv /\ [Next]_vars => FInv'
<1> SUFFICES ASSUME FInv, [Next]_vars PROVE FInv'
  BY Zenon
<1>1. ASSUME NEW t \in Tasks, Step(t)
      PROVE  FInv'
  BY <1>1, NewFInv, UninstallFInv, BlockChangesFInv, LogsChangesFInv, FilterLogsFInv,
     ResolveFromFInv, ResolveToFInv, FetchFInv, ReadPanicsFInv, ReturnFInv, Zenon DEF Step
<1>2. CASE UNCHANGED vars
  <2>1. poisoned' \in BOOLEAN
    BY <1>2, Zenon DEF vars, FInv, TypeOK
  <2>2. QED
    BY <1>2, <2>1, StayFInv, Zenon DEF vars
<1>3. CASE Poison
  BY <1>3, StayFInv, Zenon DEF Poison, pollVars, rangeVars, fateVars
<1>4. QED
  BY <1>1, <1>2, <1>3, MineFInv, ExpireFInv, CallFInv, Zenon DEF Next

(* Only a poll on a poisoned chain loses what it has taken. *)
LEMMA NextLossInv == LossInv /\ [Next]_vars => LossInv'
<1> SUFFICES ASSUME LossInv, [Next]_vars PROVE LossInv'
  BY Zenon
<1>1. ASSUME poisoned => poisoned', lost' = lost
      PROVE  LossInv'
  BY <1>1, Zenon DEF LossInv
<1>2. ASSUME NEW t \in Tasks, Step(t)
      PROVE  LossInv'
  <2> USE DEF chainVars, fateVars
  <2>1. CASE ReadPanics(t)
    BY <2>1, Zenon DEF ReadPanics, LossInv
  <2>2. CASE NewFilter(t) \/ NewBlockFilter(t) \/ NewPendingTransactionFilter(t)
             \/ UninstallFilter(t) \/ FilterNotFound(t) \/ NoChanges(t)
    BY <1>1, <2>2, Zenon DEF NewFilter, NewBlockFilter, NewPendingTransactionFilter,
       CreatePoll, UninstallFilter, FilterNotFound, NoChanges
  <2>3. CASE BlockChanges(t) \/ LogsChanges(t) \/ FilterLogs(t) \/ ResolveFrom(t)
             \/ ResolveTo(t) \/ Fetch(t) \/ Return(t)
    BY <1>1, <2>3, Zenon DEF BlockChanges, LogsChanges, FilterLogs, ResolveFrom,
       ResolveTo, Fetch, Return
  <2>4. QED
    BY <1>2, <2>1, <2>2, <2>3, Zenon DEF Step
<1>3. ASSUME NEW t \in Tasks, NEW c \in Calls, Call(t, c)
      PROVE  LossInv'
  BY <1>1, <1>3, Zenon DEF Call, chainVars, fateVars
<1>4. ASSUME NEW i \in Ids, Expire(i)
      PROVE  LossInv'
  BY <1>1, <1>4, Zenon DEF Expire, chainVars, fateVars
<1>5. CASE Mine
  BY <1>1, <1>5, Zenon DEF Mine, fateVars
<1>6. CASE Poison
  BY <1>1, <1>6, Zenon DEF Poison, fateVars
<1>7. CASE UNCHANGED vars
  BY <1>1, <1>7, Zenon DEF vars
<1>8. QED
  BY <1>2, <1>3, <1>4, <1>5, <1>6, <1>7, Zenon DEF Next

(* The tasks, the mutex and the filters are as FInv says at every step      *)
(* (EthFilterClient, eth_filter.rs).                                        *)
THEOREM FiltersInductive == Spec => []FInv
BY InitFInv, NextFInv, PTL DEF Spec

(* Type correctness, with the cursors within one block of the chain.        *)
THEOREM FiltersTyped == Spec => []TypeOK
<1>1. FInv => TypeOK
  BY Zenon DEF FInv
<1>2. QED
  BY <1>1, FiltersInductive, PTL

(* No cursor passes a block its client has not been told of, whatever the   *)
(* tasks that poll the same filter do, except for the blocks of polls that  *)
(* a poisoned chain has killed (filter_changes, eth_filter.rs).             *)
THEOREM NoGapAlways == Spec => []NoGap
<1>1. Init => LossInv
  BY Zenon DEF Init, LossInv
<1>2. FInv /\ LossInv => NoGap
  BY Zenon DEF FInv, GapInv, LossInv, NoGap
<1>3. QED
  BY <1>1, <1>2, NextLossInv, FiltersInductive, PTL DEF Spec

(* filter_changes of a logs filter fails only when everything mined before  *)
(* the call is in some reply, or lost with a poll that a poisoned chain has *)
(* killed (get_block_unwrap, eth_filter.rs:132).                            *)
THEOREM FailsOnlyWhenQuietAlways == Spec => []FailsOnlyWhenQuiet
<1>1. FInv => FailsOnlyWhenQuiet
  BY Zenon DEF FInv, FailedInv, Failed, Changes, FailsOnlyWhenQuiet
<1>2. QED
  BY <1>1, FiltersInductive, PTL
=============================================================================
