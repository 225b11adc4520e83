----------------------------- MODULE EthFilter -----------------------------
(***************************************************************************)
(* The polling filters of src/src/impls/eth_filter.rs: tasks create, poll  *)
(* and remove filters behind the polls mutex while blocks are mined.       *)
(*                                                                         *)
(* The chain is seen through its height and its poisoned lock: Blockchain  *)
(* is shown to refine a ledger that grows by whole blocks and forgets      *)
(* none, and a panic in mine_block makes every later read().unwrap() of    *)
(* the chain panic.  Every block has one log entry that matches every      *)
(* filter; the block's number stands for the entry and for the block's     *)
(* hash.                                                                   *)
(***************************************************************************)
EXTENDS Naturals, FiniteSets, Sequences

CONSTANTS
  Tasks,       \* tasks that serve eth_* filter calls
  Filters,     \* filters clients may install
  MaxBlock,    \* bound: no block is mined above this number
  MaxPolls     \* bound: filters created

ASSUME BoundsAssumption == MaxBlock \in Nat /\ MaxPolls \in Nat

None == << >>

Some(x) == << x >>

Options(S) == { s \in Seq(S) : Len(s) <= 1 }

BlockNumbers == 0 .. MaxBlock

Ids == 0 .. (MaxPolls - 1)

(* A filter's block range and limit; None stands for Latest, and for no     *)
(* limit.                                                                   *)
FilterType == [from : Options(Nat), to : Options(Nat), limit : Options(Nat)]

ASSUME FiltersAssumption == Filters \subseteq FilterType

NoFilter == [from |-> None, to |-> None, limit |-> None]

Calls ==
  [op : {"new_filter"}, filter : Filters]
    \cup [op : {"new_block_filter", "new_pending_transaction_filter"}]
    \cup [op : {"filter_changes", "filter_logs", "uninstall_filter"}, id : Ids]

NoCall == [op |-> "none"]

VARIABLES
  height, poisoned,        \* number of the latest block; whether the lock is poisoned
  polls, next_id,          \* the PollManager
  holder,                  \* Some(task) that holds the polls mutex across steps
  call, pc, blk,           \* per task; blk is the latest block's number at the call
  want, lo, hi,            \* per task: the range asked of logs() and its resolution
  born, reported, lost     \* history: height at creation, blocks handed to clients,
                           \* blocks a poll had taken when it died

chainVars == << height, poisoned >>
pollVars  == << polls, next_id, holder, born >>
rangeVars == << want, lo, hi >>
fateVars  == << reported, lost >>
vars      == << height, poisoned, polls, next_id, holder, call, pc, blk, want, lo, hi,
                born, reported, lost >>

Init ==
  /\ height = 0 /\ poisoned = FALSE
  /\ polls = << >> /\ next_id = 0 /\ holder = None
  /\ call = [t \in Tasks |-> NoCall]
  /\ pc = [t \in Tasks |-> "idle"]
  /\ blk = [t \in Tasks |-> 0]
  /\ want = [t \in Tasks |-> NoFilter]
  /\ lo = [t \in Tasks |-> None] /\ hi = [t \in Tasks |-> None]
  /\ born = << >>
  /\ reported = [i \in Ids |-> {}] /\ lost = [i \in Ids |-> {}]

(* mine_block, as seen from outside the lock; a panic in it poisons the     *)
(* lock for good.                                                           *)
Mine ==
  /\ height < MaxBlock /\ ~ poisoned
  /\ height' = height + 1
  /\ UNCHANGED << poisoned, pollVars, call, pc, blk, rangeVars, fateVars >>

Poison ==
  /\ ~ poisoned
  /\ poisoned' = TRUE
  /\ UNCHANGED << height, pollVars, call, pc, blk, rangeVars, fateVars >>

-----------------------------------------------------------------------------
Goto(t, label) == pc' = [pc EXCEPT ![t] = label]

Clear(t) ==
  /\ want' = [want EXCEPT ![t] = NoFilter]
  /\ lo' = [lo EXCEPT ![t] = None]
  /\ hi' = [hi EXCEPT ![t] = None]

(* The call is over: the reply's blocks are in reported, and the task is    *)
(* free for the next call.                                                  *)
Leave(t) ==
  /\ Goto(t, "idle")
  /\ call' = [call EXCEPT ![t] = NoCall]
  /\ blk' = [blk EXCEPT ![t] = 0]
  /\ Clear(t)

(* Err("block not found"), on its way to the client. *)
Fail(t) ==
  /\ Goto(t, "failed")
  /\ Clear(t)
  /\ UNCHANGED << call, blk >>

(* The calls that start with get_latest_block(), which is evaluated before  *)
(* the future that takes the mutex runs.  On a poisoned chain it panics,    *)
(* and the call has no effect.                                              *)
ReadsLatest == {"new_filter", "new_block_filter", "filter_changes"}

(* The bound on filters. *)
Creates == {"new_filter", "new_block_filter", "new_pending_transaction_filter"}

MayCreate ==
  next_id + Cardinality({ u \in Tasks : pc[u] = "lock" /\ call[u].op \in Creates }) < MaxPolls

Call(t, c) ==
  /\ pc[t] = "idle"
  /\ c.op \in ReadsLatest => ~ poisoned
  /\ c.op \in Creates => MayCreate
  /\ call' = [call EXCEPT ![t] = c]
  /\ blk' = [blk EXCEPT ![t] = IF c.op \in ReadsLatest THEN height ELSE 0]
  /\ Goto(t, "lock")
  /\ UNCHANGED << chainVars, pollVars, rangeVars, fateVars >>

(* The client has the error. *)
Return(t) ==
  /\ pc[t] = "failed"
  /\ Leave(t)
  /\ UNCHANGED << chainVars, pollVars, fateVars >>

(* polls.lock() succeeds. *)
Locks(t, op) == pc[t] = "lock" /\ call[t].op = op /\ holder = None

Poll(t) == polls[call[t].id]

(* PollManager::create_poll: ids are given out once.  MayCreate leaves room *)
(* for every creation that has begun, so the bound never holds one up.      *)
CreatePoll(t, poll) ==
  /\ next_id < MaxPolls
  /\ polls' = [i \in DOMAIN polls \cup {next_id} |->
                 IF i = next_id THEN poll ELSE polls[i]]
  /\ born' = [i \in DOMAIN born \cup {next_id} |->
                IF i = next_id THEN height ELSE born[i]]
  /\ next_id' = next_id + 1
  /\ Leave(t)
  /\ UNCHANGED << chainVars, holder, fateVars >>

NewFilter(t) ==
  /\ Locks(t, "new_filter")
  /\ CreatePoll(t, [kind |-> "logs", number |-> blk[t], filter |-> call[t].filter])

(* +1, since we don't want to include the current block. *)
NewBlockFilter(t) ==
  /\ Locks(t, "new_block_filter")
  /\ CreatePoll(t, [kind |-> "block", number |-> blk[t] + 1, filter |-> NoFilter])

NewPendingTransactionFilter(t) ==
  /\ Locks(t, "new_pending_transaction_filter")
  /\ CreatePoll(t, [kind |-> "pending", number |-> 0, filter |-> NoFilter])

(* PollManager forgets a filter that has not been polled for its lifetime.  *)
Expire(i) ==
  /\ holder = None
  /\ i \in DOMAIN polls
  /\ polls' = [j \in DOMAIN polls \ {i} |-> polls[j]]
  /\ UNCHANGED << chainVars, next_id, holder, born, call, pc, blk, rangeVars, fateVars >>

UninstallFilter(t) ==
  /\ Locks(t, "uninstall_filter")
  /\ polls' = [j \in DOMAIN polls \ {call[t].id} |-> polls[j]]
  /\ Leave(t)
  /\ UNCHANGED << chainVars, next_id, holder, born, fateVars >>

-----------------------------------------------------------------------------
(* filter_changes and filter_logs of an id that is not there, and of a      *)
(* filter that has nothing to report.                                       *)
FilterNotFound(t) ==
  /\ Locks(t, "filter_changes") \/ Locks(t, "filter_logs")
  /\ call[t].id \notin DOMAIN polls
  /\ Leave(t)
  /\ UNCHANGED << chainVars, pollVars, fateVars >>

NoChanges(t) ==
  /\ \/ Locks(t, "filter_changes") /\ call[t].id \in DOMAIN polls /\ Poll(t).kind = "pending"
     \/ Locks(t, "filter_logs") /\ call[t].id \in DOMAIN polls /\ Poll(t).kind # "logs"
  /\ Leave(t)
  /\ UNCHANGED << chainVars, pollVars, fateVars >>

(* Mutant: the cursor is set from a fresh look at the chain, the range from *)
(* the old one.                                                             *)
BugBlockChanges(t) ==
  /\ Locks(t, "filter_changes")
  /\ call[t].id \in DOMAIN polls /\ Poll(t).kind = "block"
  /\ lo' = [lo EXCEPT ![t] = Some(Poll(t).number)]
  /\ hi' = [hi EXCEPT ![t] = Some(blk[t])]
  /\ polls' = [polls EXCEPT ![call[t].id].number = height + 1]
  /\ Goto(t, "fetch")
  /\ UNCHANGED << chainVars, next_id, holder, born, call, blk, want, fateVars >>

(* filter_changes of a block filter: the stream over *number..=blk is built *)
(* and the cursor moved under the mutex; the blocks are fetched later.      *)
BlockChanges(t) ==
  /\ Locks(t, "filter_changes")
  /\ call[t].id \in DOMAIN polls /\ Poll(t).kind = "block"
  /\ lo' = [lo EXCEPT ![t] = Some(Poll(t).number)]
  /\ hi' = [hi EXCEPT ![t] = Some(blk[t])]
  /\ polls' = [polls EXCEPT ![call[t].id].number = blk[t]]
  /\ Goto(t, "fetch")
  /\ UNCHANGED << chainVars, next_id, holder, born, call, blk, want, fateVars >>

(* Mutant: the saved number is one too far. *)
BugLogsChanges(t) ==
  /\ Locks(t, "filter_changes")
  /\ call[t].id \in DOMAIN polls /\ Poll(t).kind = "logs"
  /\ want' = [want EXCEPT ![t] = [Poll(t).filter EXCEPT !.from = Some(Poll(t).number),
                                                         !.to   = None]]
  /\ polls' = [polls EXCEPT ![call[t].id].number = blk[t] + 2]
  /\ holder' = Some(t)
  /\ Goto(t, "from")
  /\ UNCHANGED << chainVars, next_id, born, call, blk, lo, hi, fateVars >>

(* filter_changes of a logs filter: the range runs from the cursor to       *)
(* Latest, the cursor becomes blk + 1, and logs() resolves both ends before *)
(* the mutex is released.                                                   *)
LogsChanges(t) ==
  /\ Locks(t, "filter_changes")
  /\ call[t].id \in DOMAIN polls /\ Poll(t).kind = "logs"
  /\ want' = [want EXCEPT ![t] = [Poll(t).filter EXCEPT !.from = Some(Poll(t).number),
                                                         !.to   = None]]
  /\ polls' = [polls EXCEPT ![call[t].id].number = blk[t] + 1]
  /\ holder' = Some(t)
  /\ Goto(t, "from")
  /\ UNCHANGED << chainVars, next_id, born, call, blk, lo, hi, fateVars >>

(* filter_logs: the client's own range; the mutex is released at once.      *)
FilterLogs(t) ==
  /\ Locks(t, "filter_logs")
  /\ call[t].id \in DOMAIN polls /\ Poll(t).kind = "logs"
  /\ want' = [want EXCEPT ![t] = Poll(t).filter]
  /\ Goto(t, "from")
  /\ UNCHANGED << chainVars, pollVars, call, blk, lo, hi, fateVars >>

-----------------------------------------------------------------------------
(* get_block(id): None when the chain has no such block.                    *)
Resolve(id) ==
  IF id = None THEN Some(height)
  ELSE IF id[1] <= height THEN id ELSE None

(* What t has taken from filter i and not yet handed to its client.         *)
InFlight(t, i) ==
  IF call[t].op # "filter_changes" \/ call[t].id # i THEN {}
  ELSE IF pc[t] = "fetch" THEN lo[t][1] .. hi[t][1]
  ELSE IF pc[t] \in {"from", "to"} THEN want[t].from[1] .. blk[t]
  ELSE {}

(* Mutant: the panic leaves the mutex unusable, as it leaves std's.         *)
BugReadPanics(t) ==
  /\ poisoned
  /\ pc[t] \in {"from", "to"} \/ (pc[t] = "fetch" /\ lo[t][1] <= hi[t][1])
  /\ Leave(t)
  /\ lost' = [i \in Ids |-> lost[i] \cup InFlight(t, i)]
  /\ UNCHANGED << chainVars, pollVars, reported >>

(* Every look of logs() and of a stream of blocks at a poisoned chain       *)
(* panics, and the cursor has been moved by then.  The task unwinds without *)
(* an answer to its client and drops the guard of the mutex if it has it;   *)
(* the mutex is not poisoned.  An empty range is not looked at.             *)
ReadPanics(t) ==
  /\ poisoned
  /\ pc[t] \in {"from", "to"} \/ (pc[t] = "fetch" /\ lo[t][1] <= hi[t][1])
  /\ Leave(t)
  /\ holder' = IF holder = Some(t) THEN None ELSE holder
  /\ lost' = [i \in Ids |-> lost[i] \cup InFlight(t, i)]
  /\ UNCHANGED << chainVars, polls, next_id, born, reported >>

(* Mutant: the latest block is not found by its number. *)
BugResolveFrom(t) ==
  /\ pc[t] = "from" /\ ~ poisoned
  /\ lo' = [lo EXCEPT ![t] =
              IF want[t].from = Some(height) THEN None ELSE Resolve(want[t].from)]
  /\ Goto(t, "to")
  /\ UNCHANGED << chainVars, pollVars, call, blk, want, hi, fateVars >>

(* Blockchain::logs resolves the two ends one after the other. *)
ResolveFrom(t) ==
  /\ pc[t] = "from" /\ ~ poisoned
  /\ lo' = [lo EXCEPT ![t] = Resolve(want[t].from)]
  /\ Goto(t, "to")
  /\ UNCHANGED << chainVars, pollVars, call, blk, want, hi, fateVars >>

(* The closure of filter_changes ends here and drops the mutex guard. *)
ResolveTo(t) ==
  /\ pc[t] = "to" /\ ~ poisoned
  /\ holder' = IF holder = Some(t) THEN None ELSE holder
  /\ IF lo[t] = None \/ Resolve(want[t].to) = None
     THEN Fail(t)
     ELSE /\ hi' = [hi EXCEPT ![t] = Resolve(want[t].to)]
          /\ Goto(t, "fetch")
          /\ UNCHANGED << call, blk, want, lo >>
  /\ UNCHANGED << chainVars, polls, next_id, born, fateVars >>

(* limit_logs: the last entries, if there are more than the limit. *)
LimitLogs(first, last, limit) ==
  { n \in first .. last : limit = None \/ n + limit[1] > last }

(* The blocks are there, whatever has been mined meanwhile: the reply.      *)
Fetch(t) ==
  /\ pc[t] = "fetch"
  /\ poisoned => lo[t][1] > hi[t][1]
  /\ LET blocks == lo[t][1] .. hi[t][1]
         found  == LimitLogs(lo[t][1], hi[t][1], want[t].limit)
     IN IF \E n \in blocks : n > height
        THEN Fail(t) /\ UNCHANGED reported
        ELSE /\ Leave(t)
             /\ reported' = IF call[t].op = "filter_changes"
                            THEN [reported EXCEPT ![call[t].id] = @ \cup found]
                            ELSE reported
  /\ UNCHANGED << chainVars, pollVars, lost >>

Step(t) ==
  \/ NewFilter(t) \/ NewBlockFilter(t) \/ NewPendingTransactionFilter(t)
  \/ UninstallFilter(t) \/ FilterNotFound(t) \/ NoChanges(t)
  \/ BlockChanges(t) \/ LogsChanges(t) \/ FilterLogs(t)
  \/ ResolveFrom(t) \/ ResolveTo(t) \/ Fetch(t) \/ ReadPanics(t) \/ Return(t)

Next ==
  \/ Mine \/ Poison
  \/ \E i \in Ids : Expire(i)
  \/ \E t \in Tasks : Step(t) \/ \E c \in Calls : Call(t, c)

Spec == Init /\ [][Next]_vars

(***************************************************************************)
(* Fairness.  A task that can go on does; the mutex is parking_lot's,      *)
(* which hands a contended lock over eventually.  The clients are assumed  *)
(* to poll every filter again and again.                                   *)
(***************************************************************************)
Fairness ==
  /\ \A t \in Tasks : SF_vars(Step(t))
  /\ \A i \in Ids : SF_vars(\E t \in Tasks : Call(t, [op |-> "filter_changes", id |-> i]))

FairSpec == Spec /\ Fairness

-----------------------------------------------------------------------------
Labels == {"idle", "lock", "from", "to", "fetch", "failed"}

Polls == [kind : {"logs", "block", "pending"}, number : 0 .. (MaxBlock + 1),
          filter : Filters \cup {NoFilter}]

(* Types: cursors stay within one block of the chain, ids are those the     *)
(* PollManager gave out, and the mutex is held across steps by a task that  *)
(* is resolving the range of a logs filter (EthFilterClient,                *)
(* eth_filter.rs:37-40).                                                    *)
TypeOK ==
  /\ height \in BlockNumbers /\ poisoned \in BOOLEAN
  /\ next_id \in 0 .. MaxPolls
  /\ DOMAIN polls \subseteq 0 .. (next_id - 1)
  /\ \A i \in DOMAIN polls : polls[i] \in Polls /\ polls[i].number <= height + 1
  /\ DOMAIN born = 0 .. (next_id - 1)
  /\ \A i \in DOMAIN born : born[i] \in 0 .. height
  /\ reported \in [Ids -> SUBSET BlockNumbers] /\ lost \in [Ids -> SUBSET BlockNumbers]
  /\ call \in [Tasks -> Calls \cup {NoCall}]
  /\ pc \in [Tasks -> Labels]
  /\ blk \in [Tasks -> 0 .. height]
  /\ lo \in [Tasks -> Options(0 .. (MaxBlock + 1))]
  /\ hi \in [Tasks -> Options(BlockNumbers)]
  /\ holder = None \/ \E t \in Tasks : holder = Some(t) /\ pc[t] \in {"from", "to"}

Accounted(i) == reported[i] \cup lost[i] \cup UNION { InFlight(t, i) : t \in Tasks }

(* Filters whose client asked for everything. *)
Complete(i) ==
  i \in DOMAIN polls /\ polls[i].kind # "pending" /\ polls[i].filter.limit = None

(* A filter's cursor never passes a block its client has not been told of:  *)
(* each block mined since the filter was created and below the cursor has   *)
(* been reported or is in a reply on its way, although the cursor is moved  *)
(* before the range is read and concurrent polls move it backwards          *)
(* (eth_filter.rs:122, :137).  The exception is what a poll had taken that  *)
(* died with the cursor moved, and only a poisoned chain kills a poll       *)
(* (blockchain.rs:173, :187, :542).                                         *)
NoGap ==
  /\ \A i \in DOMAIN polls : Complete(i) =>
       \A n \in (born[i] + 1) .. height : n < polls[i].number => n \in Accounted(i)
  /\ \A i \in Ids : lost[i] # {} => poisoned

(* filter_changes of a logs filter fails with "block not found" when the    *)
(* cursor is past the latest block (get_block_unwrap of the cursor,         *)
(* eth_filter.rs:132).  It fails only then: whatever had been mined when    *)
(* the client called is in an earlier reply or in one on its way, or was    *)
(* taken by a poll that a poisoned chain has killed.                        *)
FailsOnlyWhenQuiet ==
  \A t \in Tasks :
    pc[t] = "failed" /\ call[t].op = "filter_changes" =>
      LET i == call[t].id IN
        Complete(i) => \A n \in (born[i] + 1) .. blk[t] : n \in Accounted(i)

(* A client that keeps polling is told of every block mined while its       *)
(* filter exists, whatever other clients of the same filter do, unless the  *)
(* chain is poisoned, when every poll panics (eth_filter.rs:98-157).        *)
EveryBlockReported ==
  \A i \in Ids, n \in 1 .. MaxBlock :
    (Complete(i) /\ born[i] < n /\ n <= height)
      ~> (n \in reported[i] \/ i \notin DOMAIN polls \/ poisoned)

(* The polls mutex can always be had again, although a poll of a logs       *)
(* filter takes the lock of the chain with the mutex held and may die       *)
(* there: a poisoned chain does not take the filters that need no chain     *)
(* with it (eth_filter.rs:103, :139-142).                                   *)
MutexReleased == holder # None ~> holder = None

-----------------------------------------------------------------------------
(* "+1, since we don't want to include the current block" (eth_filter.rs:80): *)
(* setting the cursor of a block filter, at creation or in a poll, leaves    *)
(* the current block out of the next poll, so that no block is returned     *)
(* again.                                                                   *)
CurrentBlockNotIncluded ==
  [][ \A t \in Tasks : BlockChanges(t) =>
        lo'[t][1] .. hi'[t][1] \cap reported[call[t].id] = {} ]_vars

(* "Save the number of the next block as a first block from which we want   *)
(* to get logs" (eth_filter.rs:135): the saved number is that of the block  *)
(* after the last one whose logs the poll returns.                          *)
SavedNumberIsNext ==
  \A t \in Tasks :
    pc[t] = "fetch" /\ call[t].op = "filter_changes" /\ call[t].id \in DOMAIN polls =>
      (Poll(t).kind = "logs" => Poll(t).number = hi[t][1] + 1)
=============================================================================
