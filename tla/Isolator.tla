------------------------------ MODULE Isolator ------------------------------
(***************************************************************************)
(* A transaction on two nodes: vm/isolator.go runs its actions and charges *)
(* its publisher, verifier/executor.go does so on the node that makes the  *)
(* block, and verifier/verifier.go on every node that receives it, which   *)
(* refuses the block when its own receipt differs.                         *)
(*                                                                         *)
(* Neither node controls when the pollers of Sandbox look, or how far a    *)
(* script has come when its gas or its time is over.  Run turns what it    *)
(* gets into a receipt that must not depend on it.                         *)
(*                                                                         *)
(* The rules are those after fork 3.3.0.  Delayed and deferred             *)
(* transactions, which no node makes or admits, and the block base         *)
(* transaction, which is not charged, are left out.                        *)
(***************************************************************************)
EXTENDS Sandbox, Integers

CONSTANTS
  Txs,       \* transactions: actions, GasLimit, GasRatio, the gas for their size and
             \* for reading the accounts of their signers, whether the signatures
             \* suffice, and the gas that the publisher has
  RetCost,   \* gas of the bytes that the value of an action adds to the receipt
  Pledges,   \* the actions by which a publisher pledges tokens it has for itself
  PledgeKey, Reward,    \* what those write, and the gas they add at once
  UnpledgeKey, GasLeft, \* what a withdrawal of a pledge writes, and the most gas
             \* that the publisher can have after it
  Ram,       \* keys the publisher's RAM has room for
  TxTimeLimit, ShortLimit, \* time for a transaction, and what may be left of
             \* it at the end of the making of a block
  MaxTime    \* bound: the clock

\* What checkTxParams and the types of the code give.
ASSUME TxAssumption ==
  /\ {RetCost, Reward, GasLeft, Ram, TxTimeLimit, ShortLimit} \subseteq Nat
  /\ \A t \in Txs : /\ t.GasLimit \in Nat /\ t.GasRatio \in Nat \ {0}
                     /\ t.size \in Nat /\ t.auth \in Nat /\ t.gas \in Nat
                     /\ t.actions \in Seq(STRING)

VARIABLES
  stage,      \* where the transaction is
  node,       \* the node that runs it: "producer" or "verifier"
  tx,         \* the transaction
  k,          \* its next action
  limit,      \* the time it was given
  vmGasLimit, \* gas that is left for its actions
  paid,       \* GasPaid
  tr,         \* the receipt
  produced    \* receipt and keys of the producer

txVars == <<stage, node, tx, k, limit, vmGasLimit, paid, tr, produced>>
vars == <<sandboxVars, txVars>>

EmptyReceipt == [code |-> "success", gas |-> 0, ram |-> 0, returns |-> <<>>, receipts |-> <<>>]
NotProduced == [tr |-> EmptyReceipt, keys |-> {}]

\* The time Verify gives a transaction, from its receipt in the block: none when
\* it says that the time was over, and fifty times the producer's otherwise.
VerifyLimit_Half == IF produced.tr.code = "timeout" THEN TxTimeLimit \div 2 ELSE 50 * TxTimeLimit
VerifyLimit == IF produced.tr.code = "timeout" THEN 0 ELSE 50 * TxTimeLimit

\* The publisher has the gas for the limit, or gets it by the pledge that is all the
\* transaction does.
CheckTxGasLimitValid ==
  \/ tx.gas >= tx.GasLimit
  \/ /\ Len(tx.actions) = 1 /\ tx.actions[1] \in Pledges
     /\ tx.gas + Reward >= tx.GasLimit

\* An error of PrepareTx or PayCost: the producer drops the transaction, a verifier
\* refuses the block.
Rejected(n) == IF n = "producer" THEN "dropped" ELSE "refused"

\* PrepareTx and the beginning of Run.  The check that gas is left compares the
\* limit with the cost of the size alone; checkAuth then charges for the accounts
\* it reads, and Run divides where the check multiplied.
Begin(n, time) ==
  /\ node' = n
  /\ limit' = time
  /\ deadline' = now + time
  /\ paid' = tx.size + tx.auth
  /\ vmGasLimit' = tx.GasLimit \div tx.GasRatio - paid'
  /\ gas_limit' = vmGasLimit'
  /\ stage' = IF \/ tx.size * tx.GasRatio >= tx.GasLimit
                 \/ ~CheckTxGasLimitValid
                 \/ ~tx.signed
                THEN Rejected(n)
              ELSE IF vmGasLimit' <= 0 THEN "fatal"
              ELSE IF tx.actions = <<>> THEN "run" ELSE "action"
  /\ k' = 1
  /\ tr' = EmptyReceipt
  /\ cache' = {} /\ receipts' = <<>>
  /\ UNCHANGED <<frames, now, idle, ret, tx, produced>>

Produce ==
  /\ stage = "idle"
  /\ \E time \in {TxTimeLimit, ShortLimit} : Begin("producer", time)

Verify ==
  /\ stage = "produced"
  /\ Begin("verifier", VerifyLimit)

-----------------------------------------------------------------------------
(* Run *)

Action == tx.actions[k]

\* runAction, for a contract in JavaScript
RunScript ==
  /\ stage = "action" /\ Action \in DOMAIN Code
  /\ frames' = <<Fresh(Action)>>
  /\ Hurry
  /\ stage' = "running"
  /\ UNCHANGED <<cache, receipts, gas_limit, now, idle, ret, node, tx, k, limit,
                 vmGasLimit, paid, tr, produced>>

\* ... in Go
RunNative ==
  /\ stage = "action" /\ Action \in DOMAIN Native
  /\ ret' = LoadAndCall(Action)
  /\ cache' = cache \cup Native[Action].keys
  /\ Hurry
  /\ stage' = "running"
  /\ UNCHANGED <<frames, receipts, gas_limit, now, idle, node, tx, k, limit,
                 vmGasLimit, paid, tr, produced>>

\* ... and for one that does not exist
RunMissing ==
  /\ stage = "action" /\ Action \notin DOMAIN Code \cup DOMAIN Native
  /\ ret' = [err |-> "failed", cost |-> GetCost]
  /\ stage' = "running"
  /\ UNCHANGED <<frames, hostVars, now, idle, node, tx, k, limit,
                 vmGasLimit, paid, tr, produced>>

\* The publisher's gas at the time of the block, as the transaction has changed it:
\* a pledge adds to the stock, and its withdrawal lowers the most it may hold.
TotalGas(keys) ==
  LET stock == tx.gas + IF PledgeKey \in keys THEN Reward ELSE 0
  IN  IF UnpledgeKey \in keys /\ GasLeft < stock THEN GasLeft ELSE stock

\* The cost of the action that returned, the value it added to the receipt
\* included.
ActionCost == ret.cost + IF ret.err = "" THEN RetCost ELSE 0

\* More than was left, or the publisher has pledged gas away meanwhile.  The
\* test for the message "out of gas" never holds: runAction puts the name of the
\* action in front of it.
OutOfGas ==
  \/ vmGasLimit < ActionCost
  \/ TotalGas(cache) \div tx.GasRatio < paid + vmGasLimit

ActionCode ==
  IF OutOfGas THEN "runtime"
  ELSE CASE ret.err = ""       -> "success"
         [] ret.err = "killed" -> "timeout"
         [] OTHER              -> "runtime"

\* An action that ran out of gas or of time costs all that was left.
ActionCharge_AsUsed == IF ActionCode = "timeout" THEN vmGasLimit ELSE ActionCost
ActionCharge == IF OutOfGas \/ ActionCode = "timeout" THEN vmGasLimit ELSE ActionCost

\* The receipt of a transaction that failed.
Cleared_KeepReturns(r) == [r EXCEPT !.receipts = <<>>]
Cleared(r) == [r EXCEPT !.returns = <<>>, !.receipts = <<>>]

\* The rest of an iteration of Run.  A failure ends the transaction: the writes
\* of all its actions are dropped, and what they returned.
Settle ==
  /\ stage = "running" /\ ret # NoRet
  /\ ret' = NoRet
  /\ paid' = paid + ActionCharge
  /\ IF ActionCode = "success"
       THEN /\ tr' = [tr EXCEPT !.returns = Append(@, Action), !.receipts = receipts]
            /\ vmGasLimit' = vmGasLimit - ActionCharge
            /\ gas_limit' = vmGasLimit'
            /\ k' = k + 1
            /\ stage' = IF k = Len(tx.actions) THEN "run" ELSE "action"
            /\ UNCHANGED cache
       ELSE /\ tr' = [Cleared(tr) EXCEPT !.code = ActionCode]
            /\ cache' = {}
            /\ stage' = "run"
            /\ UNCHANGED <<vmGasLimit, gas_limit, k>>
  /\ UNCHANGED <<frames, receipts, deadline, now, idle, node, tx, limit, produced>>

-----------------------------------------------------------------------------
(* The end of the transaction *)

\* baseGen: a transaction whose time was cut short by the end of the block is
\* put back and the block ends before it.
PutBack ==
  /\ stage = "run" /\ node = "producer"
  /\ tr.code = "timeout" /\ limit < TxTimeLimit
  /\ stage' = "returned"
  /\ cache' = {}
  /\ UNCHANGED <<frames, receipts, gas_limit, deadline, now, idle, ret,
                 node, tx, k, limit, vmGasLimit, paid, tr, produced>>

\* DoPay charges the publisher for gas and RAM and fails when either is short.
CanPay(keys) == /\ tx.GasRatio * paid <= TotalGas(keys)
                /\ Cardinality(keys) <= Ram

\* PayCost: a publisher that cannot pay loses the writes, and pays for the gas.
Paid ==
  LET keys == IF CanPay(cache) THEN cache ELSE {}
      code == IF CanPay(cache) THEN tr.code ELSE "balance"
      r    == IF CanPay(cache) THEN tr ELSE Cleared(tr)
  IN  [keys |-> keys,
       tr |-> [r EXCEPT !.code = code, !.gas = tx.GasRatio * paid, !.ram = Cardinality(keys)]]

\* The node pays, commits the writes and includes the transaction, or compares
\* its receipt with the one in the block.  The gas may be short without the writes
\* too: that of a pledge which failed.
PayCost ==
  /\ stage = "run"
  /\ ~(node = "producer" /\ tr.code = "timeout" /\ limit < TxTimeLimit)
  /\ tr' = Paid.tr
  /\ cache' = Paid.keys
  /\ produced' = IF node = "producer" THEN Paid ELSE produced
  /\ stage' = IF tx.GasLimit < paid * tx.GasRatio THEN "fatal"
              ELSE IF ~CanPay(Paid.keys) THEN Rejected(node)
              ELSE IF node = "producer" THEN "produced"
              ELSE IF Paid.tr = produced.tr THEN "accepted" ELSE "refused"
  /\ UNCHANGED <<frames, receipts, gas_limit, deadline, now, idle, ret,
                 node, tx, k, limit, vmGasLimit, paid>>

\* Time passes while a script runs.
Tick ==
  /\ stage = "running" /\ now < MaxTime
  /\ now' = now + 1
  /\ UNCHANGED <<frames, hostVars, idle, ret, txVars>>

Init ==
  /\ frames = <<>> /\ cache = {} /\ receipts = <<>> /\ gas_limit = 0
  /\ deadline = 0 /\ now = 0 /\ idle = PoolSize /\ ret = NoRet
  /\ stage = "idle" /\ node = "producer" /\ k = 1 /\ limit = 0
  /\ tx \in Txs
  /\ vmGasLimit = 0 /\ paid = 0 /\ tr = EmptyReceipt /\ produced = NotProduced

Run == RunScript \/ RunNative \/ RunMissing \/ Settle
Sandboxes == SandboxNext /\ UNCHANGED txVars

Next == Produce \/ Verify \/ Run \/ Sandboxes \/ PutBack \/ PayCost \/ Tick

\* The thread of Go that runs the transaction, and waits in its virtual machines.
Caller == \/ Produce \/ Verify \/ Run \/ PutBack \/ PayCost
          \/ (GetRunVM \/ Leave) /\ UNCHANGED txVars

\* Every thread is scheduled, the clock runs, and V8 ends a script that it knows
\* it has to end.
Fairness ==
  /\ WF_vars(Caller) /\ WF_vars(Tick)
  /\ WF_vars(Recycle /\ UNCHANGED txVars)
  /\ WF_vars(Script /\ UNCHANGED txVars) /\ WF_vars(Terminated /\ UNCHANGED txVars)
  /\ \A i \in 1..MaxStack : WF_vars(PollAt(i) /\ UNCHANGED txVars)

Spec == Init /\ [][Next]_vars
FairSpec == Spec /\ Fairness

-----------------------------------------------------------------------------
(* Properties *)

Thread == {"none", "start", "preload", "loaded", "run", "calling", "ended"}
Answers == [err : {"none", "", "failed", "killed"}, cost : Nat]
Codes == {"success", "runtime", "timeout", "balance"}

ITypeOK ==
  /\ Len(frames) <= MaxStack
  /\ \A i \in 1..Top :
       /\ frames[i].poll \in {"vm", "look", "gas", "time", "join"}
       /\ frames[i].thread \in Thread
       /\ frames[i].gasUsed \in Nat /\ frames[i].gasLimit \in Nat
       /\ frames[i].res \in Answers
       /\ i < Top => frames[i].thread = "calling"
  /\ idle \in 0..PoolSize /\ Recycling >= 0
  /\ ret \in Answers
  /\ tr.code \in Codes /\ paid \in Nat /\ vmGasLimit \in Int

\* A node that receives a block comes to the same receipt as the node that made
\* it, and to the same writes, whenever the pollers of either looked and
\* whichever of gas and time ended the scripts: no block is refused for a
\* receipt (checkReceiptEqual) or for a transaction that cannot pay.  The verifier
\* is assumed not to need fifty times the time the producer had.
SameReceipt ==
  /\ stage # "refused"
  /\ stage = "accepted" => cache = produced.keys

\* The assertion of Isolator.PayCost holds: the gas paid for never exceeds the limit
\* of the transaction.  That of Run, that gas is left for the actions, fails for the
\* limits that pass the check of PrepareTx and do not cover what comes after it: the
\* charge of checkAuth, and less than one unit of gas by the division.
FatalOnlyByAuthCharge ==
  stage = "fatal" =>
    /\ tx.size * tx.GasRatio < tx.GasLimit
    /\ tx.GasLimit < (tx.size + tx.auth + 1) * tx.GasRatio

\* What the message of Run's assertion says of it: vmGasLimit <= 0 "should not
\* happen" (vm/isolator.go).
NeverFatal == stage # "fatal"

\* A transaction keeps the writes of all its actions or of none, and of none when
\* its receipt reports a failure: Rollback drops those of the earlier actions too
\* and those of the inner calls.
AllOrNothing ==
  stage \in {"produced", "accepted"} =>
    IF tr.code = "success" THEN Len(tr.returns) = Len(tx.actions)
                           ELSE cache = {} /\ tr.returns = <<>> /\ tr.receipts = <<>>

\* The request to terminate was made before the script's thread had entered V8,
\* and was forgotten.
Forgotten ==
  \E i \in 1..Top : frames[i].terminate = "lost"

\* Every transaction comes to an end on both nodes, scripts that loop for ever
\* included, unless V8 forgets a request to terminate: Execution breaks out of its
\* loop after one request and joins.
TxEnds == <>(stage \in {"dropped", "fatal", "returned", "accepted", "refused"} \/ Forgotten)
=============================================================================
