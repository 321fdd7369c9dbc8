------------------------------ MODULE Sandbox ------------------------------
(***************************************************************************)
(* The execution of a JavaScript contract: vm/v8vm/v8/sandbox.cc and the   *)
(* host functions of storage.cc, blockchain.cc and instruction.cc, the     *)
(* pool of virtual machines of vm/v8vm and the calls between contracts of  *)
(* vm/host and vm/monitor.go.                                              *)
(*                                                                         *)
(* An execution is two threads.  RealExecute runs the script in a thread   *)
(* of its own; Execution polls the strings and flags that thread writes,   *)
(* the gas it has used and the clock, with no lock, and asks V8 to end the *)
(* script when the gas or the time is over.  A script that calls another   *)
(* contract waits in the host function while a second sandbox, with its    *)
(* own two threads, runs; the poller of the first goes on polling.  The    *)
(* sandboxes in use are therefore a stack, the running one on top.         *)
(*                                                                         *)
(* What is abstracted: a script is a sequence of the instructions below,   *)
(* an error is "killed" when its text contains "execution killed" and      *)
(* "failed" otherwise, a result is one value.  gasUsed is a size_t that no *)
(* script can overflow within a deadline (an increment is below 2^31 and   *)
(* checked, the host's prices are small), so it is a natural number.       *)
(***************************************************************************)
EXTENDS Naturals, Sequences, FiniteSets

CONSTANTS
  Code,         \* the deployed JavaScript contracts: name -> instructions
  Native,       \* the contracts in Go: name -> the keys written, the gas for its
                \* computation and for its bytes, and whether it fails
  Refused,      \* those whose transfers exceed their amount limit, or whose
                \* RAM payer has not signed: Monitor.Call fails after the run
  JSCost,       \* host.Costs["JSCost"], the flag-down fare
  PreloadCost,  \* what the preload script is charged for its host calls
  OpCost,       \* host.CommonOpCost(1)
  GetCost,      \* host.Costs["GetCost"]
  MaxStack,     \* the highest stack of calls, 5 in the code
  PoolSize,     \* virtual machines of the run pool, 400 in the code
  MaxGas        \* bound: an endless loop is followed up to this gas

\* What the contracts and the prices of vm/host/costs.go satisfy.  The
\* flag-down fare covers the preload: see GasCheck.
ASSUME CostAssumption ==
  /\ {JSCost, PreloadCost, OpCost, GetCost, MaxGas} \subseteq Nat
  /\ PreloadCost <= JSCost
  /\ MaxStack \in Nat \ {0} /\ PoolSize \in Nat \ {0}

\* A script is a sequence of instructions whose last one does not go on to another.
ASSUME CodeAssumption ==
  /\ \A c \in DOMAIN Code :
       /\ Len(Code[c]) \in Nat \ {0}
       /\ \A i \in 1..Len(Code[c]) :
            Code[c][i].op \notin {"call", "return"} => Code[c][i].gas \in Nat
       /\ Code[c][Len(Code[c])].op \in {"return", "throw", "loop"}
  /\ \A c \in DOMAIN Native :
       /\ Native[c].cpu \in Nat /\ Native[c].net \in Nat
       /\ IsFiniteSet(Native[c].keys)

VARIABLES
  frames,    \* the sandboxes in use, the innermost call last
  cache,     \* keys in the visitor's write cache
  receipts,  \* the receipts of the host's context
  gas_limit, \* "gas_limit" of the host's context
  deadline,  \* the host's deadline
  now,       \* the clock, in the 100 us a call takes off the deadline
  idle,      \* virtual machines in the pool's channel
  ret        \* what Monitor.Call returned to the caller of the first contract

hostVars == <<cache, receipts, gas_limit, deadline>>
sandboxVars == <<frames, cache, receipts, gas_limit, deadline, now, idle, ret>>

NoRet == [err |-> "none", cost |-> 0]

\* The instructions of a script.  A host function checks its arguments,
\* calls the Go side, adds what that reports to gasUsed and throws when it
\* reported an error; the reading ones only charge.
Incr(n)    == [op |-> "incr", gas |-> n]
Read(n)    == [op |-> "read", gas |-> n]
Put(k, n)  == [op |-> "put", key |-> k, gas |-> n]
Receipt(n) == [op |-> "receipt", gas |-> n]
Throw(n)   == [op |-> "throw", gas |-> n]
Call(c)    == [op |-> "call", to |-> c]
Loop(n)    == [op |-> "loop", gas |-> n]
Return(r)  == [op |-> "return", result |-> r]

Top == Len(frames)
Instr == Code[frames[Top].contract][frames[Top].pc]

\* A sandbox fresh from the pool, before its threads run.
Fresh(c) == [contract |-> c, poll |-> "vm", thread |-> "none", pc |-> 1,
             gasUsed |-> 0, gasLimit |-> 0, expire |-> 0,
             error |-> "", result |-> "", isDone |-> FALSE,
             terminate |-> "no", res |-> NoRet]

\* Virtual machines that are neither in the channel nor running a script:
\* their goroutine is releasing and recreating the sandbox.
Recycling == PoolSize - idle - Cardinality({i \in 1..Top : frames[i].poll # "vm"})

-----------------------------------------------------------------------------
(* Calls between contracts *)

\* The text of an uncaught exception.  It contains the text of the exception,
\* so that a call killed by the clock kills its caller too; contracts cannot
\* catch one (inject_gas.js refuses try and catch).
reportException(err) == IF err = "killed" THEN "killed" ELSE "failed"

\* The script of the top frame of fs throws: RealExecute stores the report
\* and returns.
Uncaught(fs, err) ==
  [fs EXCEPT ![Len(fs)].error = reportException(err), ![Len(fs)].thread = "ended"]

\* Monitor.Call makes the deadline of the callee 100 us earlier than that of the
\* caller, and does not put it back when the call returns.
Hurry == deadline' = deadline - 1

\* A contract in Go runs in the thread of its caller, returns its own error or
\* none, and is then held to the gas limit, not to the clock.
LoadAndCall(c) ==
  LET gas == Native[c].cpu + Native[c].net
  IN  [err  |-> IF Native[c].fails \/ gas > gas_limit \/ c \in Refused THEN "failed" ELSE "",
       cost |-> gas]

\* Host.call refuses a contract that is on the stack of calls already and a
\* stack that is too high.  The contract that the transaction names is not
\* recorded on that stack.
Reenters(c) == \E i \in 2..Top : frames[i].contract = c
CallError(c) ==
  CASE Reenters(c)                           -> 0
    [] ~Reenters(c) /\ Top + 1 > MaxStack    -> OpCost * Top
    [] ~Reenters(c) /\ ~(Top + 1 > MaxStack) -> OpCost * Top + GetCost
Callable(c, known) == c \in known /\ ~Reenters(c) /\ Top + 1 <= MaxStack

\* What a host function does with the answer of the Go side.
Answered(fs, r) ==
  LET top == Len(fs)
      f   == [fs EXCEPT ![top].gasUsed = @ + r.cost]
  IN  IF r.err = "" THEN [f EXCEPT ![top].thread = "run", ![top].pc = @ + 1]
                    ELSE Uncaught(f, r.err)

\* IOSTBlockchain_call of a contract in JavaScript: the thread waits in the host
\* function.
CallScript ==
  /\ Instr.op = "call" /\ Callable(Instr.to, DOMAIN Code)
  /\ frames' = Append([frames EXCEPT ![Top].thread = "calling"], Fresh(Instr.to))
  /\ Hurry
  /\ UNCHANGED <<cache, receipts, gas_limit>>

\* ... of a contract in Go.  goCall hands back the gas of the computation only: what
\* the bytes of an inner call cost is not charged.
CallNative ==
  LET c == Instr.to
  IN  /\ Instr.op = "call" /\ Callable(c, DOMAIN Native)
      /\ frames' = Answered(frames,
           [err |-> LoadAndCall(c).err, cost |-> Native[c].cpu + OpCost * Top])
      /\ cache' = cache \cup Native[c].keys
      /\ Hurry
      /\ UNCHANGED <<receipts, gas_limit>>

\* ... and of a contract that may not be called or does not exist
CallRefused ==
  /\ Instr.op = "call" /\ ~Callable(Instr.to, DOMAIN Code \cup DOMAIN Native)
  /\ frames' = Answered(frames, [err |-> "failed", cost |-> CallError(Instr.to)])
  /\ UNCHANGED hostVars

\* getRunVM, setHost and Sandbox.Execute: the call blocks until a virtual
\* machine is idle.  Past the deadline the script is not even started.
GetRunVM ==
  /\ Top > 0 /\ frames[Top].poll = "vm"
  /\ idle > 0
  /\ idle' = idle - 1
  /\ frames' = [frames EXCEPT ![Top] =
       [@ EXCEPT !.gasLimit = gas_limit, !.expire = deadline,
          !.poll   = IF deadline <= now THEN "join" ELSE "look",
          !.thread = IF deadline <= now THEN "ended" ELSE "start",
          !.res    = IF deadline <= now THEN [err |-> "killed", cost |-> 0] ELSE NoRet]]
  /\ UNCHANGED <<hostVars, now, ret>>

\* vm.recycle, in a goroutine: the sandbox is released and a new one made,
\* with or without a new isolate, and the machine goes back to the channel.
Recycle_InUse ==
  /\ idle' = idle + 1
  /\ UNCHANGED <<frames, hostVars, now, ret>>
Recycle ==
  /\ Recycling > 0
  /\ idle' = idle + 1
  /\ UNCHANGED <<frames, hostVars, now, ret>>

\* The end of Execution, Sandbox.Execute and Monitor.Call: the thread has been
\* joined, and the outcome goes to the caller.
Leave ==
  LET f     == frames[Top]
      err   == IF f.res.err = "" /\ f.contract \in Refused THEN "failed" ELSE f.res.err
      cost  == JSCost + f.res.cost
      below == SubSeq(frames, 1, Top - 1)
  IN  /\ Top > 0 /\ f.poll = "join" /\ f.thread = "ended"
      /\ IF below = <<>>
           THEN /\ frames' = <<>>
                /\ ret' = [err |-> err, cost |-> cost]
           ELSE /\ frames' = Answered(below, [err |-> err, cost |-> cost + OpCost * (Top - 1)])
                /\ UNCHANGED ret
      /\ UNCHANGED <<hostVars, now, idle>>

-----------------------------------------------------------------------------
(* RealExecute, the thread of the script *)

\* The thread enters the isolate.  V8 is external: a request to terminate that
\* came before the thread took the lock may be forgotten here.
TakeLock ==
  /\ Top > 0 /\ frames[Top].thread = "start"
  /\ \E t \in {frames[Top].terminate} \cup (IF frames[Top].terminate = "asked" THEN {"lost"} ELSE {}) :
       frames' = [frames EXCEPT ![Top].thread = "preload", ![Top].terminate = t]
  /\ UNCHANGED <<hostVars, now, idle, ret>>

\* The preload script asks the host for the block and the transaction, and is
\* charged like any script; resetSandbox then clears the gas.
Preload ==
  /\ Top > 0 /\ frames[Top].thread = "preload"
  /\ frames' = [frames EXCEPT ![Top].thread = "loaded", ![Top].gasUsed = PreloadCost]
  /\ UNCHANGED <<hostVars, now, idle, ret>>
resetSandbox ==
  /\ Top > 0 /\ frames[Top].thread = "loaded"
  /\ frames' = [frames EXCEPT ![Top].thread = "run", ![Top].gasUsed = 0]
  /\ UNCHANGED <<hostVars, now, idle, ret>>

Charged == [frames EXCEPT ![Top].gasUsed = @ + Instr.gas]

\* An instruction that charges, and changes the host when it is a put or a
\* receipt.
Charge ==
  /\ Instr.op \in {"incr", "read", "put", "receipt"}
  /\ frames' = [Charged EXCEPT ![Top].pc = @ + 1]
  /\ cache' = IF Instr.op = "put" THEN cache \cup {Instr.key} ELSE cache
  /\ receipts' = IF Instr.op = "receipt"
                   THEN Append(receipts, frames[Top].contract) ELSE receipts
  /\ UNCHANGED <<gas_limit, deadline>>

\* A host function that throws: on a bad argument, or after charging what the
\* Go side reported together with its error.
Thrown ==
  /\ Instr.op = "throw"
  /\ frames' = Uncaught(Charged, "failed")
  /\ UNCHANGED hostVars

\* A loop goes round, and is charged for it by the injected counter (a round that
\* costs nothing changes nothing).
Iterate ==
  /\ Instr.op = "loop"
  /\ Instr.gas > 0 /\ frames[Top].gasUsed + Instr.gas <= MaxGas
  /\ frames' = Charged
  /\ UNCHANGED hostVars

\* The script ends.  A string, number, boolean or the JSON of an object is the
\* result; undefined leaves it empty and only sets isDone; a result that is
\* too long, or an object that has no JSON, is an error.
Finished ==
  /\ Instr.op = "return"
  /\ frames' = IF Instr.result = "bad"
       THEN Uncaught(frames, "failed")
       ELSE [frames EXCEPT ![Top].result = Instr.result,
                           ![Top].isDone = TRUE, ![Top].thread = "ended"]
  /\ UNCHANGED hostVars

RealExecute ==
  /\ Top > 0 /\ frames[Top].thread = "run"
  /\ Charge \/ CallScript \/ CallNative \/ CallRefused \/ Thrown \/ Iterate \/ Finished
  /\ UNCHANGED <<now, idle, ret>>

\* V8 unwinds a script that was asked to terminate, at a point of its choice.
\* The exception is null and its report carries no text.
Terminated ==
  /\ Top > 0 /\ frames[Top].thread \in {"preload", "loaded", "run"}
  /\ frames[Top].terminate = "asked"
  /\ frames' = Uncaught(frames, "failed")
  /\ UNCHANGED <<hostVars, now, idle, ret>>

-----------------------------------------------------------------------------
(* Execution, the thread that polls *)

\* What Execution returns: an error text or none, and the gas as it is read.
Answer(f, err) == [err |-> err, cost |-> f.gasUsed]

\* The loop looks at the error, the result and isDone.
Look(i) ==
  LET f == frames[i]
  IN  /\ f.poll = "look"
      /\ frames' = [frames EXCEPT ![i] =
           IF f.error # "" THEN [f EXCEPT !.poll = "join", !.res = Answer(f, f.error)]
           ELSE IF f.result # "" \/ f.isDone
                  THEN [f EXCEPT !.poll = "join", !.res = Answer(f, "")]
                  ELSE [f EXCEPT !.poll = "gas"]]
      /\ UNCHANGED <<hostVars, now, idle, ret>>

\* ... then at the gas, which is not reset yet when the preload has run: a
\* limit below PreloadCost ends the script early, and is below JSCost.
GasCheck(i) ==
  LET f == frames[i]
  IN  /\ f.poll = "gas"
      /\ frames' = [frames EXCEPT ![i] =
           IF f.gasUsed > f.gasLimit
             THEN [f EXCEPT !.poll = "join", !.terminate = "asked", !.res = Answer(f, "failed")]
             ELSE [f EXCEPT !.poll = "time"]]
      /\ UNCHANGED <<hostVars, now, idle, ret>>

\* ... then at the clock, and sleeps.
TimeCheck_NoTerminate(i) ==
  LET f == frames[i]
  IN  /\ f.poll = "time"
      /\ frames' = [frames EXCEPT ![i] =
           IF now > f.expire THEN [f EXCEPT !.poll = "join", !.res = Answer(f, "killed")]
                             ELSE [f EXCEPT !.poll = "look"]]
      /\ UNCHANGED <<hostVars, now, idle, ret>>
TimeCheck(i) ==
  LET f == frames[i]
  IN  /\ f.poll = "time"
      /\ frames' = [frames EXCEPT ![i] =
           IF now > f.expire
             THEN [f EXCEPT !.poll = "join", !.terminate = "asked", !.res = Answer(f, "killed")]
             ELSE [f EXCEPT !.poll = "look"]]
      /\ UNCHANGED <<hostVars, now, idle, ret>>

PollAt(i) == i \in 1..Top /\ (Look(i) \/ GasCheck(i) \/ TimeCheck(i))
Poll == \E i \in 1..Top : PollAt(i)
Script == TakeLock \/ Preload \/ resetSandbox \/ RealExecute \/ Terminated

SandboxNext == GetRunVM \/ Recycle \/ Poll \/ Script \/ Leave
=============================================================================
