--------------------------- MODULE IsolatorProofs ---------------------------
(***************************************************************************)
(* Proofs about Isolator and Sandbox: the sandboxes in use are well-formed *)
(* and take no more virtual machines than the pool has, the gas of a       *)
(* transaction never exceeds its limit, and its writes are kept all or     *)
(* none.                                                                   *)
(***************************************************************************)
EXTENDS Isolator, FiniteSetTheorems, SequenceTheorems, TLAPS

\* Time for the provers on a slow machine.
USE ZenonT(40), SMTT(40)

-----------------------------------------------------------------------------
(* The stack of sandboxes *)

Result == {""} \cup UNION {{Code[c][i].result : i \in 1..Len(Code[c])} : c \in DOMAIN Code}

Frame == [contract : DOMAIN Code, poll : {"vm", "look", "gas", "time", "join"},
          thread : Thread, pc : Nat, gasUsed : Nat, gasLimit : Nat, expire : Int,
          error : {"", "failed", "killed"}, result : Result, isDone : BOOLEAN,
          terminate : {"no", "asked", "lost"}, res : Answers]

\* The instruction exists, and a script that waits is at a call.
PcOK(f) ==
  /\ f.pc \in 1..Len(Code[f.contract])
  /\ f.thread = "calling" => Code[f.contract][f.pc].op = "call"

InUse(fs) == {i \in 1..Len(fs) : fs[i].poll # "vm"}

FramesOK ==
  /\ frames \in Seq(Frame) /\ Len(frames) <= MaxStack
  /\ \A i \in 1..Len(frames) :
       PcOK(frames[i]) /\ (i < Len(frames) => frames[i].thread = "calling")
  /\ idle \in Nat /\ idle + Cardinality(InUse(frames)) <= PoolSize

\* A sandbox is replaced by another state of itself, in the same virtual machine.
Becomes(i, g) ==
  /\ i \in 1..Len(frames)
  /\ g \in Frame /\ PcOK(g)
  /\ g.poll = "vm" <=> frames[i].poll = "vm"
  /\ i < Len(frames) => g.thread = "calling"
  /\ frames' = [frames EXCEPT ![i] = g]

LEMMA InUseFinite ==
  ASSUME NEW fs, Len(fs) \in Nat
  PROVE  IsFiniteSet(InUse(fs)) /\ Cardinality(InUse(fs)) \in Nat
<1>1. IsFiniteSet(1..Len(fs))
  BY SMTT(40), FS_Interval
<1>2. InUse(fs) \subseteq 1..Len(fs)
  BY DEF InUse
<1> QED
  BY <1>1, <1>2, FS_Subset, FS_CardinalityType

LEMMA Becoming ==
  ASSUME FramesOK, NEW i, NEW g, Becomes(i, g), idle' = idle
  PROVE  FramesOK' /\ Len(frames') = Len(frames)
<1>1. /\ frames' \in Seq(Frame) /\ Len(frames') = Len(frames)
      /\ \A j \in 1..Len(frames) : frames'[j] = IF j = i THEN g ELSE frames[j]
  BY SMTT(40) DEF FramesOK, Becomes
<1>2. InUse(frames') = InUse(frames)
  BY <1>1 DEF InUse, Becomes
<1>3. \A j \in 1..Len(frames) : PcOK(frames'[j]) /\ (j < Len(frames) => frames'[j].thread = "calling")
  BY <1>1 DEF FramesOK, Becomes
<1> QED
  BY <1>1, <1>2, <1>3 DEF FramesOK

(* What the steps of the threads make of one sandbox. *)

\* The script is over with an error ...
Ended(f, err) == [f EXCEPT !.error = reportException(err), !.thread = "ended"]
\* ... or goes on after a call,
Resumed(f, r) == [f EXCEPT !.gasUsed = @ + r.cost, !.thread = "run", !.pc = @ + 1]
\* which may also have thrown.
Charging(f, n) == [f EXCEPT !.gasUsed = @ + n]
AnsweredFrame(f, r) == IF r.err = "" THEN Resumed(f, r) ELSE Ended(Charging(f, r.cost), r.err)

LEMMA EndedFrame ==
  ASSUME NEW f \in Frame, PcOK(f), NEW err
  PROVE  /\ Ended(f, err) \in Frame /\ PcOK(Ended(f, err))
         /\ Ended(f, err).poll = f.poll /\ Ended(f, err).contract = f.contract
  BY DEF Ended, Frame, PcOK, reportException, Thread

LEMMA ChargingFrame ==
  ASSUME NEW f \in Frame, PcOK(f), NEW n \in Nat
  PROVE  /\ Charging(f, n) \in Frame /\ PcOK(Charging(f, n))
         /\ Charging(f, n).poll = f.poll /\ Charging(f, n).contract = f.contract
         /\ Charging(f, n).pc = f.pc /\ Charging(f, n).thread = f.thread
<1> DEFINE m == f.gasUsed + n
<1>0. f.gasUsed \in Nat
  BY DEF Frame
<1>1. m \in Nat
  BY SMTT(40), <1>0
<1> HIDE DEF m
<1>2. Charging(f, n) = [f EXCEPT !.gasUsed = m]
  BY DEF Charging, m
<1> QED
  BY <1>1, <1>2 DEF Frame, PcOK

LEMMA ResumedFrame ==
  ASSUME NEW f \in Frame, PcOK(f), NEW r, r.cost \in Nat, f.pc < Len(Code[f.contract])
  PROVE  /\ Resumed(f, r) \in Frame /\ PcOK(Resumed(f, r))
         /\ Resumed(f, r).poll = f.poll /\ Resumed(f, r).contract = f.contract
<1>1. f.contract \in DOMAIN Code /\ f.pc \in Nat /\ f.gasUsed \in Nat
  BY DEF Frame
<1>2. Len(Code[f.contract]) \in Nat
  BY <1>1, CodeAssumption
<1> DEFINE m == f.gasUsed + r.cost
           p == f.pc + 1
<1>3. m \in Nat
  BY SMTT(40), <1>1
<1>4. p \in 1..Len(Code[f.contract])
  BY SMTT(40), <1>1, <1>2
<1> HIDE DEF m, p
<1>5. Resumed(f, r) = [f EXCEPT !.gasUsed = m, !.thread = "run", !.pc = p]
  BY DEF Resumed, m, p
<1>6. p \in Nat
  BY SMTT(40), <1>2, <1>4
<1>7. Resumed(f, r) \in Frame
  BY <1>3, <1>5, <1>6 DEF Frame, Thread
<1>8. /\ Resumed(f, r).pc = p /\ Resumed(f, r).contract = f.contract
      /\ Resumed(f, r).thread = "run" /\ Resumed(f, r).poll = f.poll
  BY <1>5 DEF Frame
<1> QED
  BY <1>4, <1>7, <1>8 DEF PcOK

LEMMA AnsweredOK ==
  ASSUME NEW f \in Frame, PcOK(f), NEW r, r.cost \in Nat, Code[f.contract][f.pc].op = "call"
  PROVE  /\ AnsweredFrame(f, r) \in Frame /\ PcOK(AnsweredFrame(f, r))
         /\ AnsweredFrame(f, r).poll = f.poll /\ AnsweredFrame(f, r).contract = f.contract
<1>1. f.contract \in DOMAIN Code /\ f.pc \in Nat
  BY DEF Frame
<1>2. f.pc < Len(Code[f.contract])
  <2>1. /\ Len(Code[f.contract]) \in Nat
        /\ Code[f.contract][Len(Code[f.contract])].op \in {"return", "throw", "loop"}
    BY <1>1, CodeAssumption
  <2> QED
    BY SMTT(40), <1>1, <2>1 DEF PcOK
<1>3. CASE r.err = ""
  BY <1>2, <1>3, ResumedFrame DEF AnsweredFrame
<1>4. CASE r.err # ""
  <2>1. PICK g \in Frame : /\ g = Charging(f, r.cost) /\ PcOK(g)
                           /\ g.poll = f.poll /\ g.contract = f.contract
    BY ChargingFrame
  <2>2. AnsweredFrame(f, r) = Ended(g, r.err)
    BY <1>4, <2>1 DEF AnsweredFrame
  <2> QED
    BY SMTT(40), <2>1, <2>2, EndedFrame
<1> QED
  BY <1>3, <1>4

LEMMA AnsweredTop ==
  ASSUME NEW fs \in Seq(Frame), fs # <<>>, NEW r
  PROVE  Answered(fs, r) = [fs EXCEPT ![Len(fs)] = AnsweredFrame(fs[Len(fs)], r)]
<1> DEFINE top == Len(fs)
<1>1. top \in 1..Len(fs) /\ fs[top] \in Frame
  BY SMTT(40)
<1>2. CASE r.err = ""
  BY <1>1, <1>2 DEF Answered, AnsweredFrame, Resumed, Frame
<1>3. CASE r.err # ""
  <2>1. PICK m : m = fs[top].gasUsed + r.cost
    OBVIOUS
  <2>2. PICK e : e = reportException(r.err)
    OBVIOUS
  <2> DEFINE f == [fs EXCEPT ![top].gasUsed = m]
  <2>3. Answered(fs, r) = Uncaught(f, r.err)
    BY <1>3, <2>1 DEF Answered
  <2>3a. Len(f) = top
    BY SMTT(40), <1>1
  <2>3b. Answered(fs, r) = [f EXCEPT ![top].error = e, ![top].thread = "ended"]
    BY <2>2, <2>3, <2>3a DEF Uncaught
  <2>4. AnsweredFrame(fs[top], r) = [fs[top] EXCEPT !.gasUsed = m, !.error = e, !.thread = "ended"]
    BY <1>1, <1>3, <2>1, <2>2 DEF AnsweredFrame, Ended, Charging
  <2> QED
    BY <1>1, <2>3b, <2>4
<1> QED
  BY <1>2, <1>3

LEMMA UncaughtTop ==
  ASSUME NEW fs \in Seq(Frame), fs # <<>>, NEW err
  PROVE  Uncaught(fs, err) = [fs EXCEPT ![Len(fs)] = Ended(fs[Len(fs)], err)]
  BY DEF Uncaught, Ended, Frame

-----------------------------------------------------------------------------
(* The steps of the sandboxes *)

SandboxInv ==
  /\ FramesOK
  /\ ret \in Answers
  /\ deadline \in Int /\ now \in Nat
  /\ frames # <<>> => gas_limit \in Nat
  /\ IsFiniteSet(cache) /\ receipts \in Seq(DOMAIN Code)

LEMMA TopFrame ==
  ASSUME FramesOK, Top > 0
  PROVE  /\ Top \in 1..Len(frames) /\ Top = Len(frames) /\ frames # <<>>
         /\ frames[Top] \in Frame /\ PcOK(frames[Top])
  BY SMTT(40) DEF FramesOK, Top

\* Virtual machines come out of the pool for the sandboxes of a call ...
LEMMA GetRunVMStep ==
  ASSUME SandboxInv, GetRunVM
  PROVE  FramesOK'
<1> DEFINE f == frames[Top]
           late == deadline <= now
           g == [f EXCEPT !.gasLimit = gas_limit, !.expire = deadline,
                   !.poll = IF late THEN "join" ELSE "look",
                   !.thread = IF late THEN "ended" ELSE "start",
                   !.res = IF late THEN [err |-> "killed", cost |-> 0] ELSE NoRet]
<1>1. /\ Top \in 1..Len(frames) /\ Top = Len(frames)
      /\ f \in Frame /\ PcOK(f) /\ frames \in Seq(Frame) /\ frames # <<>>
  BY TopFrame DEF GetRunVM, SandboxInv, FramesOK
<1>2. frames' = [frames EXCEPT ![Top] = g] /\ f.poll = "vm" /\ idle' = idle - 1 /\ idle > 0
  BY DEF GetRunVM
<1>3. /\ g \in Frame /\ g.pc = f.pc /\ g.contract = f.contract
      /\ g.poll # "vm" /\ g.thread # "calling"
  <2>1. gas_limit \in Nat /\ deadline \in Int
    BY <1>1 DEF SandboxInv
  <2>2. [err |-> "killed", cost |-> 0] \in Answers /\ NoRet \in Answers
    BY DEF Answers, NoRet
  <2>3. PICK p \in {"join", "look"}, t \in {"ended", "start"}, a \in Answers :
          g = [f EXCEPT !.gasLimit = gas_limit, !.expire = deadline,
                 !.poll = p, !.thread = t, !.res = a]
    <3>1. CASE late
      BY <2>2, <3>1
    <3>2. CASE ~late
      BY <2>2, <3>2
    <3> QED
      BY <3>1, <3>2
  <2>4. PICK n \in Nat, e \in Int, x \in Frame : n = gas_limit /\ e = deadline /\ x = f
    BY <1>1, <2>1
  <2>5. g = [x EXCEPT !.gasLimit = n, !.expire = e, !.poll = p, !.thread = t, !.res = a]
    BY <2>3, <2>4
  <2> HIDE DEF g
  <2>6. /\ g.pc = x.pc /\ g.contract = x.contract /\ g.poll = p /\ g.thread = t
    BY <2>5 DEF Frame
  <2>7. t \in Thread
    BY DEF Thread
  <2>8. [x EXCEPT !.gasLimit = n, !.expire = e, !.res = a] \in Frame
    BY DEF Frame
  <2>9. \A h \in Frame : [h EXCEPT !.poll = p, !.thread = t] \in Frame
    BY <2>7 DEF Frame
  <2>10. g = [[x EXCEPT !.gasLimit = n, !.expire = e, !.res = a] EXCEPT !.poll = p, !.thread = t]
    BY <2>5 DEF Frame
  <2>11. g \in Frame
    BY <2>8, <2>9, <2>10
  <2> QED
    BY <2>4, <2>6, <2>11
<1> HIDE DEF g
<1>4. /\ frames' \in Seq(Frame) /\ Len(frames') = Len(frames)
      /\ \A j \in 1..Len(frames) : frames'[j] = IF j = Top THEN g ELSE frames[j]
  BY SMTT(40), <1>1, <1>2, <1>3
<1>5. \A j \in 1..Len(frames) : PcOK(frames'[j]) /\ (j < Len(frames) => frames'[j].thread = "calling")
  BY SMTT(40), <1>1, <1>3, <1>4 DEF SandboxInv, FramesOK, PcOK
<1>6. /\ InUse(frames') = InUse(frames) \cup {Top} /\ Top \notin InUse(frames)
  BY SMTT(40), <1>1, <1>2, <1>3, <1>4 DEF InUse
<1>7. /\ IsFiniteSet(InUse(frames)) /\ Cardinality(InUse(frames)) \in Nat
  <2>1. Len(frames) \in Nat
    BY SMTT(40), <1>1
  <2> QED
    BY <2>1, InUseFinite
<1>8. Cardinality(InUse(frames')) = Cardinality(InUse(frames)) + 1
  BY <1>6, <1>7, FS_AddElement
<1>9. idle \in Nat /\ idle + Cardinality(InUse(frames)) <= PoolSize
  BY DEF SandboxInv, FramesOK
<1>10. PoolSize \in Nat
  BY CostAssumption
<1>11. idle' \in Nat /\ idle' + Cardinality(InUse(frames')) <= PoolSize
  BY SMTT(40), <1>2, <1>7, <1>8, <1>9, <1>10
<1>12. Len(frames) <= MaxStack
  BY DEF SandboxInv, FramesOK
<1> QED
  BY <1>4, <1>5, <1>11, <1>12 DEF FramesOK

\* ... and go back when they have been made anew.
LEMMA RecycleStep ==
  ASSUME SandboxInv, Recycle
  PROVE  FramesOK'
<1> DEFINE c == Cardinality(InUse(frames))
<1>1. c \in Nat /\ PoolSize \in Nat /\ idle \in Nat
  BY SMTT(40), InUseFinite, CostAssumption DEF SandboxInv, FramesOK
<1>2. Recycling = PoolSize - idle - c
  BY DEF Recycling, InUse, Top
<1> HIDE DEF c
<1>3. idle' \in Nat /\ idle' + c <= PoolSize
  BY SMTT(40), <1>1, <1>2 DEF Recycle
<1>4. frames' = frames
  BY DEF Recycle
<1> QED
  BY <1>3, <1>4 DEF SandboxInv, FramesOK, c

\* The end of a call gives its caller the answer, and its sandbox back.
LEMMA LeaveStep ==
  ASSUME SandboxInv, Leave
  PROVE  FramesOK' /\ ret' \in Answers
<1> DEFINE f == frames[Top]
           n == Top - 1
           below == SubSeq(frames, 1, n)
           err == IF f.res.err = "" /\ f.contract \in Refused THEN "failed" ELSE f.res.err
           cost == JSCost + f.res.cost
           r == [err |-> err, cost |-> cost + OpCost * n]
<1>1. /\ Top \in 1..Len(frames) /\ Top = Len(frames) /\ n \in Nat
      /\ f \in Frame /\ PcOK(f) /\ frames \in Seq(Frame)
  <2>1. Top > 0 /\ FramesOK /\ frames \in Seq(Frame)
    BY DEF Leave, SandboxInv, FramesOK
  <2>2. Top \in 1..Len(frames) /\ Top = Len(frames) /\ f \in Frame /\ PcOK(f)
    BY <2>1, TopFrame
  <2> QED
    BY SMTT(40), <2>1, <2>2
<1>2. err \in {"none", "", "failed", "killed"} /\ cost \in Nat /\ r.cost \in Nat
  <2>1. f.res.err \in {"none", "", "failed", "killed"} /\ f.res.cost \in Nat
    BY <1>1 DEF Frame, Answers
  <2>2. JSCost \in Nat /\ OpCost \in Nat
    BY CostAssumption
  <2>3. OpCost * n \in Nat
    BY SMTT(40), <1>1, <2>2
  <2>4. cost \in Nat
    <3>1. f.res.cost \in Nat
      BY <2>1
    <3> HIDE DEF f
    <3> QED
      BY SMTT(40), <3>1, <2>2
  <2>5. r.cost = cost + OpCost * n
    BY DEF r
  <2> HIDE DEF cost, r
  <2>6. r.cost \in Nat
    BY SMTT(40), <2>3, <2>4, <2>5
  <2> QED
    BY <2>1, <2>4, <2>6
<1>3. /\ IF below = <<>>
           THEN frames' = <<>> /\ ret' = [err |-> err, cost |-> cost]
           ELSE frames' = Answered(below, r) /\ ret' = ret
      /\ idle' = idle
  BY DEF Leave
<1> HIDE DEF r, err, cost, below
<1>4. ret' \in Answers
  <2>1. [err |-> err, cost |-> cost] \in Answers
    BY <1>2 DEF Answers
  <2> QED
    BY <1>3, <2>1 DEF SandboxInv
<1>5. below \in Seq(Frame) /\ Len(below) = n /\ \A j \in 1..n : below[j] = frames[j]
  BY SMTT(40), <1>1 DEF below
<1>6. CASE below = <<>>
  <2>1. frames' = <<>>
    BY <1>3, <1>6
  <2>2. InUse(frames') = {}
    BY SMTT(40), <2>1 DEF InUse
  <2>3. Cardinality(InUse(frames')) = 0
    BY <2>2, FS_EmptySet
  <2>4. /\ idle \in Nat /\ idle <= PoolSize /\ MaxStack \in Nat
    BY SMTT(40), CostAssumption, InUseFinite DEF SandboxInv, FramesOK
  <2> QED
    BY SMTT(40), <1>3, <1>4, <2>1, <2>3, <2>4 DEF FramesOK
<1>7. CASE below # <<>>
  <2> DEFINE g == AnsweredFrame(below[n], r)
  <2>1. n \in 1..n /\ n < Len(frames) /\ below[n] = frames[n] /\ below[n] \in Frame
    BY SMTT(40), <1>1, <1>5, <1>7
  <2>2. PcOK(below[n]) /\ below[n].thread = "calling"
    BY SMTT(40), <1>1, <2>1 DEF SandboxInv, FramesOK
  <2>3. Code[below[n].contract][below[n].pc].op = "call"
    BY <2>2 DEF PcOK
  <2>4. g \in Frame /\ PcOK(g) /\ g.poll = below[n].poll
    BY <1>2, <2>1, <2>2, <2>3, AnsweredOK
  <2>5. frames' = [below EXCEPT ![n] = g]
    BY <1>3, <1>5, <1>7, AnsweredTop
  <2> HIDE DEF g
  <2>6. /\ frames' \in Seq(Frame) /\ Len(frames') = n
        /\ \A j \in 1..n : frames'[j] = IF j = n THEN g ELSE frames[j]
    BY SMTT(40), <1>5, <2>1, <2>4, <2>5
  <2>7. \A j \in 1..n : PcOK(frames'[j]) /\ (j < n => frames'[j].thread = "calling")
    BY SMTT(40), <1>1, <2>1, <2>4, <2>6 DEF SandboxInv, FramesOK
  <2>8. InUse(frames') \subseteq InUse(frames)
    BY SMTT(40), <1>1, <2>1, <2>4, <2>6 DEF InUse
  <2>9. /\ Cardinality(InUse(frames')) <= Cardinality(InUse(frames))
        /\ Cardinality(InUse(frames')) \in Nat /\ Cardinality(InUse(frames)) \in Nat
    BY SMTT(40), <1>1, <2>6, <2>8, InUseFinite, FS_Subset
  <2>10. idle' \in Nat /\ idle' + Cardinality(InUse(frames')) <= PoolSize
    BY SMTT(40), <1>3, <2>9, CostAssumption DEF SandboxInv, FramesOK
  <2>11. n <= MaxStack
    BY SMTT(40), <1>1, CostAssumption DEF SandboxInv, FramesOK
  <2> QED
    BY <1>4, <2>6, <2>7, <2>10, <2>11 DEF FramesOK
<1> QED
  BY <1>6, <1>7

\* The polling thread changes neither the script's place nor the machine.
LEMMA PollStep ==
  ASSUME SandboxInv, NEW i \in 1..Top, Look(i) \/ GasCheck(i) \/ TimeCheck(i)
  PROVE  FramesOK'
<1> DEFINE f == frames[i]
<1>1. /\ i \in 1..Len(frames) /\ f \in Frame /\ PcOK(f) /\ idle' = idle
      /\ i < Len(frames) => f.thread = "calling"
  <2>1. frames \in Seq(Frame) /\ i \in 1..Len(frames)
    BY DEF SandboxInv, FramesOK, Top
  <2>2. idle' = idle
    BY DEF Look, GasCheck, TimeCheck
  <2> QED
    BY SMTT(40), <2>1, <2>2 DEF SandboxInv, FramesOK
<1>2. /\ f.gasUsed \in Nat /\ f.error \in {"", "failed", "killed"}
      /\ \A e \in {"", "failed", "killed"} : Answer(f, e) \in Answers
  BY <1>1 DEF Answer, Answers, Frame
<1> DEFINE Next1(p) == [f EXCEPT !.poll = p]
           Next2(e) == [f EXCEPT !.poll = "join", !.res = Answer(f, e)]
           Next3(e) == [f EXCEPT !.poll = "join", !.terminate = "asked", !.res = Answer(f, e)]
           Fine(g) == g \in Frame /\ PcOK(g) /\ g.poll # "vm" /\ g.thread = f.thread
<1>3. \A p \in {"look", "gas", "time"} : Fine(Next1(p))
  BY <1>1 DEF Frame, PcOK
<1>4. \A e \in {"", "failed", "killed"} : Fine(Next2(e)) /\ Fine(Next3(e))
  <2> SUFFICES ASSUME NEW e \in {"", "failed", "killed"} PROVE Fine(Next2(e)) /\ Fine(Next3(e))
    OBVIOUS
  <2>1. PICK a \in Answers : a = Answer(f, e)
    BY <1>2
  <2> QED
    BY <1>1, <2>1 DEF Frame, PcOK
<1> HIDE DEF Fine
<1>5. PICK g : Fine(g) /\ frames' = [frames EXCEPT ![i] = g]
  <2>1. CASE Look(i)
    BY <1>2, <1>3, <1>4, <2>1 DEF Look
  <2>2. CASE GasCheck(i)
    BY <1>3, <1>4, <2>2 DEF GasCheck
  <2>3. CASE TimeCheck(i)
    BY <1>3, <1>4, <2>3 DEF TimeCheck
  <2> QED
    BY <2>1, <2>2, <2>3
<1>6. f.poll # "vm"
  BY DEF Look, GasCheck, TimeCheck
<1>7. Becomes(i, g)
  BY <1>1, <1>5, <1>6 DEF Becomes, Fine
<1> QED
  BY <1>1, <1>7, Becoming DEF SandboxInv

LEMMA ThreadFrame ==
  ASSUME NEW f \in Frame, PcOK(f), NEW t \in Thread \ {"calling"},
         NEW m \in {"no", "asked", "lost"}
  PROVE  LET g == [f EXCEPT !.thread = t, !.terminate = m]
         IN  g \in Frame /\ PcOK(g) /\ g.poll = f.poll
  BY DEF Frame, PcOK

LEMMA ThreadGasFrame ==
  ASSUME NEW f \in Frame, PcOK(f), NEW t \in Thread \ {"calling"}, NEW n \in Nat
  PROVE  LET g == [f EXCEPT !.thread = t, !.gasUsed = n]
         IN  g \in Frame /\ PcOK(g) /\ g.poll = f.poll
  BY DEF Frame, PcOK

\* The thread of the script, outside the script.
LEMMA ThreadStep ==
  ASSUME SandboxInv, TakeLock \/ Preload \/ resetSandbox \/ Terminated
  PROVE  FramesOK'
<1> DEFINE f == frames[Top]
<1>1. /\ Top \in 1..Len(frames) /\ Top = Len(frames) /\ frames # <<>>
      /\ f \in Frame /\ PcOK(f) /\ frames \in Seq(Frame) /\ idle' = idle
  <2>1. Top > 0 /\ FramesOK /\ frames \in Seq(Frame) /\ idle' = idle
    BY DEF TakeLock, Preload, resetSandbox, Terminated, SandboxInv, FramesOK
  <2> QED
    BY <2>1, TopFrame
<1> DEFINE Fine(g) == g \in Frame /\ PcOK(g) /\ g.poll = f.poll
<1>2. PICK g : Fine(g) /\ frames' = [frames EXCEPT ![Top] = g]
  <2>1. CASE TakeLock
    <3>1. PICK t \in {f.terminate, "lost"} :
             frames' = [frames EXCEPT ![Top].thread = "preload", ![Top].terminate = t]
      BY <2>1 DEF TakeLock
    <3> DEFINE g == [f EXCEPT !.thread = "preload", !.terminate = t]
    <3>1a. t \in {"no", "asked", "lost"} /\ "preload" \in Thread \ {"calling"}
      BY <1>1 DEF Frame, Thread
    <3>2. Fine(g)
      BY <1>1, <3>1a, ThreadFrame
    <3>3. frames' = [frames EXCEPT ![Top] = g]
      BY <1>1, <3>1
    <3> QED
      BY <3>2, <3>3
  <2>2. CASE Preload \/ resetSandbox
    <3>1. PICK t \in {"loaded", "run"}, n \in Nat :
             frames' = [frames EXCEPT ![Top].thread = t, ![Top].gasUsed = n]
      BY <2>2, CostAssumption DEF Preload, resetSandbox
    <3> DEFINE g == [f EXCEPT !.thread = t, !.gasUsed = n]
    <3>1a. t \in Thread \ {"calling"}
      BY DEF Thread
    <3>2. Fine(g)
      BY <1>1, <3>1a, ThreadGasFrame
    <3>3. frames' = [frames EXCEPT ![Top] = g]
      BY <1>1, <3>1
    <3> QED
      BY <3>2, <3>3
  <2>3. CASE Terminated
    BY SMTT(40), <1>1, <2>3, UncaughtTop, EndedFrame DEF Terminated
  <2> QED
    BY <2>1, <2>2, <2>3
<1>3. Becomes(Top, g)
  BY SMTT(40), <1>1, <1>2 DEF Becomes
<1> QED
  BY <1>1, <1>3, Becoming DEF SandboxInv

\* The script itself, when it calls no contract in JavaScript.
LEMMA InstrStep ==
  ASSUME SandboxInv, Top > 0, frames[Top].thread = "run", idle' = idle,
         Charge \/ CallNative \/ CallRefused \/ Thrown \/ Iterate \/ Finished
  PROVE  FramesOK'
<1> DEFINE f == frames[Top]
<1>1. /\ Top \in 1..Len(frames) /\ Top = Len(frames) /\ frames # <<>> /\ Top \in Nat
      /\ f \in Frame /\ PcOK(f) /\ frames \in Seq(Frame)
  <2>1. FramesOK /\ frames \in Seq(Frame)
    BY DEF SandboxInv, FramesOK
  <2> QED
    BY SMTT(40), <2>1, TopFrame
<1>2. /\ f.contract \in DOMAIN Code /\ f.pc \in 1..Len(Code[f.contract])
      /\ Len(Code[f.contract]) \in Nat /\ Instr = Code[f.contract][f.pc]
      /\ Instr.op \notin {"call", "return"} => Instr.gas \in Nat
      /\ Instr.result \in Result
      /\ Instr.op \notin {"return", "throw", "loop"} => f.pc < Len(Code[f.contract])
  <2>1. f.contract \in DOMAIN Code /\ f.pc \in 1..Len(Code[f.contract])
    BY <1>1 DEF Frame, PcOK
  <2>2. Instr = Code[f.contract][f.pc]
    BY DEF Instr
  <2>3. /\ Len(Code[f.contract]) \in Nat
        /\ Code[f.contract][Len(Code[f.contract])].op \in {"return", "throw", "loop"}
        /\ Instr.op \notin {"call", "return"} => Instr.gas \in Nat
    BY <2>1, <2>2, CodeAssumption
  <2>4. Instr.op \notin {"return", "throw", "loop"} => f.pc < Len(Code[f.contract])
    BY SMTT(40), <2>1, <2>2, <2>3
  <2>5. Instr.result \in Result
    <3> DEFINE R(c) == {Code[c][i].result : i \in 1..Len(Code[c])}
    <3>1. Instr.result \in R(f.contract)
      BY <2>1, <2>2
    <3>2. R(f.contract) \in {R(c) : c \in DOMAIN Code}
      BY <2>1
    <3> QED
      BY <3>1, <3>2 DEF Result
  <2> QED
    BY <2>1, <2>2, <2>3, <2>4, <2>5
<1> DEFINE Fine(g) == g \in Frame /\ PcOK(g) /\ g.poll = f.poll
<1>3. Instr.op \notin {"call", "return"} =>
        Fine(Charging(f, Instr.gas)) /\ Charged = [frames EXCEPT ![Top] = Charging(f, Instr.gas)]
  BY <1>1, <1>2, ChargingFrame DEF Charged, Charging
<1>4. PICK g : Fine(g) /\ frames' = [frames EXCEPT ![Top] = g]
  <2>1. CASE Charge
    <3> DEFINE c == Charging(f, Instr.gas)
               g == [c EXCEPT !.pc = @ + 1]
    <3>1. /\ Instr.op \in {"incr", "read", "put", "receipt"}
          /\ frames' = [Charged EXCEPT ![Top].pc = @ + 1]
      BY <2>1 DEF Charge
    <3>2. /\ c \in Frame /\ c.poll = f.poll /\ c.contract = f.contract /\ c.pc = f.pc
          /\ c.thread = "run"
          /\ Charged = [frames EXCEPT ![Top] = c]
      BY <1>1, <1>2, <1>3, <3>1, ChargingFrame
    <3> HIDE DEF c
    <3>3. frames' = [frames EXCEPT ![Top] = g]
      BY <1>1, <3>1, <3>2
    <3>4. c.pc + 1 \in 1..Len(Code[c.contract]) /\ c.pc + 1 \in Nat
      BY SMTT(40), <1>2, <3>1, <3>2
    <3>5. PICK p : p = c.pc + 1
      OBVIOUS
    <3>6. g = [c EXCEPT !.pc = p]
      BY <3>5
    <3>7. g \in Frame /\ g.pc = p /\ g.contract = c.contract /\ g.poll = c.poll /\ g.thread = c.thread
      BY <3>2, <3>4, <3>5, <3>6 DEF Frame
    <3>8. PcOK(g)
      BY <3>2, <3>4, <3>5, <3>7 DEF PcOK
    <3> QED
      BY <3>2, <3>3, <3>7, <3>8
  <2>2. CASE CallNative \/ CallRefused
    <3>1. PICK r : Instr.op = "call" /\ r.cost \in Nat /\ frames' = Answered(frames, r)
      <4>0. OpCost \in Nat /\ GetCost \in Nat /\ OpCost * Top \in Nat
        BY SMTT(40), <1>1, CostAssumption
      <4>1. CASE CallNative
        <5> DEFINE n == Native[Instr.to].cpu + OpCost * Top
                   r == [err |-> LoadAndCall(Instr.to).err, cost |-> n]
        <5>1. Instr.op = "call" /\ frames' = Answered(frames, r) /\ Instr.to \in DOMAIN Native
          BY <4>1 DEF CallNative, Callable
        <5>2. r.cost = n
          OBVIOUS
        <5>3. Native[Instr.to].cpu \in Nat
          BY <5>1, CodeAssumption
        <5> HIDE DEF r
        <5>4. r.cost \in Nat
          BY SMTT(40), <4>0, <5>2, <5>3
        <5> QED
          BY <5>1, <5>4
      <4>2. CASE CallRefused
        <5>1. CallError(Instr.to) \in Nat
          BY SMTT(40), <4>0 DEF CallError
        <5> QED
          BY <4>2, <5>1 DEF CallRefused
      <4> QED
        BY <2>2, <4>1, <4>2
    <3>2. Fine(AnsweredFrame(f, r))
      BY <1>1, <1>2, <3>1, AnsweredOK
    <3> QED
      BY SMTT(40), <1>1, <3>1, <3>2, AnsweredTop
  <2>3. CASE Thrown
    <3> DEFINE c == Charging(f, Instr.gas)
    <3>1. Instr.op = "throw" /\ frames' = Uncaught(Charged, "failed")
      BY <2>3 DEF Thrown
    <3>2. Fine(c) /\ Charged = [frames EXCEPT ![Top] = c]
      BY <1>3, <3>1
    <3> HIDE DEF c
    <3>3. Charged \in Seq(Frame) /\ Charged # <<>> /\ Len(Charged) = Top /\ Charged[Top] = c
      BY SMTT(40), <1>1, <3>2
    <3>4. frames' = [Charged EXCEPT ![Top] = Ended(c, "failed")]
      BY <3>1, <3>3, UncaughtTop
    <3>5. frames' = [frames EXCEPT ![Top] = Ended(c, "failed")]
      BY <1>1, <3>2, <3>4
    <3>6. Fine(Ended(c, "failed"))
      BY <3>2, EndedFrame
    <3> QED
      BY <3>5, <3>6
  <2>4. CASE Iterate
    BY <1>3, <2>4 DEF Iterate
  <2>5. CASE Finished
    <3>1. CASE Instr.result = "bad"
      BY SMTT(40), <1>1, <2>5, <3>1, UncaughtTop, EndedFrame DEF Finished
    <3>2. CASE Instr.result # "bad"
      <4> DEFINE g == [f EXCEPT !.result = Instr.result, !.isDone = TRUE, !.thread = "ended"]
      <4>1. PICK v \in Result : v = Instr.result
        BY <1>2
      <4>2. g = [f EXCEPT !.result = v, !.isDone = TRUE, !.thread = "ended"]
        BY <4>1
      <4>3. frames' = [frames EXCEPT ![Top] = g]
        BY <1>1, <2>5, <3>2 DEF Finished
      <4>4. Fine(g)
        BY <1>1, <4>1, <4>2 DEF Frame, Thread, PcOK
      <4> QED
        BY <4>3, <4>4
    <3> QED
      BY <3>1, <3>2
  <2> QED
    BY <2>1, <2>2, <2>3, <2>4, <2>5
<1>5. Becomes(Top, g)
  BY SMTT(40), <1>1, <1>4 DEF Becomes
<1> QED
  BY <1>1, <1>5, Becoming DEF SandboxInv

LEMMA FreshFrame ==
  ASSUME NEW c \in DOMAIN Code
  PROVE  /\ Fresh(c) \in Frame /\ PcOK(Fresh(c)) /\ Fresh(c).contract = c
         /\ Fresh(c).poll = "vm" /\ Fresh(c).thread = "none"
<1>1. NoRet \in Answers
  BY DEF NoRet, Answers
<1>2. 0 \in Nat /\ 1 \in Nat /\ 0 \in Int
  BY SMTT(40)
<1>3. "" \in Result
  BY DEF Result
<1>4. FALSE \in BOOLEAN
  OBVIOUS
<1>5. Fresh(c) \in Frame
  BY <1>1, <1>2, <1>3, <1>4 DEF Fresh, Frame, Thread
<1>6. /\ Fresh(c).pc = 1 /\ Fresh(c).contract = c
      /\ Fresh(c).poll = "vm" /\ Fresh(c).thread = "none"
  BY DEF Fresh
<1>7. 1 \in 1..Len(Code[c])
  BY SMTT(40), CodeAssumption
<1> QED
  BY <1>5, <1>6, <1>7 DEF PcOK

LEMMA CallScriptStep ==
  ASSUME SandboxInv, Top > 0, frames[Top].thread = "run", idle' = idle, CallScript
  PROVE  FramesOK' /\ frames' # <<>>
<1> DEFINE f == frames[Top]
           g == [f EXCEPT !.thread = "calling"]
           h == Fresh(Instr.to)
<1>1. /\ Top \in 1..Len(frames) /\ Top = Len(frames)
      /\ f \in Frame /\ PcOK(f) /\ frames \in Seq(Frame)
  <2>1. FramesOK /\ frames \in Seq(Frame)
    BY DEF SandboxInv, FramesOK
  <2> QED
    BY <2>1, TopFrame
<1>2. /\ Instr.op = "call" /\ Instr.to \in DOMAIN Code /\ Top + 1 <= MaxStack
      /\ Instr = Code[f.contract][f.pc]
      /\ frames' = Append([frames EXCEPT ![Top] = g], h)
  <2>1. frames' = Append([frames EXCEPT ![Top].thread = "calling"], h)
    BY DEF CallScript
  <2>2. [frames EXCEPT ![Top].thread = "calling"] = [frames EXCEPT ![Top] = g]
    BY <1>1
  <2> QED
    BY <2>1, <2>2 DEF CallScript, Callable, Instr
<1>3. /\ g \in Frame /\ g.pc = f.pc /\ g.contract = f.contract /\ g.poll = f.poll
      /\ g.thread = "calling"
  BY <1>1 DEF Frame, Thread
<1>4. h \in Frame /\ PcOK(h) /\ h.contract = Instr.to /\ h.poll = "vm"
  BY <1>2, FreshFrame
<1>5. PcOK(g)
  BY <1>1, <1>2, <1>3 DEF PcOK
<1> HIDE DEF g, h
<1>6. /\ frames' \in Seq(Frame) /\ Len(frames') = Top + 1
      /\ \A j \in 1..(Top + 1) :
           frames'[j] = IF j = Top + 1 THEN h ELSE IF j = Top THEN g ELSE frames[j]
  BY SMTT(40), <1>1, <1>2, <1>3, <1>4
<1>7. \A j \in 1..(Top + 1) : PcOK(frames'[j]) /\ (j < Top + 1 => frames'[j].thread = "calling")
  BY SMTT(40), <1>1, <1>3, <1>4, <1>5, <1>6 DEF SandboxInv, FramesOK
<1>8. InUse(frames') = InUse(frames)
  BY SMTT(40), <1>1, <1>3, <1>4, <1>6 DEF InUse
<1> QED
  BY SMTT(40), <1>1, <1>2, <1>6, <1>7, <1>8 DEF SandboxInv, FramesOK

-----------------------------------------------------------------------------
(* Every step of the sandboxes keeps them well-formed. *)

LEMMA SandboxStep ==
  ASSUME SandboxInv, SandboxNext
  PROVE  SandboxInv' /\ UNCHANGED gas_limit /\ (frames = <<>> => UNCHANGED <<frames, cache, ret>>)
<1>1. CASE GetRunVM
  <2>1. FramesOK'
    BY <1>1, GetRunVMStep
  <2> QED
    BY <1>1, <2>1, TopFrame DEF GetRunVM, SandboxInv, hostVars
<1>2. CASE Recycle
  <2>1. FramesOK'
    BY <1>2, RecycleStep
  <2> QED
    BY <1>2, <2>1 DEF Recycle, SandboxInv, hostVars
<1>3. CASE Poll
  <2>1. PICK i \in 1..Top : Look(i) \/ GasCheck(i) \/ TimeCheck(i)
    BY <1>3 DEF Poll, PollAt
  <2>2. FramesOK'
    BY <2>1, PollStep
  <2>3. UNCHANGED <<hostVars, now, idle, ret>> /\ frames # <<>>
    <3>1. UNCHANGED <<hostVars, now, idle, ret>>
      BY <2>1 DEF Look, GasCheck, TimeCheck
    <3>2. 1..Top # {}
      BY <2>1
    <3>3. frames = <<>> => 1..Top = {}
      BY SMTT(40) DEF Top
    <3> QED
      BY <3>1, <3>2, <3>3
  <2> QED
    BY <2>2, <2>3 DEF SandboxInv, hostVars
<1>4. CASE TakeLock \/ Preload \/ resetSandbox \/ Terminated
  <2>1. FramesOK'
    BY <1>4, ThreadStep
  <2>2. UNCHANGED <<hostVars, now, idle, ret>> /\ frames # <<>>
    BY <1>4, TopFrame DEF TakeLock, Preload, resetSandbox, Terminated, SandboxInv
  <2> QED
    BY <2>1, <2>2 DEF SandboxInv, hostVars
<1>5. CASE RealExecute
  <2>1. Top > 0 /\ frames[Top].thread = "run" /\ UNCHANGED <<now, idle, ret>>
    BY <1>5 DEF RealExecute
  <2>2. frames # <<>> /\ frames[Top] \in Frame
    BY <2>1, TopFrame DEF SandboxInv
  <2>3. FramesOK'
    BY <1>5, <2>1, InstrStep, CallScriptStep DEF RealExecute
  <2>4. IsFiniteSet(cache') /\ receipts' \in Seq(DOMAIN Code) /\ deadline' \in Int
        /\ UNCHANGED gas_limit
    <3>0. frames[Top].contract \in DOMAIN Code
      BY <2>2 DEF Frame
    <3>1. \A x : IsFiniteSet(cache \cup {x})
      BY FS_AddElement DEF SandboxInv
    <3>2. CASE Charge
      <4>1. cache' = cache \/ cache' = cache \cup {Instr.key}
        BY <3>2 DEF Charge
      <4>2. receipts' = receipts \/ receipts' = Append(receipts, frames[Top].contract)
        BY <3>2 DEF Charge
      <4>3. receipts' \in Seq(DOMAIN Code)
        BY SMTT(40), <3>0, <4>2 DEF SandboxInv
      <4> QED
        BY <3>1, <3>2, <4>1, <4>3 DEF Charge, SandboxInv
    <3>3. CASE CallScript
      BY SMTT(40), <3>3 DEF CallScript, Hurry, SandboxInv
    <3>4. CASE CallNative
      <4>1. /\ cache' = cache \cup Native[Instr.to].keys /\ deadline' = deadline - 1
            /\ Instr.to \in DOMAIN Native /\ UNCHANGED <<receipts, gas_limit>>
        BY <3>4 DEF CallNative, Callable, Hurry
      <4>2. IsFiniteSet(cache')
        BY <4>1, CodeAssumption, FS_Union DEF SandboxInv
      <4> QED
        BY SMTT(40), <4>1, <4>2 DEF SandboxInv
    <3>5. CASE CallRefused \/ Thrown \/ Iterate \/ Finished
      BY <3>5 DEF CallRefused, Thrown, Iterate, Finished, hostVars, SandboxInv
    <3> QED
      BY <1>5, <3>2, <3>3, <3>4, <3>5 DEF RealExecute
  <2> QED
    BY <2>1, <2>2, <2>3, <2>4 DEF SandboxInv
<1>6. CASE Leave
  <2>1. FramesOK' /\ ret' \in Answers
    BY <1>6, LeaveStep
  <2>2. UNCHANGED <<hostVars, now, idle>> /\ frames # <<>>
    BY <1>6, TopFrame DEF Leave, SandboxInv
  <2> QED
    BY <2>1, <2>2 DEF SandboxInv, hostVars
<1> QED
  BY <1>1, <1>2, <1>3, <1>4, <1>5, <1>6 DEF SandboxNext, Script

-----------------------------------------------------------------------------
(* The transaction *)

\* The gas that the limit of the transaction stands for.
Budget == tx.GasLimit \div tx.GasRatio

TxReceipt == [code : Codes, gas : Nat, ram : Nat, returns : Seq(STRING), receipts : Seq(DOMAIN Code)]

Stages == {"idle", "dropped", "fatal", "action", "running", "run", "returned",
           "produced", "accepted", "refused"}

\* What AllOrNothing asks of a transaction that was paid for.
Whole ==
  IF tr.code = "success" THEN Len(tr.returns) = Len(tx.actions)
                         ELSE cache = {} /\ tr.returns = <<>> /\ tr.receipts = <<>>

\* No script runs outside an action, and what is left of the gas and what is paid
\* add up to the budget as long as the actions succeed.
TxInv ==
  /\ tx \in Txs /\ stage \in Stages /\ paid \in Nat /\ vmGasLimit \in Int
  /\ tr \in TxReceipt
  /\ stage # "running" => frames = <<>> /\ ret = NoRet
  /\ stage = "running" /\ ret # NoRet => frames = <<>>
  /\ stage \in {"action", "running"} =>
       /\ vmGasLimit \in Nat /\ gas_limit = vmGasLimit /\ paid + vmGasLimit = Budget
       /\ k \in 1..Len(tx.actions)
       /\ tr.code = "success" /\ Len(tr.returns) = k - 1
  /\ stage = "run" => paid <= Budget /\ Whole
  /\ stage \in {"produced", "accepted"} => Whole
  /\ FatalOnlyByAuthCharge

IInv == SandboxInv /\ TxInv

LEMMA Division ==
  ASSUME NEW a \in Nat, NEW b \in Nat \ {0}
  PROVE  a \div b \in Nat /\ (a \div b) * b <= a /\ a < (a \div b + 1) * b
  BY SMTT(40)

LEMMA Products ==
  ASSUME NEW p \in Int, NEW q \in Int, NEW b \in Nat, p <= q
  PROVE  p * b <= q * b
  BY SMTT(40)

LEMMA TxTypes ==
  ASSUME NEW t \in Txs
  PROVE  /\ t.GasLimit \in Nat /\ t.GasRatio \in Nat \ {0} /\ t.size \in Nat
         /\ t.auth \in Nat /\ t.actions \in Seq(STRING)
         /\ t.GasLimit \div t.GasRatio \in Nat
         /\ (t.GasLimit \div t.GasRatio) * t.GasRatio <= t.GasLimit
         /\ t.GasLimit < (t.GasLimit \div t.GasRatio + 1) * t.GasRatio
<1>1. /\ t.GasLimit \in Nat /\ t.GasRatio \in Nat \ {0} /\ t.size \in Nat
      /\ t.auth \in Nat /\ t.actions \in Seq(STRING)
  BY TxAssumption
<1> QED
  BY <1>1, Division

LEMMA EmptyReceiptOK ==
  EmptyReceipt \in TxReceipt /\ EmptyReceipt.code = "success" /\ Len(EmptyReceipt.returns) = 0
  BY SMTT(40) DEF EmptyReceipt, TxReceipt, Codes

\* PrepareTx: the only way to the assertion of Run is a limit that the division
\* rounds down to the charges for size and accounts.
LEMMA BeginStep ==
  ASSUME IInv, NEW n, NEW time \in Nat, stage \in {"idle", "produced"}, Begin(n, time)
  PROVE  IInv'
<1>1. /\ tx \in Txs /\ tx' = tx /\ frames = <<>> /\ frames' = frames /\ ret = NoRet
      /\ deadline' \in Int /\ now' \in Nat /\ now' = now /\ idle' = idle /\ ret' = ret
      /\ cache' = {} /\ receipts' = <<>>
  BY SMTT(40) DEF Begin, IInv, TxInv, SandboxInv
<1>2. SandboxInv'
  <2>1. IsFiniteSet(cache')
    BY <1>1, FS_EmptySet
  <2>2. receipts' \in Seq(DOMAIN Code)
    BY SMTT(40), <1>1
  <2>3. FramesOK'
    BY <1>1 DEF IInv, SandboxInv, FramesOK
  <2> QED
    BY <1>1, <2>1, <2>2, <2>3 DEF IInv, SandboxInv
<1> DEFINE b == tx.GasLimit \div tx.GasRatio
           c == tx.size + tx.auth
<1>3. /\ paid' = c /\ vmGasLimit' = b - c /\ gas_limit' = vmGasLimit' /\ k' = 1
      /\ tr' = EmptyReceipt /\ Budget' = b
      /\ \/ stage' \in {"dropped", "refused"}
         \/ /\ ~(tx.size * tx.GasRatio >= tx.GasLimit)
            /\ stage' = IF vmGasLimit' <= 0 THEN "fatal"
                        ELSE IF tx.actions = <<>> THEN "run" ELSE "action"
  BY <1>1 DEF Begin, Budget, Rejected
<1>4. /\ tx.size \in Nat /\ c \in Nat /\ b \in Nat /\ tx.actions \in Seq(STRING)
      /\ tx.GasRatio \in Nat /\ tx.GasLimit \in Nat /\ tx.GasLimit < (b + 1) * tx.GasRatio
  BY SMTT(40), <1>1, TxTypes
<1>5. stage' = "fatal" => /\ tx.size * tx.GasRatio < tx.GasLimit
                          /\ tx.GasLimit < (tx.size + tx.auth + 1) * tx.GasRatio
  <2> SUFFICES ASSUME stage' = "fatal"
               PROVE  /\ tx.size * tx.GasRatio < tx.GasLimit
                      /\ tx.GasLimit < (c + 1) * tx.GasRatio
    OBVIOUS
  <2> HIDE DEF b, c
  <2>1. /\ ~(tx.size * tx.GasRatio >= tx.GasLimit) /\ vmGasLimit' <= 0
    BY <1>3
  <2>2. b + 1 <= c + 1
    BY SMTT(40), <1>3, <1>4, <2>1
  <2>3. (b + 1) * tx.GasRatio <= (c + 1) * tx.GasRatio
    BY SMTT(40), <1>4, <2>2, Products
  <2>4. (b + 1) * tx.GasRatio \in Int /\ (c + 1) * tx.GasRatio \in Int /\ tx.size * tx.GasRatio \in Int
    BY SMTT(40), <1>4
  <2> QED
    BY SMTT(40), <1>4, <2>1, <2>3, <2>4
<1> HIDE DEF b, c
<1>6. stage' \in {"run", "action"} => vmGasLimit' > 0
  BY SMTT(40), <1>3, <1>4
<1>7. TxInv'
  <2>1. /\ tx' \in Txs /\ stage' \in Stages /\ paid' \in Nat /\ vmGasLimit' \in Int
        /\ tr' \in TxReceipt /\ frames' = <<>> /\ ret' = NoRet
        /\ stage' \in {"dropped", "refused", "fatal", "run", "action"}
    BY SMTT(40), <1>1, <1>3, <1>4, EmptyReceiptOK DEF Stages
  <2>2. stage' = "action" =>
           /\ vmGasLimit' \in Nat /\ gas_limit' = vmGasLimit' /\ paid' + vmGasLimit' = Budget'
           /\ k' \in 1..Len(tx'.actions)
           /\ tr'.code = "success" /\ Len(tr'.returns) = k' - 1
    BY SMTT(40), <1>1, <1>3, <1>4, <1>6, EmptyReceiptOK
  <2>3. stage' = "run" => paid' <= Budget' /\ Whole'
    BY SMTT(40), <1>1, <1>3, <1>4, <1>6, EmptyReceiptOK DEF Whole
  <2>4. FatalOnlyByAuthCharge'
    BY <1>1, <1>5 DEF FatalOnlyByAuthCharge
  <2> QED
    BY <2>1, <2>2, <2>3, <2>4 DEF TxInv
<1> QED
  BY <1>2, <1>7 DEF IInv

\* runAction leaves the transaction as it is.
LEMMA RunStep ==
  ASSUME IInv, RunScript \/ RunNative \/ RunMissing
  PROVE  IInv'
<1>1. /\ stage = "action" /\ stage' = "running" /\ frames = <<>> /\ ret = NoRet
      /\ now' = now /\ idle' = idle
      /\ UNCHANGED <<receipts, gas_limit, node, tx, k, limit, vmGasLimit, paid, tr, produced>>
      /\ gas_limit \in Nat
  BY DEF RunScript, RunNative, RunMissing, IInv, TxInv, hostVars
<1>2. deadline' \in Int
  <2>1. deadline' = deadline - 1 \/ deadline' = deadline
    BY DEF RunScript, RunNative, RunMissing, Hurry, hostVars
  <2> QED
    BY SMTT(40), <2>1 DEF IInv, SandboxInv
<1>3. IsFiniteSet(cache')
  <2>1. \/ cache' = cache
        \/ Action \in DOMAIN Native /\ cache' = cache \cup Native[Action].keys
    BY DEF RunScript, RunNative, RunMissing, hostVars
  <2>2. Action \in DOMAIN Native => IsFiniteSet(cache \cup Native[Action].keys)
    BY CodeAssumption, FS_Union DEF IInv, SandboxInv
  <2> QED
    BY <2>1, <2>2 DEF IInv, SandboxInv
<1>4. FramesOK' /\ ret' \in Answers /\ (ret' # NoRet => frames' = <<>>)
  <2>1. CASE RunScript
    <3> DEFINE h == Fresh(Action)
    <3>1. frames' = <<h>> /\ ret' = ret /\ Action \in DOMAIN Code
      BY <2>1 DEF RunScript
    <3>2. h \in Frame /\ PcOK(h) /\ h.poll = "vm"
      BY <3>1, FreshFrame
    <3> HIDE DEF h
    <3>3. /\ frames' \in Seq(Frame) /\ Len(frames') = 1 /\ frames'[1] = h
      BY SMTT(40), <3>1, <3>2
    <3>4. InUse(frames') = {} /\ InUse(frames) = {}
      BY SMTT(40), <1>1, <3>2, <3>3 DEF InUse
    <3>5. \A i \in 1..Len(frames') : PcOK(frames'[i]) /\ ~(i < Len(frames'))
      BY SMTT(40), <3>2, <3>3
    <3>6. 1 <= MaxStack
      BY SMTT(40), CostAssumption
    <3>7. FramesOK'
      BY <1>1, <3>3, <3>4, <3>5, <3>6 DEF IInv, SandboxInv, FramesOK
    <3> QED
      BY <1>1, <3>1, <3>7 DEF IInv, SandboxInv
  <2>2. CASE RunNative
    <3>1. ret' = LoadAndCall(Action) /\ Action \in DOMAIN Native /\ frames' = frames
      BY <2>2 DEF RunNative
    <3>2. Native[Action].cpu + Native[Action].net \in Nat
      BY SMTT(40), <3>1, CodeAssumption
    <3>3. ret' \in Answers
      BY <3>1, <3>2 DEF LoadAndCall, Answers
    <3> QED
      BY <1>1, <3>1, <3>3 DEF IInv, SandboxInv, FramesOK
  <2>3. CASE RunMissing
    <3>1. ret' = [err |-> "failed", cost |-> GetCost] /\ frames' = frames
      BY <2>3 DEF RunMissing
    <3>2. ret' \in Answers
      BY <3>1, CostAssumption DEF Answers
    <3> QED
      BY <1>1, <3>1, <3>2 DEF IInv, SandboxInv, FramesOK
  <2> QED
    BY <2>1, <2>2, <2>3
<1>5. SandboxInv'
  BY <1>1, <1>2, <1>3, <1>4 DEF IInv, SandboxInv
<1>6. TxInv'
  BY <1>1, <1>4 DEF IInv, TxInv, Stages, FatalOnlyByAuthCharge, Budget
<1> QED
  BY <1>5, <1>6 DEF IInv

\* An action that succeeds is charged what it cost, which was left; one that fails
\* takes the writes of the others with it and costs no more than was left.
LEMMA SettleStep ==
  ASSUME IInv, Settle
  PROVE  IInv'
<1>1. /\ stage = "running" /\ ret # NoRet /\ frames = <<>> /\ frames' = frames /\ ret' = NoRet
      /\ UNCHANGED <<receipts, deadline, now, idle, node, tx, limit, produced>>
      /\ paid' = paid + ActionCharge
  BY DEF Settle, IInv, TxInv
<1>2. /\ ret.cost \in Nat /\ paid \in Nat /\ vmGasLimit \in Nat /\ gas_limit = vmGasLimit
      /\ paid + vmGasLimit = Budget /\ k \in 1..Len(tx.actions) /\ tx \in Txs
      /\ tr \in TxReceipt /\ tr.code = "success" /\ Len(tr.returns) = k - 1
  BY <1>1 DEF IInv, SandboxInv, TxInv, Answers
<1>3. tx.actions \in Seq(STRING) /\ Action \in STRING /\ Budget \in Nat
  <2>1. tx.actions \in Seq(STRING) /\ Budget \in Nat
    BY <1>2, TxTypes DEF Budget
  <2> QED
    BY SMTT(40), <1>2, <2>1 DEF Action
<1>4. ActionCharge \in Nat /\ ActionCharge <= vmGasLimit
  <2>1. ActionCost \in Nat
    <3>1. RetCost \in Nat
      BY TxAssumption
    <3>2. ActionCost = ret.cost + RetCost \/ ActionCost = ret.cost + 0
      BY DEF ActionCost
    <3> QED
      BY SMTT(40), <1>2, <3>1, <3>2
  <2>2. ~OutOfGas => ActionCost <= vmGasLimit
    BY SMTT(40), <1>2, <2>1 DEF OutOfGas
  <2> QED
    BY SMTT(40), <1>2, <2>1, <2>2 DEF ActionCharge
<1>5. NoRet \in Answers
  BY DEF NoRet, Answers
<1>6. CASE ActionCode = "success"
  <2>1. /\ tr' = [tr EXCEPT !.returns = Append(@, Action), !.receipts = receipts]
        /\ vmGasLimit' = vmGasLimit - ActionCharge /\ gas_limit' = vmGasLimit'
        /\ k' = k + 1 /\ cache' = cache
        /\ stage' = IF k = Len(tx.actions) THEN "run" ELSE "action"
    BY <1>6 DEF Settle
  <2>2. Append(tr.returns, Action) \in Seq(STRING) /\ Len(Append(tr.returns, Action)) = k
    <3>1. tr.returns \in Seq(STRING)
      BY <1>2 DEF TxReceipt
    <3> QED
      BY SMTT(40), <1>2, <1>3, <3>1
  <2>3. receipts \in Seq(DOMAIN Code)
    BY DEF IInv, SandboxInv
  <2>4. /\ tr' \in TxReceipt /\ tr'.code = "success" /\ Len(tr'.returns) = k
    <3>1. PICK v \in Seq(STRING) : v = Append(tr.returns, Action) /\ Len(v) = k
      BY <2>2
    <3>2. tr' = [tr EXCEPT !.returns = v, !.receipts = receipts]
      BY <2>1, <3>1
    <3> QED
      BY <1>2, <2>3, <3>1, <3>2 DEF TxReceipt
  <2>5. /\ paid' \in Nat /\ vmGasLimit' \in Nat /\ paid' + vmGasLimit' = Budget
        /\ paid' <= Budget
    BY SMTT(40), <1>1, <1>2, <1>3, <1>4, <2>1
  <2>6. SandboxInv'
    BY <1>1, <1>5, <2>1 DEF IInv, SandboxInv, FramesOK
  <2>7. Budget' = Budget
    BY <1>1 DEF Budget
  <2>8. Len(tx.actions) \in Nat
    BY SMTT(40), <1>3
  <2>9. TxInv'
    <3>1. CASE k = Len(tx.actions)
      BY SMTT(40), <1>1, <1>2, <2>1, <2>4, <2>5, <2>7, <3>1 DEF TxInv, Stages, Whole, FatalOnlyByAuthCharge
    <3>2. CASE k # Len(tx.actions)
      <4>1. k' \in 1..Len(tx.actions) /\ k = k' - 1 /\ stage' = "action"
        BY SMTT(40), <1>2, <2>1, <2>8, <3>2
      <4> QED
        BY SMTT(40), <1>1, <1>2, <2>1, <2>4, <2>5, <2>7, <4>1 DEF TxInv, Stages, FatalOnlyByAuthCharge
    <3> QED
      BY <3>1, <3>2
  <2> QED
    BY <2>6, <2>9 DEF IInv
<1>7. CASE ActionCode # "success"
  <2>1. /\ tr' = [Cleared(tr) EXCEPT !.code = ActionCode]
        /\ cache' = {} /\ stage' = "run" /\ UNCHANGED <<vmGasLimit, gas_limit, k>>
    BY <1>7 DEF Settle
  <2>2. ActionCode \in Codes
    BY DEF ActionCode, Codes
  <2>3. <<>> \in Seq(STRING) /\ <<>> \in Seq(DOMAIN Code)
    BY SMTT(40)
  <2>4. /\ tr' \in TxReceipt /\ tr'.code # "success" /\ tr'.returns = <<>> /\ tr'.receipts = <<>>
    BY <1>2, <1>7, <2>1, <2>2, <2>3 DEF Cleared, TxReceipt
  <2>5. paid' \in Nat /\ paid' <= Budget
    BY SMTT(40), <1>1, <1>2, <1>3, <1>4
  <2>6. IsFiniteSet(cache')
    BY <2>1, FS_EmptySet
  <2>7. SandboxInv'
    BY <1>1, <1>5, <2>6 DEF IInv, SandboxInv, FramesOK
  <2>8. Budget' = Budget
    BY <1>1 DEF Budget
  <2>9. TxInv'
    BY SMTT(40), <1>1, <1>2, <2>1, <2>4, <2>5, <2>8 DEF TxInv, Stages, Whole, FatalOnlyByAuthCharge
  <2> QED
    BY <2>7, <2>9 DEF IInv
<1> QED
  BY <1>6, <1>7

\* PayCost: the assertion on the limit holds, and a publisher that cannot pay keeps
\* no writes.
LEMMA PayCostStep ==
  ASSUME IInv, PayCost
  PROVE  IInv'
<1>1. /\ stage = "run" /\ frames = <<>> /\ frames' = frames /\ ret = NoRet /\ ret' = ret
      /\ UNCHANGED <<receipts, gas_limit, deadline, now, idle, tx, k, vmGasLimit, paid>>
      /\ tr' = Paid.tr /\ cache' = Paid.keys
      /\ tx \in Txs /\ paid \in Nat /\ paid <= Budget /\ Whole /\ tr \in TxReceipt
  BY DEF PayCost, IInv, TxInv
<1>2. /\ tx.GasLimit \in Nat /\ tx.GasRatio \in Nat /\ Budget \in Nat
      /\ Budget * tx.GasRatio <= tx.GasLimit
  BY <1>1, TxTypes DEF Budget
<1>3. paid * tx.GasRatio <= tx.GasLimit /\ paid * tx.GasRatio \in Nat /\ tx.GasRatio * paid \in Nat
  <2>1. paid * tx.GasRatio <= Budget * tx.GasRatio
    BY SMTT(40), <1>1, <1>2, Products
  <2>2. paid * tx.GasRatio \in Nat /\ Budget * tx.GasRatio \in Nat
    BY SMTT(40), <1>1, <1>2
  <2>3. tx.GasRatio * paid \in Nat
    BY SMTT(40), <1>1, <1>2
  <2> QED
    BY SMTT(40), <1>2, <2>1, <2>2, <2>3
<1>4. stage' \in {"produced", "accepted", "refused", "dropped"}
  <2>1. ~(tx.GasLimit < paid * tx.GasRatio)
    BY SMTT(40), <1>2, <1>3
  <2> QED
    BY <2>1 DEF PayCost, Rejected
<1>5. IsFiniteSet(cache) /\ Cardinality(cache) \in Nat /\ Cardinality({}) = 0 /\ IsFiniteSet({})
  BY FS_CardinalityType, FS_EmptySet DEF IInv, SandboxInv
<1> DEFINE g == tx.GasRatio * paid
<1>6. tr' \in TxReceipt /\ IsFiniteSet(cache') /\ Whole'
  <2>1. CASE CanPay(cache)
    <3>1. /\ tr' = [tr EXCEPT !.code = tr.code, !.gas = g, !.ram = Cardinality(cache)]
          /\ cache' = cache
      BY <1>1, <2>1 DEF Paid
    <3>2. PICK n \in Nat, c \in Nat : n = g /\ c = Cardinality(cache)
      BY <1>3, <1>5
    <3>3. tr' = [tr EXCEPT !.code = tr.code, !.gas = n, !.ram = c]
      BY <3>1, <3>2
    <3>4. /\ tr' \in TxReceipt /\ tr'.code = tr.code /\ tr'.returns = tr.returns
          /\ tr'.receipts = tr.receipts
      BY <1>1, <3>3 DEF TxReceipt
    <3> QED
      BY <1>1, <1>5, <3>1, <3>4 DEF Whole
  <2>2. CASE ~CanPay(cache)
    <3>1. /\ tr' = [Cleared(tr) EXCEPT !.code = "balance", !.gas = g, !.ram = Cardinality({})]
          /\ cache' = {}
      BY <1>1, <2>2 DEF Paid
    <3>2. PICK n \in Nat, c \in Nat : n = g /\ c = Cardinality({})
      BY SMTT(40), <1>3, <1>5
    <3>3. tr' = [Cleared(tr) EXCEPT !.code = "balance", !.gas = n, !.ram = c]
      BY <3>1, <3>2
    <3>4. <<>> \in Seq(STRING) /\ <<>> \in Seq(DOMAIN Code)
      BY SMTT(40)
    <3>5. /\ tr' \in TxReceipt /\ tr'.code = "balance" /\ tr'.returns = <<>> /\ tr'.receipts = <<>>
      BY <1>1, <3>3, <3>4 DEF TxReceipt, Cleared, Codes
    <3> QED
      BY <1>5, <3>1, <3>5 DEF Whole
  <2> QED
    BY <2>1, <2>2
<1>7. SandboxInv'
  BY <1>1, <1>6 DEF IInv, SandboxInv, FramesOK
<1>8. TxInv'
  BY <1>1, <1>4, <1>6 DEF IInv, TxInv, Stages, FatalOnlyByAuthCharge
<1> QED
  BY <1>7, <1>8 DEF IInv

LEMMA OtherStep ==
  ASSUME IInv, PutBack \/ Tick \/ Sandboxes \/ UNCHANGED vars
  PROVE  IInv'
<1>1. CASE PutBack
  <2>1. /\ stage = "run" /\ stage' = "returned" /\ cache' = {}
        /\ UNCHANGED <<frames, receipts, gas_limit, deadline, now, idle, ret,
                       node, tx, k, limit, vmGasLimit, paid, tr, produced>>
    BY <1>1 DEF PutBack
  <2>2. SandboxInv'
    BY <2>1, FS_EmptySet DEF IInv, SandboxInv, FramesOK
  <2>3. TxInv'
    BY <2>1 DEF IInv, TxInv, Stages, FatalOnlyByAuthCharge
  <2> QED
    BY <2>2, <2>3 DEF IInv
<1>2. CASE Tick
  <2>1. UNCHANGED <<frames, hostVars, idle, ret, txVars>> /\ now' = now + 1
    BY <1>2 DEF Tick
  <2>2. SandboxInv'
    BY SMTT(40), <2>1 DEF IInv, SandboxInv, FramesOK, hostVars
  <2>3. TxInv'
    BY <2>1 DEF IInv, TxInv, FatalOnlyByAuthCharge, Whole, Budget, hostVars, txVars
  <2> QED
    BY <2>2, <2>3 DEF IInv
<1>3. CASE Sandboxes
  <2>1. SandboxInv' /\ gas_limit' = gas_limit /\ UNCHANGED txVars
        /\ (frames = <<>> => frames' = frames /\ cache' = cache /\ ret' = ret)
    BY <1>3, SandboxStep DEF IInv, Sandboxes
  <2>2. ret' # ret => frames' = <<>>
    BY <1>3 DEF Sandboxes, SandboxNext, GetRunVM, Recycle, Poll, PollAt, Look, GasCheck, TimeCheck,
                Script, TakeLock, Preload, resetSandbox, RealExecute, Terminated, Leave
  <2>3. TxInv'
    BY <2>1, <2>2 DEF IInv, TxInv, FatalOnlyByAuthCharge, Whole, Budget, txVars
  <2> QED
    BY <2>1, <2>3 DEF IInv
<1>4. CASE UNCHANGED vars
  <2>1. SandboxInv'
    BY <1>4 DEF IInv, SandboxInv, FramesOK, vars, sandboxVars
  <2>2. TxInv'
    BY <1>4 DEF IInv, TxInv, FatalOnlyByAuthCharge, Whole, Budget, vars, sandboxVars, txVars
  <2> QED
    BY <2>1, <2>2 DEF IInv
<1> QED
  BY <1>1, <1>2, <1>3, <1>4

LEMMA IInvStep ==
  ASSUME IInv, [Next]_vars
  PROVE  IInv'
<1>1. CASE Produce
  <2>1. TxTimeLimit \in Nat /\ ShortLimit \in Nat
    BY TxAssumption
  <2> QED
    BY <1>1, <2>1, BeginStep DEF Produce
<1>2. CASE Verify
  <2>1. TxTimeLimit \in Nat /\ 50 * TxTimeLimit \in Nat
    BY SMTT(40), TxAssumption
  <2>2. VerifyLimit \in Nat
    BY <2>1 DEF VerifyLimit
  <2> QED
    BY <1>2, <2>2, BeginStep DEF Verify
<1>3. CASE Run
  BY <1>3, RunStep, SettleStep DEF Run
<1>4. CASE PayCost
  BY <1>4, PayCostStep
<1>5. CASE PutBack \/ Tick \/ Sandboxes \/ UNCHANGED vars
  BY <1>5, OtherStep
<1> QED
  BY <1>1, <1>2, <1>3, <1>4, <1>5 DEF Next

LEMMA IInvInit == Init => IInv
<1> SUFFICES ASSUME Init PROVE IInv
  OBVIOUS
<1>1. /\ frames = <<>> /\ cache = {} /\ receipts = <<>> /\ deadline = 0 /\ now = 0
      /\ idle = PoolSize /\ ret = NoRet /\ stage = "idle" /\ tx \in Txs
      /\ vmGasLimit = 0 /\ paid = 0 /\ tr = EmptyReceipt
  BY DEF Init
<1>2. FramesOK
  <2>1. InUse(frames) = {}
    BY SMTT(40), <1>1 DEF InUse
  <2>2. Cardinality(InUse(frames)) = 0
    BY <2>1, FS_EmptySet
  <2> QED
    BY SMTT(40), <1>1, <2>2, CostAssumption DEF FramesOK
<1>3. ret \in Answers
  BY <1>1 DEF NoRet, Answers
<1>4. SandboxInv
  BY SMTT(40), <1>1, <1>2, <1>3, FS_EmptySet DEF SandboxInv
<1>5. TxInv
  BY SMTT(40), <1>1, EmptyReceiptOK DEF TxInv, Stages, FatalOnlyByAuthCharge
<1> QED
  BY <1>4, <1>5 DEF IInv

LEMMA IInvariant == Spec => []IInv
  BY IInvInit, IInvStep, PTL DEF Spec

-----------------------------------------------------------------------------
(* Theorems *)

\* The stack of sandboxes is well-formed and every call but the innermost waits, as
\* many virtual machines as the pool has are in the channel, in use or being made
\* anew, and the answers, codes and gas are what the code declares: for every set
\* of contracts, stack height and pool, whenever the two threads of each sandbox run.
THEOREM ITypeOKTheorem == Spec => []ITypeOK
<1>1. IInv => ITypeOK
  <2> SUFFICES ASSUME IInv PROVE ITypeOK
    OBVIOUS
  <2>1. frames \in Seq(Frame) /\ Len(frames) <= MaxStack /\ Top = Len(frames)
    BY DEF IInv, SandboxInv, FramesOK, Top
  <2>2. ASSUME NEW i \in 1..Top
        PROVE  /\ frames[i].poll \in {"vm", "look", "gas", "time", "join"}
               /\ frames[i].thread \in Thread
               /\ frames[i].gasUsed \in Nat /\ frames[i].gasLimit \in Nat
               /\ frames[i].res \in Answers
               /\ i < Top => frames[i].thread = "calling"
    <3>1. frames[i] \in Frame
      BY SMTT(40), <2>1
    <3>2. i < Top => frames[i].thread = "calling"
      BY <2>1 DEF IInv, SandboxInv, FramesOK
    <3> QED
      BY <3>1, <3>2 DEF Frame
  <2>3. idle \in 0..PoolSize /\ Recycling >= 0
    <3> DEFINE c == Cardinality(InUse(frames))
    <3>1. c \in Nat /\ idle \in Nat /\ idle + c <= PoolSize /\ PoolSize \in Nat
      BY SMTT(40), <2>1, InUseFinite, CostAssumption DEF IInv, SandboxInv, FramesOK
    <3>2. Recycling = PoolSize - idle - c
      BY DEF Recycling, InUse, Top
    <3> HIDE DEF c
    <3> QED
      BY SMTT(40), <3>1, <3>2
  <2>4. ret \in Answers /\ tr.code \in Codes /\ paid \in Nat /\ vmGasLimit \in Int
    BY DEF IInv, SandboxInv, TxInv, TxReceipt
  <2> QED
    BY <2>1, <2>2, <2>3, <2>4 DEF ITypeOK
<1> QED
  BY <1>1, IInvariant, PTL

\* For every transaction, contract and price, however the scripts end: what a
\* transaction pays for never exceeds its gas limit, so that the assertion of
\* Isolator.PayCost cannot fail, and that of Run fails only for a limit above the cost
\* of the size that does not cover the charge of checkAuth and one unit of gas more.
THEOREM FatalOnlyByAuthChargeTheorem == Spec => []FatalOnlyByAuthCharge
<1>1. IInv => FatalOnlyByAuthCharge
  BY DEF IInv, TxInv
<1> QED
  BY <1>1, IInvariant, PTL

\* A transaction in a block has run all its actions, or has left no write, no
\* returned value and no receipt behind.
THEOREM AllOrNothingTheorem == Spec => []AllOrNothing
<1>1. IInv => AllOrNothing
  BY DEF IInv, TxInv, AllOrNothing, Whole
<1> QED
  BY <1>1, IInvariant, PTL
=============================================================================
