-------------------------- MODULE DnsGuard_proofs --------------------------
(***************************************************************************)
(* What dns-guard's steps preserve for every set of processes, servers,    *)
(* checks, WAN settings and thresholds.                                    *)
(***************************************************************************)
EXTENDS DnsGuard, FiniteSetTheorems, TLAPS

-----------------------------------------------------------------------------
(* Type correctness.                                                       *)

LEMMA ConstantTypes ==
  /\ LocalIP \in Servers /\ Independent \subseteq Servers
  /\ Threshold \in Nat \ {0} /\ CountLimit \in Nat
  /\ WanChoices \subseteq Seq(Servers)
  /\ FirmwareConfs \subseteq SUBSET Servers
BY GuardAssumption DEF GuardAssumption

LEMMA BootstrapType ==
  ASSUME NEW w
  PROVE  bootstrap_dns(w) \in SUBSET Independent
BY DEF bootstrap_dns, Fresh

LEMMA ChecksType == Len(Checks) \in Nat \ {0} /\ 1 \in 1..Len(Checks)
<1>1. Checks \in Seq(STRING) /\ Len(Checks) > 0
  BY GuardAssumption DEF GuardAssumption
<1> QED BY <1>1

LEMMA IdleType ==
  ASSUME NEW r \in {"ok", "fail", "killed"}
  PROVE  Idle(r) \in ProcState
BY ChecksType DEF Idle, ProcState, Labels, Goals

\* The three ways a command's own state changes.
LEMMA GotoType ==
  ASSUME proc \in [Procs -> ProcState], NEW p \in Procs,
         NEW label \in Labels, NEW goal \in Goals, Goto(p, label, goal)
  PROVE  proc' \in [Procs -> ProcState]
<1>1. [proc[p] EXCEPT !.pc = label, !.goal = goal] \in ProcState
  BY DEF ProcState
<1>2. proc' = [proc EXCEPT ![p] = [proc[p] EXCEPT !.pc = label, !.goal = goal]]
  BY DEF Goto
<1> QED BY <1>1, <1>2

LEMMA FinishType ==
  ASSUME proc \in [Procs -> ProcState], NEW p \in Procs,
         NEW r \in {"ok", "fail", "killed"}, Finish(p, r)
  PROVE  proc' \in [Procs -> ProcState] /\ lock' = "free"
BY IdleType DEF Finish

LEMMA FieldTypes ==
  ASSUME proc \in [Procs -> ProcState], NEW p \in Procs
  PROVE  /\ proc[p].goal \in Goals
         /\ proc[p].list \in SUBSET Servers
         /\ proc[p].idx \in 1..Len(Checks)
BY DEF ProcState

LEMMA CarryType ==
  ASSUME proc \in [Procs -> ProcState], NEW p \in Procs,
         NEW label \in Labels, NEW list \in SUBSET Servers, Carry(p, label, list)
  PROVE  proc' \in [Procs -> ProcState]
<1>1. [proc[p] EXCEPT !.pc = label, !.list = list] \in ProcState
  BY DEF ProcState
<1>2. proc' = [proc EXCEPT ![p] = [proc[p] EXCEPT !.pc = label, !.list = list]]
  BY DEF Carry
<1> QED BY <1>1, <1>2

LEMMA NextCheckType ==
  ASSUME proc \in [Procs -> ProcState], NEW p \in Procs,
         proc[p].idx < Len(Checks), NextCheck(p)
  PROVE  proc' \in [Procs -> ProcState]
<1>1. proc[p].idx + 1 \in 1..Len(Checks)
  BY FieldTypes, ChecksType
<1>2. [proc[p] EXCEPT !.idx = @ + 1] \in ProcState
  BY <1>1 DEF ProcState
<1> QED BY <1>2 DEF NextCheck

\* How a record, a question to bootstrap DNS and a failed promotion end.
LEMMA AfterRecordType ==
  ASSUME TypeOK, NEW p \in Procs, AfterRecord(p)
  PROVE  /\ proc' \in [Procs -> ProcState]
         /\ lock' \in Procs \cup {"free", "orphan"}
         /\ streak' \in 0..Threshold
BY ConstantTypes, GotoType, FinishType DEF AfterRecord, TypeOK, Labels, Goals

LEMMA AfterAskType ==
  ASSUME TypeOK, NEW p \in Procs, NEW healthy \in BOOLEAN, AfterAsk(p, healthy)
  PROVE  /\ proc' \in [Procs -> ProcState]
         /\ lock' \in Procs \cup {"free", "orphan"}
         /\ streak' \in 0..Threshold
BY ConstantTypes, GotoType, FinishType DEF AfterAsk, TypeOK, Labels, Goals

LEMMA NoPromotionType ==
  ASSUME TypeOK, NEW p \in Procs, NoPromotion(p)
  PROVE  /\ proc' \in [Procs -> ProcState]
         /\ lock' \in Procs \cup {"free", "orphan"}
         /\ streak' \in 0..Threshold
BY ConstantTypes, GotoType, FinishType DEF NoPromotion, TypeOK, Labels, Goals

\* Init => TypeOK by itself.
LEMMA InitType == Init => TypeOK
<1> SUFFICES ASSUME Init PROVE TypeOK
  OBVIOUS
<1>1. proc \in [Procs -> ProcState]
  BY IdleType DEF Init
<1>2. streak \in 0..Threshold /\ healthyRuns \in 0..Threshold
      /\ count \in 0..(CountLimit + 1)
  BY ConstantTypes DEF Init
<1>3. resolv \in SUBSET Servers
  BY ConstantTypes DEF Init
<1> QED BY <1>1, <1>2, <1>3 DEF Init, TypeOK

\* TypeOK: every variable keeps its type, in particular the streak and its
\* history never pass the threshold.
THEOREM TypeCorrect == Spec => []TypeOK
<1>1. TypeOK /\ [Next]_vars => TypeOK'
  <2> SUFFICES ASSUME TypeOK, [Next]_vars PROVE TypeOK'
    OBVIOUS
  <2>0. proc \in [Procs -> ProcState]
    BY DEF TypeOK
  <2> USE <2>0, ConstantTypes, ChecksType, IdleType, BootstrapType, GotoType,
          FinishType, FieldTypes, CarryType, NextCheckType
  <2>1. ASSUME NEW p \in Procs, Run(p) PROVE TypeOK'
    <3> USE DEF Labels, Goals, files, env, hist
    <3>1. CASE Acquire(p)
      <4>1. proc' \in [Procs -> ProcState]
        BY <3>1 DEF Acquire
      <4>2. lock' \in Procs \cup {"free", "orphan"} /\ streak' \in 0..Threshold
        BY <3>1 DEF Acquire, TypeOK
      <4> QED BY <3>1, <4>1, <4>2 DEF Acquire, TypeOK
    <3>2. CASE LockTimeout(p)
      <4>1. proc' \in [Procs -> ProcState]
        BY <3>2 DEF LockTimeout
      <4>2. lock' \in Procs \cup {"free", "orphan"} /\ streak' \in 0..Threshold
        BY <3>2 DEF LockTimeout, TypeOK
      <4> QED BY <3>2, <4>1, <4>2 DEF LockTimeout, TypeOK
    <3>3. CASE AutoDispatch(p)
      <4>1. proc' \in [Procs -> ProcState]
        BY <3>3 DEF AutoDispatch
      <4>2. lock' \in Procs \cup {"free", "orphan"} /\ streak' \in 0..Threshold
        BY <3>3 DEF AutoDispatch, TypeOK
      <4> QED BY <3>3, <4>1, <4>2 DEF AutoDispatch, TypeOK
    <3>4. CASE ReadyDispatch(p)
      <4>1. proc' \in [Procs -> ProcState]
        BY <3>4 DEF ReadyDispatch
      <4>2. lock' \in Procs \cup {"free", "orphan"} /\ streak' \in 0..Threshold
        BY <3>4 DEF ReadyDispatch, TypeOK
      <4> QED BY <3>4, <4>1, <4>2 DEF ReadyDispatch, TypeOK
    <3>5. CASE ResetDispatch(p)
      <4>1. proc' \in [Procs -> ProcState]
        BY <3>5 DEF ResetDispatch
      <4>2. lock' \in Procs \cup {"free", "orphan"} /\ streak' \in 0..Threshold
        BY <3>5 DEF ResetDispatch, TypeOK
      <4> QED BY <3>5, <4>1, <4>2 DEF ResetDispatch, TypeOK
    <3>6. CASE breakglass_off(p)
      <4>1. proc' \in [Procs -> ProcState]
        BY <3>6 DEF breakglass_off
      <4>2. lock' \in Procs \cup {"free", "orphan"} /\ streak' \in 0..Threshold
        BY <3>6 DEF breakglass_off, TypeOK
      <4> QED BY <3>6, <4>1, <4>2 DEF breakglass_off, TypeOK
    <3>7. CASE show_metrics(p)
      <4>1. proc' \in [Procs -> ProcState]
        BY <3>7 DEF show_metrics
      <4>2. lock' \in Procs \cup {"free", "orphan"} /\ streak' \in 0..Threshold
        BY <3>7 DEF show_metrics, TypeOK
      <4> QED BY <3>7, <4>1, <4>2 DEF show_metrics, TypeOK
    <3>8. CASE ProbePass(p)
      <4>1. proc' \in [Procs -> ProcState]
        BY <3>8 DEF ProbePass, Capped
      <4>2. lock' \in Procs \cup {"free", "orphan"} /\ streak' \in 0..Threshold
        BY <3>8 DEF ProbePass, Capped, TypeOK
      <4> QED BY <3>8, <4>1, <4>2 DEF ProbePass, Capped, TypeOK
    <3>9. CASE ProbeFail(p)
      <4>1. proc' \in [Procs -> ProcState]
        BY <3>9 DEF ProbeFail
      <4>2. lock' \in Procs \cup {"free", "orphan"} /\ streak' \in 0..Threshold
        BY <3>9 DEF ProbeFail, TypeOK
      <4> QED BY <3>9, <4>1, <4>2 DEF ProbeFail, TypeOK
    <3>10. CASE LookAtResolver(p)
      <4>1. proc' \in [Procs -> ProcState]
        BY <3>10 DEF LookAtResolver
      <4>2. lock' \in Procs \cup {"free", "orphan"} /\ streak' \in 0..Threshold
        BY <3>10 DEF LookAtResolver, TypeOK
      <4> QED BY <3>10, <4>1, <4>2 DEF LookAtResolver, TypeOK
    <3>11. CASE IncrementStreak(p)
      <4>1. proc' \in [Procs -> ProcState]
        BY <3>11 DEF IncrementStreak, Capped
      <4>2. lock' \in Procs \cup {"free", "orphan"} /\ streak' \in 0..Threshold
        BY <3>11 DEF IncrementStreak, Capped, TypeOK
      <4> QED BY <3>11, <4>1, <4>2 DEF IncrementStreak, Capped, TypeOK
    <3>12. CASE ListBootstrap(p)
      <4>1. proc' \in [Procs -> ProcState]
        BY <3>12, AfterAskType DEF ListBootstrap
      <4>2. lock' \in Procs \cup {"free", "orphan"} /\ streak' \in 0..Threshold
        BY <3>12, AfterAskType DEF ListBootstrap, TypeOK
      <4> QED BY <3>12, <4>1, <4>2 DEF ListBootstrap, TypeOK
    <3>13. CASE AskBootstrap(p)
      <4>1. proc' \in [Procs -> ProcState]
        BY <3>13, AfterAskType DEF AskBootstrap, Answers
      <4>2. lock' \in Procs \cup {"free", "orphan"} /\ streak' \in 0..Threshold
        BY <3>13, AfterAskType DEF AskBootstrap, Answers, TypeOK
      <4> QED BY <3>13, <4>1, <4>2 DEF AskBootstrap, Answers, TypeOK
    <3>14. CASE PromoteGate(p)
      <4>1. proc' \in [Procs -> ProcState]
        BY <3>14, NoPromotionType DEF PromoteGate
      <4>2. lock' \in Procs \cup {"free", "orphan"} /\ streak' \in 0..Threshold
        BY <3>14, NoPromotionType DEF PromoteGate, TypeOK
      <4> QED BY <3>14, <4>1, <4>2 DEF PromoteGate, TypeOK
    <3>15. CASE PutLocal(p)
      <4>1. proc' \in [Procs -> ProcState]
        BY <3>15 DEF PutLocal
      <4>2. lock' \in Procs \cup {"free", "orphan"} /\ streak' \in 0..Threshold
        BY <3>15 DEF PutLocal, TypeOK
      <4> QED BY <3>15, <4>1, <4>2 DEF PutLocal, TypeOK
    <3>16. CASE breakglass_on(p)
      <4>1. proc' \in [Procs -> ProcState]
        BY <3>16 DEF breakglass_on
      <4>2. lock' \in Procs \cup {"free", "orphan"} /\ streak' \in 0..Threshold
        BY <3>16 DEF breakglass_on, TypeOK
      <4> QED BY <3>16, <4>1, <4>2 DEF breakglass_on, TypeOK
    <3>17. CASE PickBootstrap(p)
      <4>1. proc' \in [Procs -> ProcState]
        BY <3>17 DEF PickBootstrap, FallbackFails
      <4>2. lock' \in Procs \cup {"free", "orphan"} /\ streak' \in 0..Threshold
        BY <3>17 DEF PickBootstrap, FallbackFails, TypeOK
      <4> QED BY <3>17, <4>1, <4>2 DEF PickBootstrap, FallbackFails, TypeOK
    <3>18. CASE PutBootstrap(p)
      <4>1. proc' \in [Procs -> ProcState]
        BY <3>18 DEF PutBootstrap
      <4>2. lock' \in Procs \cup {"free", "orphan"} /\ streak' \in 0..Threshold
        BY <3>18 DEF PutBootstrap, TypeOK
      <4> QED BY <3>18, <4>1, <4>2 DEF PutBootstrap, TypeOK
    <3>19. CASE RecordMode(p)
      <4>1. proc' \in [Procs -> ProcState]
        BY <3>19, AfterRecordType DEF RecordMode, NewMode
      <4>2. lock' \in Procs \cup {"free", "orphan"} /\ streak' \in 0..Threshold
        BY <3>19, AfterRecordType DEF RecordMode, NewMode, TypeOK
      <4> QED BY <3>19, <4>1, <4>2 DEF RecordMode, NewMode, TypeOK
    <3>20. CASE RecordCount(p)
      <4>1. proc' \in [Procs -> ProcState]
        BY <3>20 DEF RecordCount
      <4>2. lock' \in Procs \cup {"free", "orphan"} /\ streak' \in 0..Threshold
        BY <3>20 DEF RecordCount, TypeOK
      <4> QED BY <3>20, <4>1, <4>2 DEF RecordCount, TypeOK
    <3>21. CASE RecordSince(p)
      <4>1. proc' \in [Procs -> ProcState]
        BY <3>21, AfterRecordType DEF RecordSince
      <4>2. lock' \in Procs \cup {"free", "orphan"} /\ streak' \in 0..Threshold
        BY <3>21, AfterRecordType DEF RecordSince, TypeOK
      <4> QED BY <3>21, <4>1, <4>2 DEF RecordSince, TypeOK
    <3>22. CASE ClearSince(p)
      <4>1. proc' \in [Procs -> ProcState]
        BY <3>22, AfterRecordType DEF ClearSince
      <4>2. lock' \in Procs \cup {"free", "orphan"} /\ streak' \in 0..Threshold
        BY <3>22, AfterRecordType DEF ClearSince, TypeOK
      <4> QED BY <3>22, <4>1, <4>2 DEF ClearSince, TypeOK
    <3> QED
      BY <2>1, <3>1, <3>2, <3>3, <3>4, <3>5, <3>6, <3>7, <3>8, <3>9, <3>10, <3>11, <3>12, <3>13, <3>14, <3>15, <3>16, <3>17, <3>18, <3>19, <3>20, <3>21, <3>22 DEF Run
  <2>2. ASSUME NEW p \in Procs, IoFailure(p) PROVE TypeOK'
    <3> USE DEF Labels, Goals, files, env, hist
    <3>1. CASE IncrementFails(p)
      <4>1. proc' \in [Procs -> ProcState]
        BY <3>1 DEF IncrementFails
      <4>2. lock' \in Procs \cup {"free", "orphan"} /\ streak' \in 0..Threshold
        BY <3>1 DEF IncrementFails, TypeOK
      <4> QED BY <3>1, <4>1, <4>2 DEF IncrementFails, TypeOK
    <3>2. CASE AskRecordFails(p)
      <4>1. proc' \in [Procs -> ProcState]
        BY <3>2, AfterAskType DEF AskRecordFails, Answers
      <4>2. lock' \in Procs \cup {"free", "orphan"} /\ streak' \in 0..Threshold
        BY <3>2, AfterAskType DEF AskRecordFails, Answers, TypeOK
      <4> QED BY <3>2, <4>1, <4>2 DEF AskRecordFails, Answers, TypeOK
    <3>3. CASE PutLocalFails(p)
      <4>1. proc' \in [Procs -> ProcState]
        BY <3>3, NoPromotionType DEF PutLocalFails
      <4>2. lock' \in Procs \cup {"free", "orphan"} /\ streak' \in 0..Threshold
        BY <3>3, NoPromotionType DEF PutLocalFails, TypeOK
      <4> QED BY <3>3, <4>1, <4>2 DEF PutLocalFails, TypeOK
    <3>4. CASE FlagFails(p)
      <4>1. proc' \in [Procs -> ProcState]
        BY <3>4 DEF FlagFails
      <4>2. lock' \in Procs \cup {"free", "orphan"} /\ streak' \in 0..Threshold
        BY <3>4 DEF FlagFails, TypeOK
      <4> QED BY <3>4, <4>1, <4>2 DEF FlagFails, TypeOK
    <3>5. CASE PutBootstrapFails(p)
      <4>1. proc' \in [Procs -> ProcState]
        BY <3>5 DEF PutBootstrapFails, FallbackFails
      <4>2. lock' \in Procs \cup {"free", "orphan"} /\ streak' \in 0..Threshold
        BY <3>5 DEF PutBootstrapFails, FallbackFails, TypeOK
      <4> QED BY <3>5, <4>1, <4>2 DEF PutBootstrapFails, FallbackFails, TypeOK
    <3>6. CASE RecordFails(p)
      <4>1. proc' \in [Procs -> ProcState]
        BY <3>6, AfterRecordType DEF RecordFails, NewMode
      <4>2. lock' \in Procs \cup {"free", "orphan"} /\ streak' \in 0..Threshold
        BY <3>6, AfterRecordType DEF RecordFails, NewMode, TypeOK
      <4> QED BY <3>6, <4>1, <4>2 DEF RecordFails, NewMode, TypeOK
    <3> QED BY <2>2, <3>1, <3>2, <3>3, <3>4, <3>5, <3>6 DEF IoFailure
  <2>3. ASSUME NEW p \in Procs, Kill(p) PROVE TypeOK'
    BY <2>3 DEF Kill, files, env, TypeOK
  <2>4. ASSUME NEW p \in Procs, NEW c \in Commands, Start(p, c) PROVE TypeOK'
    <3>1. [Idle("ok") EXCEPT !.pc = "lock", !.cmd = c] \in ProcState
      BY DEF ProcState, Labels
    <3> QED BY <2>4, <3>1 DEF Start, files, env, hist, TypeOK
  <2>5. CASE OrphanExits
    BY <2>5 DEF OrphanExits, files, env, hist, TypeOK
  <2>6. CASE Reboot
    <3>1. /\ streak' \in 0..Threshold /\ healthyRuns' \in 0..Threshold
          /\ count' \in 0..(CountLimit + 1)
      BY <2>6 DEF Reboot
    <3> QED BY <2>6, <3>1 DEF Reboot, env, TypeOK
  <2>7. CASE FirmwareWrites
    BY <2>7 DEF FirmwareWrites, files, env, TypeOK
  <2>8. CASE WanChanges
    BY <2>8 DEF WanChanges, files, hist, TypeOK
  <2>9. CASE HealthChanges
    BY <2>9 DEF HealthChanges, files, hist, TypeOK
  <2>10. CASE UNCHANGED vars
    BY <2>10 DEF vars, files, env, hist, TypeOK
  <2> QED BY <2>1, <2>2, <2>3, <2>4, <2>5, <2>6, <2>7, <2>8, <2>9, <2>10
          DEF Next, Surroundings
<1> QED BY <1>1, InitType, PTL DEF Spec

-----------------------------------------------------------------------------
(* What a step does to the state of the commands.                          *)

LEMMA GotoEffect ==
  ASSUME proc \in [Procs -> ProcState], NEW p \in Procs, NEW label, NEW goal,
         Goto(p, label, goal)
  PROVE  /\ proc'[p].pc = label /\ proc'[p].goal = goal
         /\ proc'[p].cmd = proc[p].cmd /\ proc'[p].list = proc[p].list
         /\ \A q \in Procs \ {p} : proc'[q] = proc[q]
<1>1. proc' = [proc EXCEPT ![p] = [proc[p] EXCEPT !.pc = label, !.goal = goal]]
  BY DEF Goto
<1>2. proc'[p] = [proc[p] EXCEPT !.pc = label, !.goal = goal]
  BY <1>1
<1>3. proc[p] \in ProcState
  OBVIOUS
<1> QED BY <1>1, <1>2, <1>3 DEF ProcState

LEMMA FinishEffect ==
  ASSUME proc \in [Procs -> ProcState], NEW p \in Procs, NEW r, Finish(p, r)
  PROVE  /\ lock' = "free" /\ proc'[p].pc = "idle"
         /\ proc'[p].goal = "none" /\ proc'[p].cmd = "none"
         /\ \A q \in Procs \ {p} : proc'[q] = proc[q]
BY DEF Finish, Idle

LEMMA CarryEffect ==
  ASSUME proc \in [Procs -> ProcState], NEW p \in Procs, NEW label, NEW list,
         Carry(p, label, list)
  PROVE  /\ proc'[p].pc = label /\ proc'[p].list = list
         /\ proc'[p].cmd = proc[p].cmd /\ proc'[p].goal = proc[p].goal
         /\ \A q \in Procs \ {p} : proc'[q] = proc[q]
<1>1. proc' = [proc EXCEPT ![p] = [proc[p] EXCEPT !.pc = label, !.list = list]]
  BY DEF Carry
<1>2. proc'[p] = [proc[p] EXCEPT !.pc = label, !.list = list]
  BY <1>1
<1>3. proc[p] \in ProcState
  OBVIOUS
<1> QED BY <1>1, <1>2, <1>3 DEF ProcState

LEMMA NextCheckEffect ==
  ASSUME proc \in [Procs -> ProcState], NEW p \in Procs, NextCheck(p)
  PROVE  /\ proc'[p].pc = proc[p].pc /\ proc'[p].goal = proc[p].goal
         /\ proc'[p].cmd = proc[p].cmd /\ proc'[p].list = proc[p].list
         /\ \A q \in Procs \ {p} : proc'[q] = proc[q]
<1>1. proc' = [proc EXCEPT ![p] = [proc[p] EXCEPT !.idx = @ + 1]]
  BY DEF NextCheck
<1>2. proc'[p] = [proc[p] EXCEPT !.idx = @ + 1]
  BY <1>1
<1>3. proc[p] \in ProcState
  OBVIOUS
<1> QED BY <1>1, <1>2, <1>3 DEF ProcState

\* The steps of a command that has the lock, apart from how they are ordered.
Step(p) == (Run(p) \/ IoFailure(p)) /\ Working(p)

\* Such a step leaves the other commands alone and gives the lock back exactly
\* when the command ends.
LEMMA StepFrame ==
  ASSUME proc \in [Procs -> ProcState], NEW p \in Procs, Step(p)
  PROVE  /\ \A q \in Procs \ {p} : proc'[q] = proc[q]
         /\ \/ lock' = lock /\ proc'[p].pc \notin {"idle", "lock"}
            \/ lock' = "free" /\ proc'[p].pc = "idle"
<1> USE GotoEffect, FinishEffect, CarryEffect, NextCheckEffect
<1>0. CASE Acquire(p) \/ LockTimeout(p)
  BY <1>0 DEF Step, Working, Acquire, LockTimeout, At
<1>1. CASE AutoDispatch(p)
  BY <1>1 DEF AutoDispatch
<1>2. CASE ReadyDispatch(p)
  BY <1>2 DEF ReadyDispatch
<1>3. CASE ResetDispatch(p)
  BY <1>3 DEF ResetDispatch
<1>4. CASE breakglass_off(p)
  BY <1>4 DEF breakglass_off
<1>5. CASE show_metrics(p)
  BY <1>5 DEF show_metrics
<1>6. CASE ProbePass(p)
  BY <1>6 DEF ProbePass, At
<1>7. CASE ProbeFail(p)
  BY <1>7 DEF ProbeFail
<1>8. CASE LookAtResolver(p)
  BY <1>8 DEF LookAtResolver
<1>9. CASE IncrementStreak(p)
  BY <1>9 DEF IncrementStreak
<1>10. CASE ListBootstrap(p)
  BY <1>10 DEF ListBootstrap, AfterAsk
<1>11. CASE AskBootstrap(p)
  BY <1>11 DEF AskBootstrap, AfterAsk
<1>12. CASE PromoteGate(p)
  BY <1>12 DEF PromoteGate, NoPromotion
<1>13. CASE PutLocal(p)
  BY <1>13 DEF PutLocal
<1>14. CASE breakglass_on(p)
  BY <1>14 DEF breakglass_on
<1>15. CASE PickBootstrap(p)
  BY <1>15 DEF PickBootstrap, FallbackFails
<1>16. CASE PutBootstrap(p)
  BY <1>16 DEF PutBootstrap
<1>17. CASE RecordMode(p)
  BY <1>17 DEF RecordMode, AfterRecord
<1>18. CASE RecordCount(p)
  BY <1>18 DEF RecordCount
<1>19. CASE RecordSince(p)
  BY <1>19 DEF RecordSince, AfterRecord
<1>20. CASE ClearSince(p)
  BY <1>20 DEF ClearSince, AfterRecord
<1>21. CASE IncrementFails(p)
  BY <1>21 DEF IncrementFails
<1>22. CASE AskRecordFails(p)
  BY <1>22 DEF AskRecordFails, AfterAsk
<1>23. CASE PutLocalFails(p)
  BY <1>23 DEF PutLocalFails, NoPromotion
<1>24. CASE FlagFails(p)
  BY <1>24 DEF FlagFails
<1>25. CASE PutBootstrapFails(p)
  BY <1>25 DEF PutBootstrapFails, FallbackFails
<1>26. CASE RecordFails(p)
  BY <1>26 DEF RecordFails, AfterRecord
<1> QED
  BY <1>0, <1>1, <1>2, <1>3, <1>4, <1>5, <1>6, <1>7, <1>8, <1>9, <1>10, <1>11, <1>12, <1>13, <1>14, <1>15, <1>16, <1>17, <1>18, <1>19, <1>20, <1>21, <1>22, <1>23, <1>24, <1>25, <1>26
  DEF Step, Run, IoFailure

\* Every step is one of a command with the lock, one that takes or gives up on
\* the lock, a start, a kill, a reboot, or one that leaves all commands alone.
Beside == /\ OrphanExits \/ FirmwareWrites \/ WanChanges \/ HealthChanges
             \/ UNCHANGED vars

LEMMA NextSplit ==
  ASSUME [Next]_vars
  PROVE  \/ \E p \in Procs : \/ Step(p) \/ Acquire(p) \/ LockTimeout(p) \/ Kill(p)
                            \/ \E c \in Commands : Start(p, c)
         \/ Reboot \/ Beside
<1>1. ASSUME NEW p \in Procs, Run(p), ~Acquire(p), ~LockTimeout(p)
      PROVE  Working(p)
  BY <1>1 DEF Run, Working, At, AutoDispatch, ReadyDispatch, ResetDispatch, breakglass_off, show_metrics, ProbePass, ProbeFail, LookAtResolver, IncrementStreak, ListBootstrap,
          AskBootstrap, PromoteGate, PutLocal, breakglass_on, PickBootstrap, PutBootstrap, RecordMode, RecordCount, RecordSince, ClearSince
<1>2. ASSUME NEW p \in Procs, IoFailure(p)
      PROVE  Working(p)
  BY <1>2 DEF IoFailure, Working, At, IncrementFails, AskRecordFails, PutLocalFails, FlagFails, PutBootstrapFails, RecordFails
<1>3. CASE Next
  BY <1>1, <1>2, <1>3 DEF Next, Step, Surroundings, Beside
<1>4. CASE UNCHANGED vars
  BY <1>4 DEF Beside
<1> QED BY <1>3, <1>4

LEMMA BesideFrame ==
  ASSUME Beside
  PROVE  proc' = proc /\ (lock' = lock \/ lock = "orphan")
BY DEF Beside, OrphanExits, FirmwareWrites, WanChanges, HealthChanges, vars

LEMMA LockWords == \A p \in Procs : p # "free" /\ p # "orphan"
BY GuardAssumption DEF GuardAssumption

LEMMA StartEffect ==
  ASSUME proc \in [Procs -> ProcState], NEW p \in Procs, NEW c \in Commands,
         Start(p, c)
  PROVE  /\ proc'[p].pc = "lock"
         /\ \A q \in Procs \ {p} : proc'[q] = proc[q]
         /\ lock' = lock
BY DEF Start, Idle

LEMMA KillEffect ==
  ASSUME proc \in [Procs -> ProcState], NEW p \in Procs, Kill(p)
  PROVE  /\ proc'[p].pc = "idle"
         /\ \A q \in Procs \ {p} : proc'[q] = proc[q]
         /\ lock # p => lock' = lock
BY DEF Kill, Idle

\* LockHeld: a command works only with the lock in its hands, however commands
\* are killed and the lock outlives them (the flock loop at the head of dns-guard).
THEOREM MutualExclusion == Spec => []LockHeld
<1>1. Init => LockHeld
  BY DEF Init, LockHeld, Working, Idle
<1>2. TypeOK /\ LockHeld /\ [Next]_vars => LockHeld'
  <2> SUFFICES ASSUME TypeOK, LockHeld, [Next]_vars PROVE LockHeld'
    OBVIOUS
  <2> USE LockWords
  <2>0. proc \in [Procs -> ProcState]
    BY DEF TypeOK
  <2>1. ASSUME NEW p \in Procs, Step(p) PROVE LockHeld'
    <3>1. lock = p
      BY <2>1 DEF LockHeld, Step
    <3>2. \A q \in Procs \ {p} : ~Working(q)
      BY <3>1 DEF LockHeld
    <3> QED BY <2>0, <2>1, <3>1, <3>2, StepFrame DEF LockHeld, Working
  <2>2. ASSUME NEW p \in Procs, Acquire(p) PROVE LockHeld'
    <3>1. \A q \in Procs : ~Working(q)
      BY <2>2 DEF LockHeld, Acquire
    <3> QED BY <2>0, <2>2, <3>1, GotoEffect DEF LockHeld, Acquire, Working
  <2>3. ASSUME NEW p \in Procs, LockTimeout(p) PROVE LockHeld'
    BY <2>0, <2>3 DEF LockHeld, LockTimeout, Working, Idle
  <2>4. ASSUME NEW p \in Procs, Kill(p) PROVE LockHeld'
    BY <2>0, <2>4, KillEffect DEF LockHeld, Working
  <2>5. ASSUME NEW p \in Procs, NEW c \in Commands, Start(p, c) PROVE LockHeld'
    BY <2>0, <2>5, StartEffect DEF LockHeld, Working
  <2>6. CASE Reboot
    BY <2>6 DEF LockHeld, Reboot, Working, Idle
  <2>7. CASE Beside
    BY <2>7, BesideFrame DEF LockHeld, Working
  <2> QED BY <2>1, <2>2, <2>3, <2>4, <2>5, <2>6, <2>7, NextSplit
<1> QED BY <1>1, <1>2, TypeCorrect, PTL DEF Spec

\* Where resolv.conf is written, and what leads to the two writes.
LEMMA StepWrites ==
  ASSUME proc \in [Procs -> ProcState], NEW p \in Procs, Step(p)
  PROVE  /\ \/ PutLocal(p) \/ PutBootstrap(p)
            \/ resolv' = resolv /\ foreign' = foreign
         /\ proc'[p].pc = "put_local" => ~flag /\ flag' = flag
         /\ proc'[p].pc = "put_boot" => /\ bootstrap_dns(wan) # {}
                                        /\ proc'[p].list = bootstrap_dns(wan)
<1> USE GotoEffect, FinishEffect, CarryEffect, NextCheckEffect DEF files, hist
<1>0. CASE Acquire(p) \/ LockTimeout(p)
  BY <1>0 DEF Step, Working, Acquire, LockTimeout, At
<1>1. CASE AutoDispatch(p)
  BY <1>1 DEF AutoDispatch
<1>2. CASE ReadyDispatch(p)
  BY <1>2 DEF ReadyDispatch
<1>3. CASE ResetDispatch(p)
  BY <1>3 DEF ResetDispatch
<1>4. CASE breakglass_off(p)
  BY <1>4 DEF breakglass_off
<1>5. CASE show_metrics(p)
  BY <1>5 DEF show_metrics
<1>6. CASE ProbePass(p)
  BY <1>6 DEF ProbePass, At
<1>7. CASE ProbeFail(p)
  BY <1>7 DEF ProbeFail
<1>8. CASE LookAtResolver(p)
  BY <1>8 DEF LookAtResolver
<1>9. CASE IncrementStreak(p)
  BY <1>9 DEF IncrementStreak
<1>10. CASE ListBootstrap(p)
  BY <1>10 DEF ListBootstrap, AfterAsk
<1>11. CASE AskBootstrap(p)
  BY <1>11 DEF AskBootstrap, AfterAsk
<1>12. CASE PromoteGate(p)
  BY <1>12 DEF PromoteGate, NoPromotion
<1>13. CASE PutLocal(p)
  BY <1>13 DEF PutLocal
<1>14. CASE breakglass_on(p)
  <2>1. Goto(p, "pick", "fallback") /\ resolv' = resolv /\ foreign' = foreign
    BY <1>14 DEF breakglass_on
  <2>2. proc'[p].pc = "pick"
    BY <2>1
  <2> QED BY <2>1, <2>2
<1>15. CASE PickBootstrap(p)
  BY <1>15 DEF PickBootstrap, FallbackFails
<1>16. CASE PutBootstrap(p)
  BY <1>16 DEF PutBootstrap
<1>17. CASE RecordMode(p)
  BY <1>17 DEF RecordMode, AfterRecord
<1>18. CASE RecordCount(p)
  BY <1>18 DEF RecordCount
<1>19. CASE RecordSince(p)
  BY <1>19 DEF RecordSince, AfterRecord
<1>20. CASE ClearSince(p)
  BY <1>20 DEF ClearSince, AfterRecord
<1>21. CASE IncrementFails(p)
  BY <1>21 DEF IncrementFails
<1>22. CASE AskRecordFails(p)
  BY <1>22 DEF AskRecordFails, AfterAsk
<1>23. CASE PutLocalFails(p)
  BY <1>23 DEF PutLocalFails, NoPromotion
<1>24. CASE FlagFails(p)
  BY <1>24 DEF FlagFails
<1>25. CASE PutBootstrapFails(p)
  BY <1>25 DEF PutBootstrapFails, FallbackFails
<1>26. CASE RecordFails(p)
  BY <1>26 DEF RecordFails, AfterRecord
<1> QED
  BY <1>0, <1>1, <1>2, <1>3, <1>4, <1>5, <1>6, <1>7, <1>8, <1>9, <1>10,
     <1>11, <1>12, <1>13, <1>14, <1>15, <1>16, <1>17, <1>18, <1>19, <1>20,
     <1>21, <1>22, <1>23, <1>24, <1>25, <1>26
  DEF Step, Run, IoFailure

-----------------------------------------------------------------------------
(* What bootstrap_dns returns.                                             *)

Before(w, k) == {j \in Fresh(w) : j < k}

LEMMA BeforeFinite ==
  ASSUME NEW w \in Seq(Servers), NEW k
  PROVE  IsFiniteSet(Before(w, k)) /\ Cardinality(Before(w, k)) \in Nat
<1>1. IsFiniteSet(1..Len(w))
  BY FS_Interval
<1>2. Before(w, k) \in SUBSET (1..Len(w))
  BY DEF Before, Fresh
<1> QED BY <1>1, <1>2, FS_Subset, FS_CardinalityType

\* Two fresh candidates have different numbers of fresh ones before them.
LEMMA BeforeGrows ==
  ASSUME NEW w \in Seq(Servers), NEW i \in Fresh(w), NEW k \in Fresh(w), i < k
  PROVE  Cardinality(Before(w, i)) < Cardinality(Before(w, k))
<1>1. \A j \in Fresh(w) : j \in Nat
  BY DEF Fresh
<1>2. i \notin Before(w, i)
  BY <1>1 DEF Before
<1>3. Cardinality(Before(w, i) \cup {i}) = Cardinality(Before(w, i)) + 1
  BY <1>2, BeforeFinite, FS_AddElement
<1>4. \A j \in Fresh(w) : j < i => j < k
  BY <1>1
<1>5. Before(w, i) \cup {i} \in SUBSET Before(w, k)
  BY <1>4 DEF Before
<1>6. Cardinality(Before(w, i) \cup {i}) <= Cardinality(Before(w, k))
  BY <1>5, BeforeFinite, FS_Subset
<1> QED BY <1>3, <1>6, BeforeFinite

\* bootstrap_dns keeps at most MaxServers addresses, whatever the WAN keys hold
\* and however often they repeat one.
LEMMA BootstrapBounded ==
  ASSUME NEW w \in Seq(Servers)
  PROVE  Cardinality(bootstrap_dns(w)) <= MaxServers
<1> DEFINE B == bootstrap_dns(w)
           Kept == {k \in Fresh(w) : Cardinality(Before(w, k)) < MaxServers}
           Place(b) == CHOOSE k \in Kept : w[k] = b
           Rank == [b \in B |-> Cardinality(Before(w, Place(b)))]
<1>1. MaxServers \in Nat \ {0} /\ IsFiniteSet(Servers)
  BY GuardAssumption DEF GuardAssumption
<1>2. B \in SUBSET Servers
  BY BootstrapType, ConstantTypes
<1>3. IsFiniteSet(B) /\ Cardinality(B) \in Nat
  BY <1>1, <1>2, FS_Subset, FS_CardinalityType
<1>4. \A b \in B : Place(b) \in Kept /\ w[Place(b)] = b
  BY DEF bootstrap_dns, Before
<1>5. Rank \in [B -> 0..(MaxServers - 1)]
  BY <1>1, <1>4, BeforeFinite
<1>6. IsFiniteSet(0..(MaxServers - 1)) /\ Cardinality(0..(MaxServers - 1)) = MaxServers
  BY <1>1, FS_Interval
<1>7. ASSUME NEW x \in B, NEW y \in B, x # y
      PROVE  Rank[x] # Rank[y]
  <2>1. Place(x) \in Fresh(w) /\ Place(y) \in Fresh(w) /\ Place(x) # Place(y)
    BY <1>4, <1>7
  <2>2. Place(x) \in Nat /\ Place(y) \in Nat
    BY <2>1 DEF Fresh
  <2>3. \/ Cardinality(Before(w, Place(x))) < Cardinality(Before(w, Place(y)))
        \/ Cardinality(Before(w, Place(y))) < Cardinality(Before(w, Place(x)))
    BY <2>1, <2>2, BeforeGrows
  <2> QED BY <2>3, BeforeFinite
<1>8. ~(MaxServers < Cardinality(B))
  <2> HIDE DEF Rank
  <2> QED BY <1>3, <1>5, <1>6, <1>7, FS_PigeonHole
<1> QED BY <1>1, <1>3, <1>8

LEMMA BootstrapUsable ==
  ASSUME NEW w \in WanChoices, bootstrap_dns(w) # {}
  PROVE  Usable(bootstrap_dns(w)) /\ bootstrap_dns(w) # {LocalIP}
<1>1. LocalIP \notin Independent
  BY GuardAssumption DEF GuardAssumption
<1> QED BY <1>1, BootstrapType, BootstrapBounded, ConstantTypes DEF Usable

-----------------------------------------------------------------------------
(* The two writes of resolv.conf.                                          *)

\* At the moment of a write what was looked at before still holds.
THEOREM PutsSafe == Spec => [](FlagClearAtPut /\ ListUsableAtPut)
<1>1. Init => FlagClearAtPut /\ ListUsableAtPut
  BY DEF Init, FlagClearAtPut, ListUsableAtPut, At, Idle
<1>2. TypeOK /\ LockHeld /\ FlagClearAtPut /\ ListUsableAtPut /\ [Next]_vars
        => FlagClearAtPut' /\ ListUsableAtPut'
  <2> SUFFICES ASSUME TypeOK, LockHeld, FlagClearAtPut, ListUsableAtPut, [Next]_vars
               PROVE  FlagClearAtPut' /\ ListUsableAtPut'
    OBVIOUS
  <2>0. proc \in [Procs -> ProcState] /\ wan \in WanChoices
    BY DEF TypeOK
  <2>1. ASSUME NEW p \in Procs, Step(p) PROVE FlagClearAtPut' /\ ListUsableAtPut'
    <3>1. \A q \in Procs \ {p} : ~Working(q) /\ proc'[q] = proc[q]
      BY <2>0, <2>1, StepFrame DEF LockHeld, Step
    <3>2. proc'[p].pc = "put_local" => ~flag'
      BY <2>0, <2>1, StepWrites
    <3>3. proc'[p].pc = "put_boot" => Usable(proc'[p].list)
      BY <2>0, <2>1, StepWrites, BootstrapUsable
    <3>4. FlagClearAtPut'
      BY <3>1, <3>2 DEF FlagClearAtPut, At, Working
    <3>5. ListUsableAtPut'
      BY <3>1, <3>3 DEF ListUsableAtPut, At, Working, Usable
    <3> QED BY <3>4, <3>5
  <2>2. ASSUME NEW p \in Procs, Acquire(p) PROVE FlagClearAtPut' /\ ListUsableAtPut'
    BY <2>0, <2>2, GotoEffect DEF Acquire, FlagClearAtPut, ListUsableAtPut, At
  <2>3. ASSUME NEW p \in Procs, LockTimeout(p)
        PROVE  FlagClearAtPut' /\ ListUsableAtPut'
    BY <2>0, <2>3 DEF LockTimeout, FlagClearAtPut, ListUsableAtPut, At, Idle
  <2>4. ASSUME NEW p \in Procs, Kill(p) PROVE FlagClearAtPut' /\ ListUsableAtPut'
    <3>1. flag' = flag
      BY <2>4 DEF Kill
    <3> QED
      BY <2>0, <2>4, <3>1, KillEffect DEF FlagClearAtPut, ListUsableAtPut, At, Usable
  <2>5. ASSUME NEW p \in Procs, NEW c \in Commands, Start(p, c)
        PROVE  FlagClearAtPut' /\ ListUsableAtPut'
    <3>1. flag' = flag
      BY <2>5 DEF Start
    <3> QED
      BY <2>0, <2>5, <3>1, StartEffect DEF FlagClearAtPut, ListUsableAtPut, At, Usable
  <2>6. CASE Reboot
    BY <2>6 DEF Reboot, FlagClearAtPut, ListUsableAtPut, At, Idle
  <2>7. CASE Beside
    <3>1. flag' = flag
      BY <2>7 DEF Beside, OrphanExits, FirmwareWrites, WanChanges, HealthChanges, vars
    <3> QED BY <2>7, <3>1, BesideFrame DEF FlagClearAtPut, ListUsableAtPut, At, Usable
  <2> QED BY <2>1, <2>2, <2>3, <2>4, <2>5, <2>6, <2>7, NextSplit
<1> QED BY <1>1, <1>2, TypeCorrect, MutualExclusion, PTL DEF Spec

\* Steps that are not a command's leave resolv.conf alone or are the firmware's.
LEMMA OtherWrites ==
  ASSUME \/ \E p \in Procs : \/ Acquire(p) \/ LockTimeout(p) \/ Kill(p)
                             \/ \E c \in Commands : Start(p, c)
         \/ Reboot \/ Beside
  PROVE  foreign' = TRUE \/ (resolv' = resolv /\ foreign' = foreign)
BY DEF Acquire, LockTimeout, Kill, Start, Reboot, Beside, OrphanExits, FirmwareWrites,
       WanChanges, HealthChanges, vars, hist

\* BreakglassBlocksPromotion: with the break-glass flag in place no command, in
\* whatever company, puts the local resolver into resolv.conf.
THEOREM BreakglassSafe == Spec => BreakglassBlocksPromotion
<1>1. TypeOK /\ FlagClearAtPut /\ ListUsableAtPut /\ [Next]_vars
        => (flag /\ resolv # {LocalIP} /\ resolv' = {LocalIP} => foreign')
  <2> SUFFICES ASSUME TypeOK, FlagClearAtPut, ListUsableAtPut, [Next]_vars,
                      flag, resolv # {LocalIP}, resolv' = {LocalIP}
               PROVE  foreign'
    OBVIOUS
  <2>0. proc \in [Procs -> ProcState]
    BY DEF TypeOK
  <2>1. ASSUME NEW p \in Procs, Step(p) PROVE FALSE
    <3>1. CASE PutLocal(p)
      BY <3>1 DEF PutLocal, FlagClearAtPut
    <3>2. CASE PutBootstrap(p)
      <4>1. proc[p].list \subseteq Independent /\ resolv' = proc[p].list
        BY <3>2 DEF PutBootstrap, ListUsableAtPut, Usable
      <4>2. LocalIP \notin Independent
        BY GuardAssumption DEF GuardAssumption
      <4> QED BY <4>1, <4>2
    <3> QED BY <2>0, <2>1, <3>1, <3>2, StepWrites
  <2> QED BY <2>1, NextSplit, OtherWrites
<1> QED
  BY <1>1, TypeCorrect, PutsSafe, PTL DEF Spec, BreakglassBlocksPromotion

\* GuardWritesAreUsable: resolv.conf, when the guard wrote it last, names the
\* local resolver alone or one to MaxServers upstream servers.
THEOREM WritesUsable == Spec => []GuardWritesAreUsable
<1>1. Init => GuardWritesAreUsable
  BY DEF Init, GuardWritesAreUsable
<1>2. TypeOK /\ ListUsableAtPut /\ GuardWritesAreUsable /\ [Next]_vars
        => GuardWritesAreUsable'
  <2> SUFFICES ASSUME TypeOK, ListUsableAtPut, GuardWritesAreUsable, [Next]_vars
               PROVE  GuardWritesAreUsable'
    OBVIOUS
  <2>0. proc \in [Procs -> ProcState]
    BY DEF TypeOK
  <2>1. ASSUME NEW p \in Procs, Step(p) PROVE GuardWritesAreUsable'
    <3>1. CASE PutLocal(p)
      BY <3>1 DEF PutLocal, GuardWritesAreUsable
    <3>2. CASE PutBootstrap(p)
      BY <3>2 DEF PutBootstrap, ListUsableAtPut, Usable, GuardWritesAreUsable
    <3> QED BY <2>0, <2>1, <3>1, <3>2, StepWrites DEF GuardWritesAreUsable
  <2> QED BY <2>1, NextSplit, OtherWrites DEF GuardWritesAreUsable
<1> QED BY <1>1, <1>2, TypeCorrect, PutsSafe, PTL DEF Spec

-----------------------------------------------------------------------------
(* Hysteresis.                                                             *)

\* How the streak and the run history move together in one step of a command.
LEMMA StepStreak ==
  ASSUME TypeOK, NEW p \in Procs, Step(p),
         streak <= healthyRuns,
         Ahead(p) => proc[p].cmd = "auto" /\ Capped(streak + 1) <= healthyRuns,
         Promoting(p) /\ proc[p].cmd = "auto"
           => proc[p].goal \in {"reassert", "escape", "streak"},
         Promoting(p) /\ proc[p].goal = "streak" => streak = Threshold
  PROVE  /\ streak' <= healthyRuns'
         /\ Ahead(p)' => proc'[p].cmd = "auto" /\ Capped(streak' + 1) <= healthyRuns'
         /\ Promoting(p)' /\ proc'[p].cmd = "auto"
              => proc'[p].goal \in {"reassert", "escape", "streak"}
         /\ Promoting(p)' /\ proc'[p].goal = "streak" => streak' = Threshold
<1>t. /\ proc \in [Procs -> ProcState] /\ streak \in 0..Threshold
      /\ healthyRuns \in 0..Threshold /\ Threshold \in Nat \ {0}
  BY ConstantTypes DEF TypeOK
<1> USE <1>t, GotoEffect, FinishEffect, CarryEffect, NextCheckEffect
    DEF files, hist, Ahead, Promoting, At
<1>0. CASE Acquire(p) \/ LockTimeout(p)
  BY <1>0 DEF Step, Working, Acquire, LockTimeout, At
<1>1. CASE AutoDispatch(p)
  BY <1>1 DEF AutoDispatch, Capped
<1>2. CASE ReadyDispatch(p)
  BY <1>2 DEF ReadyDispatch, Capped
<1>3. CASE ResetDispatch(p)
  BY <1>3 DEF ResetDispatch, Capped
<1>4. CASE breakglass_off(p)
  BY <1>4 DEF breakglass_off, Capped
<1>5. CASE show_metrics(p)
  BY <1>5 DEF show_metrics, Capped
<1>6. CASE ProbePass(p)
  BY <1>6 DEF ProbePass, At, Capped
<1>7. CASE ProbeFail(p)
  BY <1>7 DEF ProbeFail, Capped
<1>8. CASE LookAtResolver(p)
  BY <1>8 DEF LookAtResolver, Capped
<1>9. CASE IncrementStreak(p)
  BY <1>9 DEF IncrementStreak, Capped
<1>10. CASE ListBootstrap(p)
  BY <1>10 DEF ListBootstrap, AfterAsk, Capped
<1>11. CASE AskBootstrap(p)
  BY <1>11 DEF AskBootstrap, AfterAsk, Capped
<1>12. CASE PromoteGate(p)
  BY <1>12 DEF PromoteGate, NoPromotion, Capped
<1>13. CASE PutLocal(p)
  BY <1>13 DEF PutLocal, Capped
<1>14. CASE breakglass_on(p)
  BY <1>14 DEF breakglass_on, Capped
<1>15. CASE PickBootstrap(p)
  BY <1>15 DEF PickBootstrap, FallbackFails, Capped
<1>16. CASE PutBootstrap(p)
  BY <1>16 DEF PutBootstrap, Capped
<1>17. CASE RecordMode(p)
  BY <1>17 DEF RecordMode, AfterRecord, Capped
<1>18. CASE RecordCount(p)
  BY <1>18 DEF RecordCount, Capped
<1>19. CASE RecordSince(p)
  BY <1>19 DEF RecordSince, AfterRecord, Capped
<1>20. CASE ClearSince(p)
  BY <1>20 DEF ClearSince, AfterRecord, Capped
<1>21. CASE IncrementFails(p)
  BY <1>21 DEF IncrementFails, Capped
<1>22. CASE AskRecordFails(p)
  BY <1>22 DEF AskRecordFails, AfterAsk, Capped
<1>23. CASE PutLocalFails(p)
  BY <1>23 DEF PutLocalFails, NoPromotion, Capped
<1>24. CASE FlagFails(p)
  BY <1>24 DEF FlagFails, Capped
<1>25. CASE PutBootstrapFails(p)
  BY <1>25 DEF PutBootstrapFails, FallbackFails, Capped
<1>26. CASE RecordFails(p)
  BY <1>26 DEF RecordFails, AfterRecord, Capped
<1> QED
  BY <1>0, <1>1, <1>2, <1>3, <1>4, <1>5, <1>6, <1>7, <1>8, <1>9, <1>10,
     <1>11, <1>12, <1>13, <1>14, <1>15, <1>16, <1>17, <1>18, <1>19, <1>20,
     <1>21, <1>22, <1>23, <1>24, <1>25, <1>26
  DEF Step, Run, IoFailure

\* StreakEarned: the streak file never claims more healthy runs in a row than
\* there were.
THEOREM StreakNeverAhead == Spec => []StreakEarned
<1>1. Init => StreakEarned
  BY DEF Init, StreakEarned, Ahead, Promoting, At, Idle
<1>2. TypeOK /\ LockHeld /\ StreakEarned /\ [Next]_vars => StreakEarned'
  <2> SUFFICES ASSUME TypeOK, LockHeld, StreakEarned, [Next]_vars PROVE StreakEarned'
    OBVIOUS
  <2>0. proc \in [Procs -> ProcState]
    BY DEF TypeOK
  <2> DEFINE Kept == streak' = streak /\ healthyRuns' = healthyRuns
             Idling(q) == proc'[q].pc \in {"idle", "lock", "dispatch"}
             Same(q) == proc'[q] = proc[q]
  <2>k. ASSUME Kept, \A q \in Procs : Idling(q) \/ Same(q)
        PROVE  StreakEarned'
    BY <2>k DEF StreakEarned, Ahead, Promoting, At, Capped
  <2>1. ASSUME NEW p \in Procs, Step(p) PROVE StreakEarned'
    <3>1. \A q \in Procs \ {p} : ~Working(q) /\ proc'[q] = proc[q]
      BY <2>0, <2>1, StepFrame DEF LockHeld, Step
    <3>2. \A q \in Procs \ {p} : ~Ahead(q)' /\ ~Promoting(q)'
      BY <3>1 DEF Ahead, Promoting, At, Working
    <3>3. /\ streak' <= healthyRuns'
          /\ Ahead(p)' => proc'[p].cmd = "auto" /\ Capped(streak' + 1) <= healthyRuns'
          /\ Promoting(p)' /\ proc'[p].cmd = "auto"
               => proc'[p].goal \in {"reassert", "escape", "streak"}
          /\ Promoting(p)' /\ proc'[p].goal = "streak" => streak' = Threshold
      BY <2>1, StepStreak DEF StreakEarned
    <3> QED BY <3>2, <3>3 DEF StreakEarned, Capped
  <2>2. ASSUME NEW p \in Procs, Acquire(p) PROVE StreakEarned'
    <3>1. Kept
      BY <2>2 DEF Acquire, files, hist
    <3>2. \A q \in Procs : Idling(q) \/ Same(q)
      BY <2>0, <2>2, GotoEffect DEF Acquire
    <3> QED BY <2>k, <3>1, <3>2
  <2>3. ASSUME NEW p \in Procs, LockTimeout(p) PROVE StreakEarned'
    <3>1. Kept
      BY <2>3 DEF LockTimeout, files, hist
    <3>2. \A q \in Procs : Idling(q) \/ Same(q)
      BY <2>0, <2>3 DEF LockTimeout, Idle
    <3> QED BY <2>k, <3>1, <3>2
  <2>4. ASSUME NEW p \in Procs, Kill(p) PROVE StreakEarned'
    <3>1. Kept
      BY <2>4 DEF Kill, files
    <3>2. \A q \in Procs : Idling(q) \/ Same(q)
      BY <2>0, <2>4, KillEffect
    <3> QED BY <2>k, <3>1, <3>2
  <2>5. ASSUME NEW p \in Procs, NEW c \in Commands, Start(p, c) PROVE StreakEarned'
    <3>1. Kept
      BY <2>5 DEF Start, files, hist
    <3>2. \A q \in Procs : Idling(q) \/ Same(q)
      BY <2>0, <2>5, StartEffect
    <3> QED BY <2>k, <3>1, <3>2
  <2>6. CASE Reboot
    BY <2>6 DEF Reboot, StreakEarned, Ahead, Promoting, At, Idle
  <2>7. CASE Beside
    <3>1. Kept
      BY <2>7 DEF Beside, OrphanExits, FirmwareWrites, WanChanges, HealthChanges,
                  vars, files, hist
    <3> QED BY <2>k, <2>7, <3>1, BesideFrame
  <2> QED BY <2>1, <2>2, <2>3, <2>4, <2>5, <2>6, <2>7, NextSplit
<1> QED BY <1>1, <1>2, TypeCorrect, MutualExclusion, PTL DEF Spec

\* PromotionIsEarned: auto leaves a working bootstrap resolver only after
\* Threshold healthy runs in a row.
THEOREM Hysteresis == Spec => PromotionIsEarned
<1> DEFINE Earned(p) ==
             /\ At(p, "put_local") /\ proc[p].cmd = "auto"
             /\ proc[p].goal \notin {"reassert", "escape"}
             /\ ~foreign' /\ resolv' = {LocalIP}
             => healthyRuns = Threshold
<1>1. TypeOK /\ StreakEarned => \A p \in Procs : Earned(p)
  <2> SUFFICES ASSUME TypeOK, StreakEarned, NEW p \in Procs,
                      At(p, "put_local"), proc[p].cmd = "auto",
                      proc[p].goal \notin {"reassert", "escape"}
               PROVE  healthyRuns = Threshold
    OBVIOUS
  <2>1. streak = Threshold /\ streak <= healthyRuns
    BY DEF StreakEarned, Promoting
  <2>2. healthyRuns \in 0..Threshold /\ Threshold \in Nat
    BY ConstantTypes DEF TypeOK
  <2> QED BY <2>1, <2>2
<1>2. TypeOK /\ StreakEarned /\ [Next]_vars
        => [\A p \in Procs : Earned(p)]_vars
  BY <1>1
<1> QED
  BY <1>2, TypeCorrect, StreakNeverAhead, PTL DEF Spec, PromotionIsEarned

-----------------------------------------------------------------------------
(* The records.                                                            *)

\* What one step of a command does to its part of RecordsFollow, and to the
\* whole of it when no other command works.
LEMMA StepRecords ==
  ASSUME TypeOK, NEW p \in Procs, Step(p),
         At(p, "put_boot") => proc[p].list # {LocalIP},
         Promoting(p) => proc[p].goal \in {"operator", "reassert", "escape", "streak"},
         At(p, "record") /\ ~foreign => (NewMode(p) = "local" <=> resolver_is_local),
         proc[p].pc \in {"count", "since"}
           => mode = "bootstrap" /\ (~foreign => ~resolver_is_local),
         At(p, "clear") => mode = "local" /\ (~foreign => resolver_is_local),
         ~disturbed /\ ~Lagging(p) => (since <=> mode = "bootstrap"),
         ~disturbed /\ ~foreign /\ ~Lagging(p) /\ ~Unrecorded(p)
           => (mode = "local" <=> resolver_is_local)
  PROVE  /\ Promoting(p)'
              => proc'[p].goal \in {"operator", "reassert", "escape", "streak"}
         /\ At(p, "record")' /\ ~foreign'
              => (NewMode(p)' = "local" <=> resolver_is_local')
         /\ proc'[p].pc \in {"count", "since"}
              => mode' = "bootstrap" /\ (~foreign' => ~resolver_is_local')
         /\ At(p, "clear")' => mode' = "local" /\ (~foreign' => resolver_is_local')
         /\ ~disturbed' /\ ~Lagging(p)' => (since' <=> mode' = "bootstrap")
         /\ ~disturbed' /\ ~foreign' /\ ~Lagging(p)' /\ ~Unrecorded(p)'
              => (mode' = "local" <=> resolver_is_local')
<1>t. proc \in [Procs -> ProcState] /\ since \in BOOLEAN /\ wan \in WanChoices
  BY DEF TypeOK
<1> USE <1>t, GotoEffect, FinishEffect, CarryEffect, NextCheckEffect
    DEF files, hist, At, NewMode, Promoting, Lagging, Unrecorded,
        resolver_is_local
<1>0. CASE Acquire(p) \/ LockTimeout(p)
  BY <1>0 DEF Step, Working, Acquire, LockTimeout, At
<1>1. CASE AutoDispatch(p)
  BY <1>1 DEF AutoDispatch
<1>2. CASE ReadyDispatch(p)
  BY <1>2 DEF ReadyDispatch
<1>3. CASE ResetDispatch(p)
  BY <1>3 DEF ResetDispatch
<1>4. CASE breakglass_off(p)
  BY <1>4 DEF breakglass_off
<1>5. CASE show_metrics(p)
  BY <1>5, BootstrapUsable DEF show_metrics, resolver_is_bootstrap
<1>6. CASE ProbePass(p)
  BY <1>6 DEF ProbePass, At
<1>7. CASE ProbeFail(p)
  BY <1>7 DEF ProbeFail
<1>8. CASE LookAtResolver(p)
  BY <1>8 DEF LookAtResolver
<1>9. CASE IncrementStreak(p)
  BY <1>9 DEF IncrementStreak
<1>10. CASE ListBootstrap(p)
  BY <1>10 DEF ListBootstrap, AfterAsk
<1>11. CASE AskBootstrap(p)
  BY <1>11 DEF AskBootstrap, AfterAsk
<1>12. CASE PromoteGate(p)
  BY <1>12 DEF PromoteGate, NoPromotion
<1>13. CASE PutLocal(p)
  BY <1>13 DEF PutLocal
<1>14. CASE breakglass_on(p)
  BY <1>14 DEF breakglass_on
<1>15. CASE PickBootstrap(p)
  BY <1>15 DEF PickBootstrap, FallbackFails
<1>16. CASE PutBootstrap(p)
  BY <1>16 DEF PutBootstrap
<1>17. CASE RecordMode(p)
  BY <1>17 DEF RecordMode, AfterRecord
<1>18. CASE RecordCount(p)
  BY <1>18 DEF RecordCount
<1>19. CASE RecordSince(p)
  BY <1>19 DEF RecordSince, AfterRecord
<1>20. CASE ClearSince(p)
  BY <1>20 DEF ClearSince, AfterRecord
<1>21. CASE IncrementFails(p)
  BY <1>21 DEF IncrementFails
<1>22. CASE AskRecordFails(p)
  BY <1>22 DEF AskRecordFails, AfterAsk
<1>23. CASE PutLocalFails(p)
  BY <1>23 DEF PutLocalFails, NoPromotion
<1>24. CASE FlagFails(p)
  BY <1>24 DEF FlagFails
<1>25. CASE PutBootstrapFails(p)
  BY <1>25 DEF PutBootstrapFails, FallbackFails
<1>26. CASE RecordFails(p)
  BY <1>26 DEF RecordFails, AfterRecord
<1> QED
  BY <1>0, <1>1, <1>2, <1>3, <1>4, <1>5, <1>6, <1>7, <1>8, <1>9, <1>10,
     <1>11, <1>12, <1>13, <1>14, <1>15, <1>16, <1>17, <1>18, <1>19, <1>20,
     <1>21, <1>22, <1>23, <1>24, <1>25, <1>26
  DEF Step, Run, IoFailure

\* RecordsFollow: mode, time file and resolver in step, up to what the one
\* working command has not recorded yet.
THEOREM RecordsKeepUp == Spec => []RecordsFollow
<1>1. Init => RecordsFollow
  BY DEF Init, RecordsFollow, Promoting, Lagging, At, Idle
<1>2. TypeOK /\ LockHeld /\ ListUsableAtPut /\ RecordsFollow /\ [Next]_vars
        => RecordsFollow'
  <2> SUFFICES ASSUME TypeOK, LockHeld, ListUsableAtPut, RecordsFollow, [Next]_vars
               PROVE  RecordsFollow'
    OBVIOUS
  <2>0. proc \in [Procs -> ProcState]
    BY DEF TypeOK
  <2> DEFINE Kept == mode' = mode /\ since' = since
             Idling(q) == proc'[q].pc \in {"idle", "lock", "dispatch"}
             Same(q) == proc'[q] = proc[q]
  <2> USE DEF Promoting, Lagging, Unrecorded, At, NewMode
  \* Nothing is recorded, and resolv.conf left alone or the firmware's; a
  \* command that stops half-way leaves the records disturbed.
  <2>k. ASSUME Kept, foreign' = TRUE \/ (resolv' = resolv /\ foreign' = foreign),
               \A q \in Procs :
                 Same(q) \/ (Idling(q) /\ (Working(q) => disturbed')),
               disturbed => disturbed'
        PROVE  RecordsFollow'
    <3>1. \A q \in Procs : disturbed' \/ Same(q) \/ (Idling(q) /\ ~Working(q))
      BY <2>k
    <3>2. ~disturbed' /\ (\A q \in Procs : ~Lagging(q)')
            => \A q \in Procs : ~Lagging(q)
      BY <3>1 DEF Working
    <3>3. ~disturbed' /\ (\A q \in Procs : ~Lagging(q)' /\ ~Unrecorded(q)')
            => \A q \in Procs : ~Lagging(q) /\ ~Unrecorded(q)
      BY <3>1 DEF Working
    <3>4. ~foreign' => resolver_is_local' = resolver_is_local /\ ~foreign
      BY <2>k DEF resolver_is_local
    <3> QED BY <2>k, <3>2, <3>3, <3>4 DEF RecordsFollow
  <2>1. ASSUME NEW p \in Procs, Step(p) PROVE RecordsFollow'
    <3>1. \A q \in Procs \ {p} : ~Working(q) /\ proc'[q] = proc[q]
      BY <2>0, <2>1, StepFrame DEF LockHeld, Step
    <3>2. \A q \in Procs \ {p} :
            proc[q].pc \in {"idle", "lock"} /\ proc'[q].pc \in {"idle", "lock"}
      BY <3>1 DEF Working
    <3>3. At(p, "put_boot") => proc[p].list # {LocalIP}
      <4>1. LocalIP \notin Independent
        BY GuardAssumption DEF GuardAssumption
      <4> QED BY <4>1 DEF ListUsableAtPut, Usable
    <3>4. /\ Promoting(p) => proc[p].goal \in {"operator", "reassert", "escape", "streak"}
          /\ At(p, "record") /\ ~foreign => (NewMode(p) = "local" <=> resolver_is_local)
          /\ proc[p].pc \in {"count", "since"}
               => mode = "bootstrap" /\ (~foreign => ~resolver_is_local)
          /\ At(p, "clear") => mode = "local" /\ (~foreign => resolver_is_local)
      BY DEF RecordsFollow
    <3>5. /\ ~disturbed /\ ~Lagging(p) => (since <=> mode = "bootstrap")
          /\ ~disturbed /\ ~foreign /\ ~Lagging(p) /\ ~Unrecorded(p)
               => (mode = "local" <=> resolver_is_local)
      BY <3>2 DEF RecordsFollow
    <3> QED BY <2>1, <3>2, <3>3, <3>4, <3>5, StepRecords DEF RecordsFollow
  <2>2. ASSUME NEW p \in Procs, Acquire(p) PROVE RecordsFollow'
    <3>1. Kept /\ disturbed' = disturbed /\ resolv' = resolv /\ foreign' = foreign
      BY <2>2 DEF Acquire, files, hist
    <3>2. \A q \in Procs : Same(q) \/ (Idling(q) /\ ~Working(q))
      BY <2>0, <2>2, GotoEffect DEF Acquire, Working
    <3> QED BY <2>k, <3>1, <3>2
  <2>3. ASSUME NEW p \in Procs, LockTimeout(p) PROVE RecordsFollow'
    <3>1. Kept /\ disturbed' = disturbed /\ resolv' = resolv /\ foreign' = foreign
      BY <2>3 DEF LockTimeout, files, hist
    <3>2. \A q \in Procs : Same(q) \/ (Idling(q) /\ ~Working(q))
      BY <2>0, <2>3 DEF LockTimeout, Idle, Working
    <3> QED BY <2>k, <3>1, <3>2
  <2>4. ASSUME NEW p \in Procs, Kill(p) PROVE RecordsFollow'
    <3>1. Kept /\ disturbed' = (disturbed \/ lock = p)
          /\ resolv' = resolv /\ foreign' = foreign
      BY <2>4 DEF Kill, files
    <3>2. \A q \in Procs : Same(q) \/ (Idling(q) /\ (Working(q) => disturbed'))
      BY <2>0, <2>4, <3>1, KillEffect DEF LockHeld
    <3> QED BY <2>k, <3>1, <3>2
  <2>5. ASSUME NEW p \in Procs, NEW c \in Commands, Start(p, c) PROVE RecordsFollow'
    <3>1. Kept /\ disturbed' = disturbed /\ resolv' = resolv /\ foreign' = foreign
      BY <2>5 DEF Start, files, hist
    <3>2. \A q \in Procs : Same(q) \/ (Idling(q) /\ ~Working(q))
      BY <2>0, <2>5, StartEffect DEF Start, Working
    <3> QED BY <2>k, <3>1, <3>2
  <2>6. CASE Reboot
    BY <2>6 DEF Reboot, RecordsFollow, Idle
  <2>7. CASE Beside
    <3>1. Kept /\ disturbed' = disturbed
      BY <2>7 DEF Beside, OrphanExits, FirmwareWrites, WanChanges, HealthChanges,
                  vars, files, hist
    <3> QED BY <2>k, <2>7, <3>1, BesideFrame, OtherWrites
  <2> QED BY <2>1, <2>2, <2>3, <2>4, <2>5, <2>6, <2>7, NextSplit
<1> QED BY <1>1, <1>2, TypeCorrect, MutualExclusion, PutsSafe, PTL DEF Spec

\* RecordsMatchResolver: between commands the recorded mode and fallback time
\* tell what the guard did to resolv.conf.
THEOREM RecordsMatch == Spec => []RecordsMatchResolver
<1>1. LockHeld /\ RecordsFollow => RecordsMatchResolver
  <2> SUFFICES ASSUME LockHeld, RecordsFollow, lock = "free", ~foreign, ~disturbed
               PROVE  /\ (mode = "local") <=> resolver_is_local
                      /\ since <=> (mode = "bootstrap")
    BY DEF RecordsMatchResolver
  <2>1. \A p \in Procs : ~Working(p)
    BY LockWords DEF LockHeld
  <2>2. \A p \in Procs : ~Lagging(p) /\ ~Unrecorded(p)
    BY <2>1 DEF Lagging, Unrecorded, Working, At
  <2> QED BY <2>2 DEF RecordsFollow
<1> QED BY <1>1, MutualExclusion, RecordsKeepUp, PTL
=============================================================================
