------------------------- MODULE Breakglass_proofs -------------------------
(***************************************************************************)
(* What edge-dns-breakglass.sh prints of itself is so, and the flag goes   *)
(* last, for any processes beside it, however commands are ended and       *)
(* retried, and wherever power is lost.  The invariant has two parts: what *)
(* the guard command the script waits for has done, and what the script    *)
(* has done at each of its own steps.                                      *)
(***************************************************************************)
EXTENDS Breakglass, DnsGuard_proofs

-----------------------------------------------------------------------------
(* The invariant.                                                          *)

Shape ==
  /\ proc \in [Procs -> ProcState] /\ flag \in BOOLEAN
  /\ nvram \in Modes /\ committed \in Modes
  /\ snapshot \in Modes \cup {NoFile, Garbled}
  /\ desk \in ScriptState

\* A guard command runs for the script, which waits for it; all others are
\* cron's.  breakglass-on that has gone past its step, or has ended well, has
\* set the flag, and breakglass-off that has ended well has removed it.
Commanded ==
  /\ ~Returned => desk.pc \in DOMAIN Called /\ proc[Desk].cmd = Called[desk.pc]
  /\ \A p \in Procs \ {Desk} : ~At(p, "idle") => proc[p].cmd = "auto"
  /\ \A p \in Procs : At(p, "arm") => proc[p].cmd = "on"
  /\ On("arm") => \/ Returned /\ ~Works
                  \/ proc[Desk].pc \in {"lock", "dispatch", "arm"}
                  \/ flag
  /\ On("clear") => \/ Returned /\ (Works => ~flag)
                    \/ proc[Desk].pc \in {"lock", "dispatch"}

\* Which phase a step is of.
PhaseState ==
  /\ On("save") => desk.phase = "on"
  /\ On("arm") => desk.phase \in {"on", "rearm"}
  /\ desk.pc \in {"set_wan", "set_wan0", "commit"} => desk.phase # "none"
  /\ desk.pc \in {"restart", "boot"} => desk.phase \in {"on", "off", "rearm"}
  /\ desk.pc \in {"wait", "validate"} => desk.phase \in {"on", "off"}
  /\ desk.pc \in {"ready", "reready", "clear", "promote", "drop"} => desk.phase = "off"

\* After a key was set, and after both were.
PastBoth == desk.pc \in {"commit", "restart", "wait", "boot", "validate",
                         "reready", "clear", "promote", "drop"}
PastArm == desk.pc \in {"set_wan", "set_wan0"} \/ PastBoth

\* The switch is being armed, and nothing that counts has failed.
Arming == desk.phase = "on" \/ (desk.phase = "rearm" /\ ~desk.failed)

ArmedState ==
  Arming => /\ PastArm => flag
            /\ On("set_wan0") => nvram["wan"] = "1"
            /\ PastBoth => nvram = Safe

\* A mode to put back is on record.
SavedState ==
  /\ desk.phase = "rollback" => snapshot \in Modes
  /\ desk.phase = "on" /\ ~On("save") => snapshot \in Modes
  /\ desk.phase = "off" =>
       /\ desk.pc \in {"set_wan", "set_wan0"} => snapshot \in Modes
       /\ On("set_wan0") => nvram["wan"] = snapshot["wan"]
       /\ PastBoth => snapshot = NoFile \/ nvram = snapshot
       /\ PastBoth /\ desk.pc \notin {"commit", "restart"} => desk.dispatched

ClearedState == desk.pc \in {"promote", "drop"} => ~flag

Sequence == PhaseState /\ ArmedState /\ SavedState /\ ClearedState

BgInv == Shape /\ Commanded /\ Sequence

-----------------------------------------------------------------------------
(* Steps of a guard command.                                               *)

\* What a step of any command does to it and to the flag.
Advances(p) ==
  /\ proc' \in [Procs -> ProcState]
  /\ \A q \in Procs \ {p} : proc'[q] = proc[q]
  /\ ~At(p, "idle")
  /\ proc'[p].pc = "idle" \/ proc'[p].cmd = proc[p].cmd
  /\ \/ flag' = flag
     \/ flag' = TRUE /\ At(p, "arm")
     \/ flag' = FALSE /\ proc[p].cmd = "off"
  /\ proc'[p].pc = "arm" => proc[p].cmd = "on"
  /\ proc[p].cmd = "on" /\ proc[p].pc \in {"lock", "dispatch", "arm"} =>
       \/ proc'[p].pc \in {"dispatch", "arm"} \/ flag'
       \/ proc'[p].pc = "idle" /\ proc'[p].rc # "ok"
  /\ proc[p].cmd = "off" /\ proc[p].pc \in {"lock", "dispatch"} =>
       \/ proc'[p].pc = "dispatch"
       \/ proc'[p].pc = "idle" /\ (proc'[p].rc = "ok" => ~flag')

\* To another place in the command.
Moves(p) ==
  /\ proc' \in [Procs -> ProcState] /\ \A q \in Procs \ {p} : proc'[q] = proc[q]
  /\ proc'[p].cmd = proc[p].cmd

\* A command goes to another label.
LEMMA GotoMoves ==
  ASSUME proc \in [Procs -> ProcState], NEW p \in Procs, NEW label \in Labels,
         NEW goal \in Goals, Goto(p, label, goal)
  PROVE  Moves(p) /\ proc'[p].pc = label
BY GotoType, GotoEffect DEF Moves

\* So it does with the candidates it has read.
LEMMA CarryMoves ==
  ASSUME proc \in [Procs -> ProcState], NEW p \in Procs, NEW label \in Labels,
         Carry(p, label, bootstrap_dns(wan))
  PROVE  Moves(p) /\ proc'[p].pc = label
<1>1. bootstrap_dns(wan) \in SUBSET Servers
  BY BootstrapType, ConstantTypes
<1> QED BY <1>1, CarryType, CarryEffect DEF Moves

\* It ends with a status.
LEMMA FinishEnds ==
  ASSUME proc \in [Procs -> ProcState], NEW p \in Procs,
         NEW r \in {"ok", "fail", "killed"}, Finish(p, r)
  PROVE  /\ proc' \in [Procs -> ProcState] /\ \A q \in Procs \ {p} : proc'[q] = proc[q]
         /\ proc'[p].pc = "idle" /\ proc'[p].rc = r
BY FinishType, FinishEffect DEF Finish, Idle

\* Every step of a guard command is one of these.
LEMMA GuardStep ==
  ASSUME proc \in [Procs -> ProcState], NEW p \in Procs, Run(p) \/ IoFailure(p)
  PROVE  Advances(p)
<1> USE GotoMoves, CarryMoves, FinishEnds DEF Advances, Moves, At, Labels, Goals
<1>0. proc[p].goal \in Goals /\ proc[p].cmd \in Commands \cup {"none"}
  BY DEF ProcState
<1>1. CASE Acquire(p)
  BY <1>1, <1>0 DEF Acquire
<1>2. CASE LockTimeout(p)
  BY <1>2, IdleType DEF LockTimeout, Idle
<1>3. CASE AutoDispatch(p)
  BY <1>3, <1>0 DEF AutoDispatch
<1>4. CASE ReadyDispatch(p)
  BY <1>4, <1>0 DEF ReadyDispatch
<1>5. CASE ResetDispatch(p)
  BY <1>5, <1>0 DEF ResetDispatch
<1>6. CASE breakglass_off(p)
  BY <1>6, <1>0 DEF breakglass_off
<1>7. CASE show_metrics(p)
  BY <1>7, <1>0 DEF show_metrics
<1>8. CASE ProbePass(p)
  BY <1>8, <1>0, NextCheckType, NextCheckEffect DEF ProbePass
<1>9. CASE ProbeFail(p)
  BY <1>9, <1>0 DEF ProbeFail
<1>10. CASE LookAtResolver(p)
  BY <1>10, <1>0 DEF LookAtResolver
<1>11. CASE IncrementStreak(p)
  BY <1>11, <1>0 DEF IncrementStreak
<1>12. CASE ListBootstrap(p)
  BY <1>12, <1>0 DEF ListBootstrap, AfterAsk
<1>13. CASE AskBootstrap(p)
  BY <1>13, <1>0 DEF AskBootstrap, AfterAsk
<1>14. CASE PromoteGate(p)
  BY <1>14, <1>0 DEF PromoteGate, NoPromotion
<1>15. CASE PutLocal(p)
  BY <1>15, <1>0 DEF PutLocal
<1>16. CASE breakglass_on(p)
  BY <1>16, <1>0 DEF breakglass_on
<1>17. CASE PickBootstrap(p)
  BY <1>17, <1>0 DEF PickBootstrap, FallbackFails
<1>18. CASE PutBootstrap(p)
  BY <1>18, <1>0 DEF PutBootstrap
<1>19. CASE RecordMode(p)
  BY <1>19, <1>0 DEF RecordMode, AfterRecord, NewMode
<1>20. CASE RecordCount(p)
  BY <1>20, <1>0 DEF RecordCount
<1>21. CASE RecordSince(p)
  BY <1>21, <1>0 DEF RecordSince, AfterRecord
<1>22. CASE ClearSince(p)
  BY <1>22, <1>0 DEF ClearSince, AfterRecord
<1>23. CASE IncrementFails(p)
  BY <1>23, <1>0 DEF IncrementFails
<1>24. CASE AskRecordFails(p)
  BY <1>24, <1>0 DEF AskRecordFails, AfterAsk
<1>25. CASE PutLocalFails(p)
  BY <1>25, <1>0 DEF PutLocalFails, NoPromotion
<1>26. CASE FlagFails(p)
  BY <1>26, <1>0 DEF FlagFails
<1>27. CASE PutBootstrapFails(p)
  BY <1>27, <1>0 DEF PutBootstrapFails, FallbackFails
<1>28. CASE RecordFails(p)
  BY <1>28, <1>0 DEF RecordFails, AfterRecord
<1> QED
  BY <1>1, <1>2, <1>3, <1>4, <1>5, <1>6, <1>7, <1>8, <1>9, <1>10, <1>11, <1>12, <1>13, <1>14,
     <1>15, <1>16, <1>17, <1>18, <1>19, <1>20, <1>21, <1>22, <1>23, <1>24, <1>25, <1>26, <1>27,
     <1>28
  DEF Run, IoFailure

-----------------------------------------------------------------------------
(* Steps of the script.                                                    *)

\* Only arm calls breakglass-on, and only clear breakglass-off.
LEMMA CalledType ==
  /\ DOMAIN Called = {"arm", "ready", "boot", "reready", "clear", "promote"}
  /\ \A label \in DOMAIN Called : Called[label] \in Commands
  /\ Called["arm"] = "on" /\ Called["clear"] = "off"
  /\ \A label \in DOMAIN Called : Called[label] = "on" => label = "arm"
  /\ \A label \in DOMAIN Called : Called[label] = "off" => label = "clear"
BY DEF Called, Commands

\* A command is started when the script goes on to wait for one.
LEMMA ProceedEffect ==
  ASSUME Shape, NEW d, Proceed(d)
  PROVE  /\ desk' = d /\ proc' \in [Procs -> ProcState]
         /\ \A q \in Procs \ {Desk} : proc'[q] = proc[q]
         /\ d.pc \notin DOMAIN Called => proc' = proc
         /\ d.pc \in DOMAIN Called =>
              proc'[Desk].pc = "lock" /\ proc'[Desk].cmd = Called[d.pc]
<1>1. Desk \in Procs
  BY BreakglassAssumption DEF BreakglassAssumption
<1>2. CASE d.pc \notin DOMAIN Called
  BY <1>2 DEF Proceed, Shape
<1>3. CASE d.pc \in DOMAIN Called
  <2> DEFINE new == [Idle("ok") EXCEPT !.pc = "lock", !.cmd = Called[d.pc]]
  <2>1. Called[d.pc] \in Commands
    BY <1>3, CalledType
  <2>2. new \in ProcState /\ new.pc = "lock" /\ new.cmd = Called[d.pc]
    BY <2>1, ChecksType DEF Idle, ProcState, Labels, Goals
  <2>3. proc' = [proc EXCEPT ![Desk] = new] /\ desk' = d
    BY <1>3 DEF Proceed
  <2> QED BY <1>1, <1>3, <2>2, <2>3 DEF Shape
<1> QED BY <1>2, <1>3

\* So the commands stay as they should, whatever step of the script it is.
LEMMA ProceedCommanded ==
  ASSUME Shape, Commanded, NEW d, Proceed(d), Returned, flag' = flag
  PROVE  Commanded'
<1>1. Desk \in Procs
  BY BreakglassAssumption DEF BreakglassAssumption
<1>2. CASE d.pc \notin DOMAIN Called
  BY <1>1, <1>2, ProceedEffect, CalledType DEF Commanded, Returned, Works, On, At
<1>3. CASE d.pc \in DOMAIN Called
  BY <1>1, <1>3, ProceedEffect, CalledType DEF Commanded, Returned, Works, On, At
<1> QED BY <1>2, <1>3

ScriptSteps == Script \/ ScriptFailure \/ BeginOn \/ BeginOff

\* The script moves only when no command of its own is running.
LEMMA ScriptReturned ==
  ASSUME Commanded, ScriptSteps
  PROVE  Returned
BY CalledType
DEF ScriptSteps, Script, ScriptFailure, Commanded, On, save_wan_dns_state, Armed, SetNvram,
    SetKey, CommitNvram, RestartSubmitted, RestartSkipped, wait_for_wan_ip, BootstrapWorks,
    BootstrapRetried, BootstrapGivenUp, validate_dns, ReadyChecked, ClearSteps, Checked,
    DropSnapshot, SaveFails, NvramFails, RestartFails, WanIpTimesOut, InternetIpFails,
    DropFails, BeginOn, BeginOff

\* Where a way back begins, and where the script ends, nothing is asked for yet.
LEMMA RearmSequence ==
  ASSUME Shape, Rearm
  PROVE  Sequence'
<1>1. desk'.pc = "arm" /\ desk'.phase = "rearm"
  BY DEF Rearm, Proceed, Shape, ScriptState
<1> QED
  BY <1>1 DEF Sequence, PhaseState, PastBoth, PastArm, ArmedState, SavedState, ClearedState, On

\* At the end nothing is asked for either.
LEMMA EndSequence ==
  ASSUME NEW r, End(r)
  PROVE  Sequence'
<1>1. desk'.pc = "idle" /\ desk'.phase = "none"
  BY DEF End, Proceed, AtRest
<1> QED
  BY <1>1
  DEF Sequence, PhaseState, PastBoth, PastArm, Arming, ArmedState, SavedState, ClearedState, On

\* Only the label changes.
LEMMA ToEffect ==
  ASSUME Shape, NEW label, To(label)
  PROVE  desk' = [desk EXCEPT !.pc = label]
BY DEF To, Proceed

\* The script goes on as some d, and the rest is as it should be.
Goes ==
  /\ \E d \in ScriptState : Proceed(d)
  /\ flag' = flag
  /\ nvram' \in Modes /\ committed' \in Modes
  /\ snapshot' \in Modes \cup {NoFile, Garbled}

\* The modes are functions of the two keys.
LEMMA ModeFacts ==
  /\ Safe \in Modes /\ Safe["wan"] = "1" /\ Safe["wan0"] = "1"
  /\ NoFile \notin Modes /\ Garbled \notin Modes /\ NoFile # Garbled
  /\ \A m \in Modes, n \in Modes :
       m["wan"] = n["wan"] /\ m["wan0"] = n["wan0"] => m = n
  /\ \A m \in Modes : m["wan"] \in {"0", "1", "empty"} /\ m["wan0"] \in {"0", "1", "empty"}
  /\ \A m \in Modes : \A k \in Keys : \A v \in {"0", "1", "empty"} :
       [m EXCEPT ![k] = v] \in Modes
<1>1. NoFile["wan"] = "none" /\ Garbled["wan"] = "invalid"
  BY DEF NoFile, Garbled, Keys
<1>2. \A m \in Modes : m["wan"] \in {"0", "1", "empty"} /\ m["wan0"] \in {"0", "1", "empty"}
  BY DEF Modes, Keys
<1>3. Safe \in Modes /\ Safe["wan"] = "1" /\ Safe["wan0"] = "1"
  BY DEF Safe, Modes, Keys
<1>4. ASSUME NEW m \in Modes, NEW n \in Modes, m["wan"] = n["wan"], m["wan0"] = n["wan0"]
      PROVE  m = n
  BY <1>4 DEF Modes, Keys
<1>5. ASSUME NEW m \in Modes, NEW k \in Keys, NEW v \in {"0", "1", "empty"}
      PROVE  [m EXCEPT ![k] = v] \in Modes
  BY DEF Modes
<1> QED BY <1>1, <1>2, <1>3, <1>4, <1>5

\* What a key is set to: a mode that is on record.
LEMMA TargetType ==
  ASSUME BgInv, On("set_wan") \/ On("set_wan0")
  PROVE  /\ Target \in Modes
         /\ Arming => Target = Safe
         /\ desk.phase = "off" => Target = snapshot
BY ModeFacts DEF BgInv, Shape, ScriptState, Sequence, PhaseState, SavedState, Target, On, Arming

\* The script goes on to one of its labels, and what it writes is of its kind.
LEMMA ScriptGoes ==
  ASSUME BgInv, ScriptSteps
  PROVE  Goes
<1> USE BreakglassAssumption
    DEF Goes, BgInv, Shape, ScriptState, Called, To, End, AtRest, OnlyScriptMoves, On, Modes,
        Keys, Safe, NoFile, Garbled, Sequence, SavedState, rest, BreakglassAssumption
<1>0. 1 \in 1..MaxTries /\ \A n \in 1..MaxTries : n < MaxTries => n + 1 \in 1..MaxTries
  OBVIOUS
<1>1. CASE save_wan_dns_state
  BY <1>1, <1>0 DEF save_wan_dns_state
<1>2. CASE Armed
  BY <1>2, <1>0 DEF Armed, Works
<1>3. CASE SetKey("set_wan", "wan")
  <2>1. Target["wan"] \in {"0", "1", "empty"}
    BY <1>3, TargetType, ModeFacts DEF SetKey
  <2>2. nvram' \in Modes
    BY <1>3, <2>1, ModeFacts DEF SetKey, Keys
  <2> HIDE DEF Modes
  <2> QED BY <1>3, <1>0, <2>2 DEF SetKey
<1>4. CASE SetKey("set_wan0", "wan0")
  <2>1. Target["wan0"] \in {"0", "1", "empty"}
    BY <1>4, TargetType, ModeFacts DEF SetKey
  <2>2. nvram' \in Modes
    BY <1>4, <2>1, ModeFacts DEF SetKey, Keys
  <2> HIDE DEF Modes
  <2> QED BY <1>4, <1>0, <2>2 DEF SetKey, NvramDone
<1>5. CASE CommitNvram
  BY <1>5, <1>0 DEF CommitNvram, NvramDone
<1>6. CASE RestartSubmitted
  BY <1>6, <1>0 DEF RestartSubmitted, AfterRestart
<1>7. CASE RestartSkipped
  BY <1>7, <1>0 DEF RestartSkipped
<1>8. CASE wait_for_wan_ip
  BY <1>8, <1>0 DEF wait_for_wan_ip
<1>9. CASE BootstrapWorks
  BY <1>9, <1>0 DEF BootstrapWorks, EndOfRearm
<1>10. CASE BootstrapRetried
  BY <1>10, <1>0 DEF BootstrapRetried
<1>11. CASE BootstrapGivenUp
  BY <1>11, <1>0 DEF BootstrapGivenUp, EndOfRearm, Failed, Rearm
<1>12. CASE validate_dns
  BY <1>12, <1>0 DEF validate_dns, Rearm
<1>13. CASE ReadyChecked
  <2>1. nvram' \in Modes
    BY <1>13, ModeFacts DEF ReadyChecked, Keys
  <2>2. \/ End("blocked") \/ To("restart") \/ Rearm \/ To("set_wan")
    BY <1>13 DEF ReadyChecked
  <2>3. UNCHANGED <<flag, committed, snapshot>>
    BY <1>13 DEF ReadyChecked
  <2> HIDE DEF Modes
  <2> QED BY <1>0, <2>1, <2>2, <2>3 DEF Rearm
<1>14. CASE Checked("reready", "clear")
  BY <1>14, <1>0 DEF Checked, Rearm
<1>15. CASE Checked("clear", "promote")
  BY <1>15, <1>0 DEF Checked, Rearm
<1>16. CASE Checked("promote", "drop")
  BY <1>16, <1>0 DEF Checked, Rearm
<1>17. CASE DropSnapshot
  BY <1>17, <1>0 DEF DropSnapshot
<1>18. CASE SaveFails
  BY <1>18, <1>0 DEF SaveFails
<1>19. CASE NvramFails
  BY <1>19, <1>0 DEF NvramFails, NvramBroken, Rollback, Rearm, Target
<1>20. CASE RestartFails
  BY <1>20, <1>0 DEF RestartFails, AfterRestart
<1>21. CASE WanIpTimesOut
  BY <1>21, <1>0 DEF WanIpTimesOut, Failed, Rearm
<1>22. CASE InternetIpFails
  BY <1>22, <1>0 DEF InternetIpFails
<1>23. CASE DropFails
  BY <1>23, <1>0 DEF DropFails, Rearm
<1>24. CASE BeginOn
  BY <1>24, <1>0 DEF BeginOn
<1>25. CASE BeginOff
  BY <1>25, <1>0 DEF BeginOff
<1> QED
  BY <1>1, <1>2, <1>3, <1>4, <1>5, <1>6, <1>7, <1>8, <1>9, <1>10, <1>11, <1>12, <1>13, <1>14,
  <1>15, <1>16, <1>17, <1>18, <1>19, <1>20, <1>21, <1>22, <1>23, <1>24, <1>25
  DEF ScriptSteps, Script, ScriptFailure, SetNvram, ClearSteps

\* breakglass-on has come back: with it the flag, unless its failure is counted.
LEMMA ArmedSequence ==
  ASSUME BgInv, Armed
  PROVE  Sequence'
<1>r. Returned
  BY ScriptReturned DEF BgInv, ScriptSteps, Script, ClearSteps
<1>1. CASE desk.phase = "on" /\ ~Works
  <2>1. End("fail")
    BY <1>1 DEF Armed
  <2> QED BY <2>1, EndSequence
<1>2. CASE ~(desk.phase = "on" /\ ~Works)
  <2>1. desk' = [desk EXCEPT !.pc = "set_wan", !.failed = ~Works] /\ On("arm")
    BY <1>2 DEF Armed, Proceed
  <2>2. desk'.pc = "set_wan" /\ desk'.phase = desk.phase /\ (desk'.failed \/ Works)
    BY <2>1 DEF BgInv, Shape, ScriptState
  <2>3. Works => flag
    BY <1>r, <2>1 DEF BgInv, Commanded, Returned, At
  <2>4. UNCHANGED <<flag, snapshot>>
    BY DEF Armed, OnlyScriptMoves, rest
  <2>5. desk.phase \in {"on", "rearm"} /\ (desk.phase = "on" => snapshot \in Modes)
    BY <2>1 DEF BgInv, Sequence, PhaseState, SavedState, On
  <2>6. Arming' => flag'
    BY <1>2, <2>2, <2>3, <2>4, <2>5 DEF Arming
  <2> QED
    BY <2>2, <2>4, <2>5, <2>6
    DEF Sequence, PhaseState, PastBoth, PastArm, ArmedState, SavedState, ClearedState, On
<1> QED BY <1>1, <1>2

\* The first key is set to what its phase wants.
LEMMA FirstKeySequence ==
  ASSUME BgInv, SetKey("set_wan", "wan")
  PROVE  Sequence'
<1>1. On("set_wan") /\ nvram' = [nvram EXCEPT !["wan"] = Target["wan"]]
  BY DEF SetKey
<1>2. UNCHANGED <<flag, snapshot>>
  BY DEF SetKey, rest
<1>3. desk'.pc = "set_wan0" /\ desk'.phase = desk.phase /\ desk'.failed = desk.failed
  BY DEF SetKey, Proceed, BgInv, Shape, ScriptState
<1>4. nvram'["wan"] = Target["wan"]
  BY <1>1 DEF BgInv, Shape, Modes, Keys
<1>5. Arming' = Arming
  BY <1>3 DEF Arming
<1>6. (Arming => nvram'["wan"] = "1") /\ (desk.phase = "off" => nvram'["wan"] = snapshot["wan"])
  BY <1>1, <1>4, TargetType, ModeFacts
<1> QED
  BY <1>1, <1>2, <1>3, <1>5, <1>6
  DEF BgInv, Sequence, PhaseState, PastBoth, PastArm, ArmedState, SavedState, ClearedState, On

\* With the second both are, whether or not anything had to be written.
LEMMA SecondKeySequence ==
  ASSUME BgInv, SetKey("set_wan0", "wan0")
  PROVE  Sequence'
<1>1. On("set_wan0") /\ nvram' = [nvram EXCEPT !["wan0"] = Target["wan0"]]
  BY DEF SetKey
<1>2. UNCHANGED <<flag, snapshot>>
  BY DEF SetKey, rest
<1>3. To("commit") \/ (To("restart") /\ desk.phase # "rollback") \/ End("fail")
  BY DEF SetKey, NvramDone
<1>4. CASE End("fail")
  BY <1>4, EndSequence
<1>5. CASE ~End("fail")
  <2>1. desk'.pc \in {"commit", "restart"} /\ desk'.phase = desk.phase /\ desk'.failed = desk.failed
    BY <1>3, <1>5 DEF To, Proceed, BgInv, Shape, ScriptState
  <2>2. desk'.pc = "restart" => desk.phase # "rollback"
    BY <1>3, <1>5 DEF To, Proceed, BgInv, Shape, ScriptState
  <2>3. Target \in Modes /\ nvram \in Modes
    BY <1>1, TargetType DEF BgInv, Shape
  <2>4. nvram' \in Modes /\ nvram'["wan0"] = Target["wan0"] /\ nvram'["wan"] = nvram["wan"]
    BY <1>1, <2>3 DEF Modes, Keys
  <2>5. Arming \/ desk.phase = "off" => nvram["wan"] = Target["wan"]
    BY <1>1, TargetType, ModeFacts DEF BgInv, Sequence, ArmedState, SavedState
  <2>6. Arming \/ desk.phase = "off" => nvram' = Target
    BY <2>3, <2>4, <2>5, ModeFacts
  <2>7. Arming' = Arming
    BY <2>1 DEF Arming
  <2>8. (Arming => nvram' = Safe) /\ (desk.phase = "off" => nvram' = snapshot)
    BY <1>1, <2>6, TargetType
  <2>9. desk.phase # "none"
    BY <1>1 DEF BgInv, Sequence, PhaseState, On
  <2>10. desk.phase \in {"on", "off", "rollback", "rearm"}
    BY <2>9 DEF BgInv, Shape, ScriptState
  <2> QED
    BY <1>1, <1>2, <2>1, <2>2, <2>7, <2>8, <2>10
    DEF BgInv, Sequence, PhaseState, PastBoth, PastArm, ArmedState, SavedState, ClearedState, On
<1> QED BY <1>4, <1>5

\* No server answered: only on goes on, with a failure.
LEMMA GivenUpSequence ==
  ASSUME BgInv, BootstrapGivenUp
  PROVE  Sequence'
<1>1. On("boot") /\ UNCHANGED <<flag, snapshot, nvram>>
  BY DEF BootstrapGivenUp, OnlyScriptMoves, rest
<1>2. CASE desk.phase = "rearm"
  <2>1. \E r \in {"partial", "rearmed"} : End(r)
    BY <1>2 DEF BootstrapGivenUp, EndOfRearm
  <2> QED BY <2>1, EndSequence
<1>3. CASE desk.phase = "off"
  <2>1. Rearm
    BY <1>3 DEF BootstrapGivenUp, Failed
  <2> QED BY <2>1, RearmSequence DEF BgInv
<1>4. CASE desk.phase = "on"
  <2>1. desk' = [desk EXCEPT !.pc = "validate", !.failed = TRUE]
    BY <1>4 DEF BootstrapGivenUp, Failed, Proceed
  <2>2. desk'.pc = "validate" /\ desk'.phase = "on"
    BY <1>4, <2>1 DEF BgInv, Shape, ScriptState
  <2> QED
    BY <1>1, <1>4, <2>2
    DEF BgInv, Sequence, PhaseState, PastBoth, PastArm, Arming, ArmedState, SavedState,
        ClearedState, On
<1> QED BY <1>1, <1>2, <1>3, <1>4 DEF BgInv, Sequence, PhaseState, On

\* breakglass-off has come back: without it the script does not go on.
LEMMA ClearedSequence ==
  ASSUME BgInv, Checked("clear", "promote")
  PROVE  Sequence'
<1>r. Returned
  BY ScriptReturned DEF BgInv, ScriptSteps, Script, ClearSteps
<1>1. On("clear") /\ UNCHANGED <<flag, snapshot, nvram>>
  BY DEF Checked, OnlyScriptMoves, rest
<1>2. CASE Works
  <2>1. desk' = [desk EXCEPT !.pc = "promote"]
    BY <1>2, ToEffect DEF Checked, BgInv
  <2>2. desk'.pc = "promote" /\ desk'.phase = desk.phase /\ desk'.dispatched = desk.dispatched
    BY <2>1 DEF BgInv, Shape, ScriptState
  <2>3. ~flag
    BY <1>r, <1>1, <1>2 DEF BgInv, Commanded, Returned, At
  <2> QED
    BY <1>1, <2>2, <2>3
    DEF BgInv, Sequence, PhaseState, PastBoth, PastArm, Arming, ArmedState, SavedState,
        ClearedState, On
<1>3. CASE ~Works
  <2>1. Rearm
    BY <1>3 DEF Checked
  <2> QED BY <2>1, RearmSequence DEF BgInv
<1> QED BY <1>2, <1>3

\* The WAN has no address: only on goes on, with a failure.
LEMMA NoAddressSequence ==
  ASSUME BgInv, WanIpTimesOut
  PROVE  Sequence'
<1>1. On("wait") /\ UNCHANGED <<flag, snapshot, nvram>>
  BY DEF WanIpTimesOut, OnlyScriptMoves, rest
<1>2. CASE desk.phase = "off"
  <2>1. Rearm
    BY <1>2 DEF WanIpTimesOut, Failed
  <2> QED BY <2>1, RearmSequence DEF BgInv
<1>3. CASE desk.phase = "on"
  <2>1. desk' = [desk EXCEPT !.pc = "boot", !.failed = TRUE]
    BY <1>3 DEF WanIpTimesOut, Failed, Proceed
  <2>2. desk'.pc = "boot" /\ desk'.phase = "on"
    BY <1>3, <2>1 DEF BgInv, Shape, ScriptState
  <2> QED
    BY <1>1, <1>3, <2>2
    DEF BgInv, Sequence, PhaseState, PastBoth, PastArm, Arming, ArmedState, SavedState,
        ClearedState, On
<1> QED BY <1>1, <1>2, <1>3 DEF BgInv, Sequence, PhaseState, On

\* The steps of a phase are taken in their order.
LEMMA ScriptSequence ==
  ASSUME BgInv, ScriptSteps
  PROVE  Sequence'
<1> USE DEF BgInv, Shape, ScriptState, OnlyScriptMoves, On, Proceed, rest, Sequence, PhaseState,
            PastBoth, PastArm, Arming, ArmedState, SavedState, ClearedState, Commanded, Modes,
            Keys, Safe, NoFile, Garbled
<1>1. CASE save_wan_dns_state
  BY <1>1, RearmSequence, EndSequence, ToEffect DEF save_wan_dns_state
<1>2. CASE Armed
  BY <1>2, ArmedSequence
<1>3. CASE SetKey("set_wan", "wan")
  BY <1>3, FirstKeySequence
<1>4. CASE SetKey("set_wan0", "wan0")
  BY <1>4, SecondKeySequence
<1>5. CASE CommitNvram
  BY <1>5, RearmSequence, EndSequence, ToEffect DEF CommitNvram, NvramDone
<1>6. CASE RestartSubmitted
  BY <1>6, RearmSequence, EndSequence, ToEffect DEF RestartSubmitted, AfterRestart
<1>7. CASE RestartSkipped
  BY <1>7, RearmSequence, EndSequence, ToEffect DEF RestartSkipped
<1>8. CASE wait_for_wan_ip
  BY <1>8, RearmSequence, EndSequence, ToEffect DEF wait_for_wan_ip
<1>9. CASE BootstrapWorks
  BY <1>9, RearmSequence, EndSequence, ToEffect DEF BootstrapWorks, EndOfRearm
<1>10. CASE BootstrapRetried
  BY <1>10, RearmSequence, EndSequence, ToEffect DEF BootstrapRetried
<1>11. CASE BootstrapGivenUp
  BY <1>11, GivenUpSequence
<1>12. CASE validate_dns
  BY <1>12, RearmSequence, EndSequence, ToEffect DEF validate_dns
<1>13. CASE ReadyChecked
  BY <1>13, RearmSequence, EndSequence, ToEffect DEF ReadyChecked
<1>14. CASE Checked("reready", "clear")
  BY <1>14, RearmSequence, EndSequence, ToEffect DEF Checked
<1>15. CASE Checked("clear", "promote")
  BY <1>15, ClearedSequence
<1>16. CASE Checked("promote", "drop")
  BY <1>16, RearmSequence, EndSequence, ToEffect DEF Checked
<1>17. CASE DropSnapshot
  BY <1>17, RearmSequence, EndSequence, ToEffect DEF DropSnapshot
<1>18. CASE SaveFails
  BY <1>18, RearmSequence, EndSequence, ToEffect DEF SaveFails
<1>19. CASE NvramFails
  BY <1>19, RearmSequence, EndSequence, ToEffect DEF NvramFails, NvramBroken, Rollback, Target
<1>20. CASE RestartFails
  BY <1>20, RearmSequence, EndSequence, ToEffect DEF RestartFails, AfterRestart
<1>21. CASE WanIpTimesOut
  BY <1>21, NoAddressSequence
<1>22. CASE InternetIpFails
  BY <1>22, RearmSequence, EndSequence, ToEffect DEF InternetIpFails
<1>23. CASE DropFails
  BY <1>23, RearmSequence, EndSequence, ToEffect DEF DropFails
<1>24. CASE BeginOn
  BY <1>24, RearmSequence, EndSequence, ToEffect DEF BeginOn
<1>25. CASE BeginOff
  BY <1>25, RearmSequence, EndSequence, ToEffect DEF BeginOff
<1> QED
  BY <1>1, <1>2, <1>3, <1>4, <1>5, <1>6, <1>7, <1>8, <1>9, <1>10, <1>11, <1>12, <1>13, <1>14,
  <1>15, <1>16, <1>17, <1>18, <1>19, <1>20, <1>21, <1>22, <1>23, <1>24, <1>25
  DEF ScriptSteps, Script, ScriptFailure, SetNvram, ClearSteps

-----------------------------------------------------------------------------
(* Every step keeps the invariant.                                         *)

\* The script begins at rest, with every process idle and the flag clear.
LEMMA BgInvInit == BreakglassInit => BgInv
<1> SUFFICES ASSUME BreakglassInit PROVE BgInv
  OBVIOUS
<1>1. proc = [p \in Procs |-> Idle("ok")] /\ flag = FALSE
  BY DEF BreakglassInit, Init
<1>2. Idle("ok") \in ProcState /\ Idle("ok").pc = "idle"
  BY IdleType DEF Idle
<1>3. desk.pc = "idle" /\ desk.phase = "none" /\ desk \in ScriptState
  BY BreakglassAssumption DEF BreakglassInit, BreakglassAssumption, AtRest, ScriptState
<1>4. Shape
  BY <1>1, <1>2, <1>3, BreakglassAssumption DEF BreakglassInit, BreakglassAssumption, Shape
<1>5. Commanded
  BY <1>1, <1>2, <1>3, BreakglassAssumption DEF BreakglassAssumption, Commanded, Returned, At, On
<1>6. Sequence
  BY <1>3
  DEF Sequence, PhaseState, PastBoth, PastArm, Arming, ArmedState, SavedState, ClearedState, On
<1> QED BY <1>4, <1>5, <1>6 DEF BgInv

\* The script at its own steps.
LEMMA ScriptKeeps ==
  ASSUME BgInv, ScriptSteps
  PROVE  BgInv'
<1>1. PICK d \in ScriptState : Proceed(d)
  BY ScriptGoes DEF Goes
<1>2. flag' = flag /\ nvram' \in Modes /\ committed' \in Modes
      /\ snapshot' \in Modes \cup {NoFile, Garbled}
  BY ScriptGoes DEF Goes
<1>3. Shape'
  BY <1>1, <1>2, ProceedEffect DEF BgInv, Shape
<1>4. Commanded'
  BY <1>1, <1>2, ProceedCommanded, ScriptReturned DEF BgInv
<1> QED BY <1>3, <1>4, ScriptSequence DEF BgInv

\* The flag goes only through the script's own breakglass-off, and comes only
\* through its own breakglass-on.
LEMMA GuardFlag ==
  ASSUME BgInv, NEW p \in Procs, Guard(p)
  PROVE  \/ flag' = flag
         \/ flag' = TRUE /\ p = Desk /\ On("arm")
         \/ flag' = FALSE /\ p = Desk /\ On("clear")
<1>1. Advances(p)
  BY GuardStep DEF Guard, BgInv, Shape
<1>2. p # Desk => proc[p].cmd = "auto"
  BY <1>1 DEF BgInv, Commanded, Advances
<1>3. p = Desk => desk.pc \in DOMAIN Called /\ proc[Desk].cmd = Called[desk.pc]
  BY <1>1 DEF BgInv, Commanded, Advances, Returned
<1>4. At(p, "arm") => proc[p].cmd = "on"
  BY DEF BgInv, Commanded
<1> QED BY <1>1, <1>2, <1>3, <1>4, CalledType DEF Advances, On

\* A guard command at its steps, the script's or another.
LEMMA GuardKeeps ==
  ASSUME BgInv, NEW p \in Procs, Guard(p)
  PROVE  BgInv'
<1>1. Advances(p) /\ UNCHANGED <<nvram, committed, snapshot, desk>>
  BY GuardStep DEF Guard, BgInv, Shape, rvars
<1>2. Shape'
  BY <1>1 DEF BgInv, Shape, Advances
<1>3. Sequence'
  BY <1>1, GuardFlag
  DEF BgInv, Sequence, PhaseState, PastBoth, PastArm, Arming, ArmedState, SavedState,
      ClearedState, On
<1>4. Desk \in Procs
  BY BreakglassAssumption DEF BreakglassAssumption
<1>5. CASE p # Desk
  <2>1. proc[p].cmd = "auto" /\ proc'[Desk] = proc[Desk] /\ flag' = flag
    BY <1>1, <1>4, <1>5, GuardFlag DEF BgInv, Commanded, Advances
  <2>2. proc'[p].pc # "arm"
    BY <1>1, <2>1 DEF Advances
  <2>3. (~Returned => desk.pc \in DOMAIN Called /\ proc[Desk].cmd = Called[desk.pc])'
    BY <1>1, <2>1 DEF BgInv, Commanded, Returned, At
  <2>4. \A q \in Procs \ {Desk} : (~At(q, "idle") => proc[q].cmd = "auto")'
    BY <1>1, <2>1 DEF BgInv, Commanded, Advances, At
  <2>5. \A q \in Procs : (At(q, "arm") => proc[q].cmd = "on")'
    BY <1>1, <2>2 DEF BgInv, Commanded, Advances, At
  <2>6. (On("arm") => \/ Returned /\ ~Works
                     \/ proc[Desk].pc \in {"lock", "dispatch", "arm"}
                     \/ flag)'
    BY <1>1, <2>1 DEF BgInv, Commanded, Returned, Works, At, On
  <2>7. (On("clear") => \/ Returned /\ (Works => ~flag)
                       \/ proc[Desk].pc \in {"lock", "dispatch"})'
    BY <1>1, <2>1 DEF BgInv, Commanded, Returned, Works, At, On
  <2> QED BY <1>2, <1>3, <2>3, <2>4, <2>5, <2>6, <2>7 DEF BgInv, Commanded
<1>6. CASE p = Desk
  <2>1. desk.pc \in DOMAIN Called /\ proc[Desk].cmd = Called[desk.pc] /\ ~Returned
    BY <1>1, <1>6 DEF BgInv, Commanded, Advances, Returned
  <2>2. (~Returned => desk.pc \in DOMAIN Called /\ proc[Desk].cmd = Called[desk.pc])'
    BY <1>1, <1>6, <2>1 DEF Advances, Returned, At
  <2>3. \A q \in Procs \ {Desk} : (~At(q, "idle") => proc[q].cmd = "auto")'
    BY <1>1, <1>6 DEF BgInv, Commanded, Advances, At
  <2>4. \A q \in Procs : (At(q, "arm") => proc[q].cmd = "on")'
    BY <1>1, <1>6 DEF BgInv, Commanded, Advances, At
  <2>5. (On("arm") => \/ Returned /\ ~Works
                     \/ proc[Desk].pc \in {"lock", "dispatch", "arm"}
                     \/ flag)'
    <3> SUFFICES ASSUME On("arm")
                 PROVE  (\/ Returned /\ ~Works
                         \/ proc[Desk].pc \in {"lock", "dispatch", "arm"}
                         \/ flag)'
      BY <1>1 DEF On
    <3>1. proc[Desk].cmd = "on"
      BY <2>1, CalledType DEF On
    <3>2. proc[Desk].pc \in {"lock", "dispatch", "arm"} \/ flag
      BY <2>1 DEF BgInv, Commanded
    <3> QED BY <1>1, <1>6, <3>1, <3>2, GuardFlag DEF Advances, Returned, Works, At, On
  <2>6. (On("clear") => \/ Returned /\ (Works => ~flag)
                       \/ proc[Desk].pc \in {"lock", "dispatch"})'
    <3> SUFFICES ASSUME On("clear")
                 PROVE  (\/ Returned /\ (Works => ~flag)
                         \/ proc[Desk].pc \in {"lock", "dispatch"})'
      BY <1>1 DEF On
    <3>1. proc[Desk].cmd = "off"
      BY <2>1, CalledType DEF On
    <3>2. proc[Desk].pc \in {"lock", "dispatch"}
      BY <2>1 DEF BgInv, Commanded
    <3> QED BY <1>1, <1>6, <3>1, <3>2 DEF Advances, Returned, Works, At
  <2> QED BY <1>2, <1>3, <2>2, <2>3, <2>4, <2>5, <2>6 DEF BgInv, Commanded
<1> QED BY <1>5, <1>6

\* A guard command of the script is ended, and the script may be.
LEMMA EndedKeeps ==
  ASSUME BgInv, SupervisorTimeout \/ Interrupted \/ PowerLoss
  PROVE  BgInv'
<1>1. Desk \in Procs /\ 1 \in 1..MaxTries
  BY BreakglassAssumption DEF BreakglassAssumption
<1>2. Idle("killed") \in ProcState /\ Idle("killed").pc = "idle" /\ Idle("killed").rc = "killed"
  BY IdleType DEF Idle
<1>3. flag' = flag /\ snapshot' = snapshot /\ committed' = committed /\ nvram' \in Modes
  BY DEF SupervisorTimeout, Interrupted, PowerLoss, Reboot, rvars, BgInv, Shape
<1>4. /\ proc' \in [Procs -> ProcState] /\ proc'[Desk] = Idle("killed")
      /\ \A q \in Procs \ {Desk} : proc'[q] \in {proc[q], Idle("killed")}
  BY <1>1, <1>2 DEF SupervisorTimeout, Interrupted, PowerLoss, Reboot, BgInv, Shape
<1>5. (desk' = desk /\ nvram' = nvram) \/ desk' = AtRest("none")
  BY DEF SupervisorTimeout, Interrupted, PowerLoss, rvars
<1>6. /\ AtRest("none") \in ScriptState
      /\ AtRest("none").pc = "idle" /\ AtRest("none").phase = "none"
  BY <1>1 DEF AtRest, ScriptState
<1>7. Shape'
  BY <1>3, <1>4, <1>5, <1>6 DEF BgInv, Shape
<1>8. Commanded'
  BY <1>1, <1>2, <1>4 DEF BgInv, Commanded, Returned, Works, At
<1>9. Sequence'
  BY <1>3, <1>5, <1>6
  DEF BgInv, Sequence, PhaseState, PastBoth, PastArm, Arming, ArmedState, SavedState,
      ClearedState, On
<1> QED BY <1>7, <1>8, <1>9 DEF BgInv

\* cron starts commands, and any may be killed.
LEMMA CronKeeps ==
  ASSUME BgInv, NEW p \in Procs \ {Desk}, Start(p, "auto") \/ Kill(p), UNCHANGED rvars
  PROVE  BgInv'
<1>1. Desk \in Procs
  BY BreakglassAssumption DEF BreakglassAssumption
<1>2. flag' = flag /\ UNCHANGED <<nvram, committed, snapshot, desk>>
  BY DEF Start, Kill, rvars
<1>3. PICK s \in ProcState :
        proc' = [proc EXCEPT ![p] = s] /\ (s.pc = "idle" \/ (s.pc = "lock" /\ s.cmd = "auto"))
  <2>1. CASE Kill(p)
    BY <2>1, IdleType DEF Kill, Idle
  <2>2. CASE Start(p, "auto")
    <3> DEFINE s == [Idle("ok") EXCEPT !.pc = "lock", !.cmd = "auto"]
    <3>1. s \in ProcState /\ s.pc = "lock" /\ s.cmd = "auto"
      BY ChecksType DEF Idle, ProcState, Labels, Goals, Commands
    <3>2. proc' = [proc EXCEPT ![p] = s]
      BY <2>2 DEF Start
    <3> HIDE DEF s
    <3> QED BY <3>1, <3>2
  <2> QED BY <2>1, <2>2
<1>4. Shape'
  BY <1>2, <1>3 DEF BgInv, Shape
<1>5. /\ proc'[Desk] = proc[Desk] /\ proc'[p] = s
      /\ \A q \in Procs \ {p} : proc'[q] = proc[q]
  BY <1>1, <1>3 DEF BgInv, Shape
<1>6. Commanded'
  BY <1>1, <1>2, <1>3, <1>5 DEF BgInv, Commanded, Returned, Works, At, On
<1>7. Sequence'
  BY <1>2
  DEF BgInv, Sequence, PhaseState, PastBoth, PastArm, Arming, ArmedState, SavedState,
      ClearedState, On
<1> QED BY <1>4, <1>6, <1>7 DEF BgInv

\* What else happens on the router touches none of it.
BgBeside == WanRestarts \/ ((OrphanExits \/ FirmwareWrites \/ HealthChanges) /\ UNCHANGED rvars)

\* So they keep the invariant.
LEMMA BesideKeeps ==
  ASSUME BgInv, BgBeside \/ UNCHANGED bgvars
  PROVE  BgInv'
<1>1. UNCHANGED <<proc, flag, nvram, committed, snapshot, desk>>
  BY DEF BgBeside, WanRestarts, OrphanExits, FirmwareWrites, HealthChanges, bgvars, vars, rvars
<1> QED
  BY <1>1
  DEF BgInv, Shape, Commanded, Returned, Works, At, On, Sequence, PhaseState, PastBoth, PastArm,
      Arming, ArmedState, SavedState, ClearedState

\* The steps of the switch, by what they may do.
LEMMA BgSplit ==
  ASSUME [BreakglassNext]_bgvars
  PROVE  \/ ScriptSteps \/ (\E p \in Procs : Guard(p))
         \/ SupervisorTimeout \/ Interrupted \/ PowerLoss
         \/ \E p \in Procs \ {Desk} : (Start(p, "auto") \/ Kill(p)) /\ UNCHANGED rvars
         \/ BgBeside \/ UNCHANGED bgvars
BY DEF BreakglassNext, ScriptSteps, BgBeside

\* No step breaks the invariant.
LEMMA BgInvStep == BgInv /\ [BreakglassNext]_bgvars => BgInv'
BY BgSplit, ScriptKeeps, GuardKeeps, EndedKeeps, CronKeeps, BesideKeeps

\* At every step of the script, what the invariant says of it holds.
THEOREM BreakglassInvariant == BreakglassSpec => []BgInv
BY BgInvInit, BgInvStep, PTL DEF BreakglassSpec

-----------------------------------------------------------------------------
(* What the script prints, and when the flag goes.                         *)

\* Where each result comes from: an arming that has gone through its steps, or
\* a clearing that removes its snapshot.
LEMMA ScriptReports ==
  ASSUME BgInv, ScriptSteps
  PROVE  \/ desk'.result \in {desk.result, "none", "fail", "blocked", "partial"}
         \/ desk'.result \in {"rearmed", "pass"} /\ Arming /\ PastBoth /\ UNCHANGED <<flag, nvram>>
         \/ /\ desk'.result = "cleared" /\ On("drop") /\ snapshot' = NoFile
            /\ UNCHANGED <<flag, nvram>>
<1> USE DEF BgInv, Shape, ScriptState, Sequence, PhaseState, PastBoth, Arming, On, Proceed, To, End,
            AtRest, Rearm, OnlyScriptMoves, rest
<1>1. CASE save_wan_dns_state
  BY <1>1 DEF save_wan_dns_state
<1>2. CASE Armed
  <2>1. CASE desk.phase = "on" /\ ~Works
    BY <1>2, <2>1 DEF Armed
  <2>2. CASE ~(desk.phase = "on" /\ ~Works)
    <3>1. desk' = [desk EXCEPT !.pc = "set_wan", !.failed = ~Works]
      BY <1>2, <2>2 DEF Armed
    <3> QED BY <3>1
  <2> QED BY <2>1, <2>2
<1>3. CASE SetKey("set_wan", "wan")
  BY <1>3 DEF SetKey, NvramDone
<1>4. CASE SetKey("set_wan0", "wan0")
  BY <1>4 DEF SetKey, NvramDone
<1>5. CASE CommitNvram
  BY <1>5 DEF CommitNvram, NvramDone
<1>6. CASE RestartSubmitted
  BY <1>6 DEF RestartSubmitted, AfterRestart
<1>7. CASE RestartSkipped
  BY <1>7 DEF RestartSkipped
<1>8. CASE wait_for_wan_ip
  BY <1>8 DEF wait_for_wan_ip
<1>9. CASE BootstrapWorks
  BY <1>9 DEF BootstrapWorks, EndOfRearm
<1>10. CASE BootstrapRetried
  BY <1>10 DEF BootstrapRetried
<1>11. CASE BootstrapGivenUp
  <2>1. CASE desk.phase = "rearm"
    BY <1>11, <2>1 DEF BootstrapGivenUp, EndOfRearm
  <2>2. CASE desk.phase = "off"
    BY <1>11, <2>2 DEF BootstrapGivenUp, Failed
  <2>3. CASE desk.phase = "on"
    <3>1. desk' = [desk EXCEPT !.pc = "validate", !.failed = TRUE]
      BY <1>11, <2>3 DEF BootstrapGivenUp, Failed
    <3> QED BY <3>1
  <2> QED BY <1>11, <2>1, <2>2, <2>3 DEF BootstrapGivenUp
<1>12. CASE validate_dns
  <2>1. CASE desk.phase = "off"
    BY <1>12, <2>1 DEF validate_dns
  <2>2. CASE desk.phase = "on"
    <3>1. \/ DnsWorks /\ ~desk.failed /\ desk' = AtRest("pass")
          \/ desk' = AtRest("fail")
      BY <1>12, <2>2 DEF validate_dns
    <3> QED BY <1>12, <2>2, <3>1 DEF validate_dns
  <2> QED BY <1>12, <2>1, <2>2 DEF validate_dns
<1>13. CASE ReadyChecked
  <2>1. End("blocked") \/ To("restart") \/ Rearm \/ To("set_wan")
    BY <1>13, Zenon DEF ReadyChecked
  <2>2. desk'.result \in {desk.result, "blocked"}
    <3>1. CASE End("blocked")
      BY <3>1
    <3>2. CASE To("restart") \/ To("set_wan")
      BY <3>2
    <3>3. CASE Rearm
      BY <3>3
    <3> QED BY <2>1, <3>1, <3>2, <3>3
  <2> QED BY <2>2
<1>14. CASE Checked("reready", "clear")
  BY <1>14 DEF Checked
<1>15. CASE Checked("clear", "promote")
  BY <1>15 DEF Checked
<1>16. CASE Checked("promote", "drop")
  BY <1>16 DEF Checked
<1>17. CASE DropSnapshot
  BY <1>17 DEF DropSnapshot
<1>18. CASE SaveFails
  BY <1>18 DEF SaveFails
<1>19. CASE NvramFails
  <2>1. NvramBroken
    BY <1>19 DEF NvramFails
  <2>2. desk'.result \in {desk.result, "fail"}
    <3>1. CASE Rollback \/ Rearm \/ To("restart")
      BY <3>1 DEF Rollback
    <3>2. CASE End("fail")
      BY <3>2
    <3>3. CASE Proceed([desk EXCEPT !.pc = "restart", !.failed = TRUE])
      BY <3>3
    <3> QED BY <2>1, <3>1, <3>2, <3>3 DEF NvramBroken
  <2> QED BY <2>2
<1>20. CASE RestartFails
  BY <1>20 DEF RestartFails, AfterRestart
<1>21. CASE WanIpTimesOut
  BY <1>21 DEF WanIpTimesOut, Failed
<1>22. CASE InternetIpFails
  BY <1>22 DEF InternetIpFails
<1>23. CASE DropFails
  BY <1>23 DEF DropFails
<1>24. CASE BeginOn
  BY <1>24 DEF BeginOn
<1>25. CASE BeginOff
  BY <1>25 DEF BeginOff
<1> QED
  BY <1>1, <1>2, <1>3, <1>4, <1>5, <1>6, <1>7, <1>8, <1>9, <1>10, <1>11, <1>12, <1>13, <1>14,
  <1>15, <1>16, <1>17, <1>18, <1>19, <1>20, <1>21, <1>22, <1>23, <1>24, <1>25
  DEF ScriptSteps, Script, ScriptFailure, SetNvram, ClearSteps

\* No other step makes a report.
LEMMA ReportsAreScripts ==
  ASSUME BgInv, [BreakglassNext]_bgvars, NEW r \in {"rearmed", "pass", "cleared"}, Reports(r)
  PROVE  ScriptSteps
<1>1. AtRest("none").result = "none"
  BY DEF AtRest
<1>2. desk' # desk /\ desk' # AtRest("none")
  BY <1>1 DEF Reports
<1> QED
  BY <1>2, BgSplit
  DEF Guard, SupervisorTimeout, Interrupted, PowerLoss, BgBeside, WanRestarts, bgvars, rvars

\* A report of success of an arming: the flag is there and both keys are forced,
\* whatever failed before.
THEOREM ArmedIsArmed == BreakglassSpec => ArmedMeansArmed
<1>1. BgInv /\ [BreakglassNext]_bgvars
        => [Reports("rearmed") \/ Reports("pass") => flag' /\ nvram' = Safe]_bgvars
  <2> SUFFICES ASSUME BgInv, [BreakglassNext]_bgvars, Reports("rearmed") \/ Reports("pass")
               PROVE  flag' /\ nvram' = Safe
    OBVIOUS
  <2>1. Arming /\ PastBoth /\ UNCHANGED <<flag, nvram>>
    BY ReportsAreScripts, ScriptReports DEF Reports
  <2> QED BY <2>1 DEF BgInv, Sequence, ArmedState, PastArm
<1> QED BY <1>1, BreakglassInvariant, PTL DEF BreakglassSpec, ArmedMeansArmed

\* A report of a clearing: the flag is gone, and what the removed snapshot said
\* is in NVRAM.
THEOREM ClearedIsRestored == BreakglassSpec => ClearedMeansRestored
<1>1. BgInv /\ [BreakglassNext]_bgvars
        => [Reports("cleared") => ~flag' /\ snapshot' = NoFile
                                  /\ (snapshot # NoFile => nvram' = snapshot)]_bgvars
  <2> SUFFICES ASSUME BgInv, [BreakglassNext]_bgvars, Reports("cleared")
               PROVE  ~flag' /\ snapshot' = NoFile /\ (snapshot # NoFile => nvram' = snapshot)
    OBVIOUS
  <2>1. On("drop") /\ snapshot' = NoFile /\ UNCHANGED <<flag, nvram>>
    BY ReportsAreScripts, ScriptReports DEF Reports
  <2> QED BY <2>1 DEF BgInv, Sequence, PhaseState, SavedState, ClearedState, PastBoth, On
<1> QED BY <1>1, BreakglassInvariant, PTL DEF BreakglassSpec, ClearedMeansRestored

\* The flag goes last: only after the saved mode is back in NVRAM and the WAN
\* restart has been asked for.
THEOREM FlagGoesLast == BreakglassSpec => FlagOutlivesRestore
<1>1. BgInv /\ [BreakglassNext]_bgvars
        => [flag /\ ~flag' => desk.dispatched /\ (snapshot # NoFile => nvram = snapshot)]_bgvars
  <2> SUFFICES ASSUME BgInv, [BreakglassNext]_bgvars, flag, ~flag'
               PROVE  desk.dispatched /\ (snapshot # NoFile => nvram = snapshot)
    OBVIOUS
  <2>1. ~ScriptSteps
    BY ScriptGoes DEF Goes
  <2>2. flag' # flag
    OBVIOUS
  <2>3. \E p \in Procs : Guard(p)
    BY <2>1, <2>2, BgSplit
    DEF SupervisorTimeout, Interrupted, PowerLoss, Reboot, Start, Kill, BgBeside, WanRestarts,
        OrphanExits, FirmwareWrites, HealthChanges, bgvars, vars
  <2>4. On("clear")
    BY <2>2, <2>3, GuardFlag
  <2> QED BY <2>4 DEF BgInv, Sequence, PhaseState, SavedState, PastBoth, On
<1> QED BY <1>1, BreakglassInvariant, PTL DEF BreakglassSpec, FlagOutlivesRestore

=============================================================================
