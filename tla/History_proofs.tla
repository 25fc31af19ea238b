--------------------------- MODULE History_proofs ---------------------------
(***************************************************************************)
(* The safety of the history server, for any number of connections, slots  *)
(* and blocks.  The invariant says what a thread may rely on at each line: *)
(* who has the lock, whose child may run, what was found out before.       *)
(*                                                                         *)
(* The coverage report it answers with, for any window, limits and series. *)
(* Gaps and segments are proved to be lists of what they should be: of the *)
(* places before which there is a gap, of the starts and ends of the runs. *)
(* Each loop is followed step by step, counting up to its end by a least   *)
(* counterexample, there being no induction.  A report that passed the     *)
(* checks is the report of samples laid out in its segments.               *)
(***************************************************************************)
EXTENDS HistoryServer, Coverage, FiniteSetTheorems, TLAPS

-----------------------------------------------------------------------------
(* The invariant.                                                          *)

\* No thread outlives the process.
GoneWhenDown == ~up => \A r \in Requests : pc[r] = "gone"
\* The lock is held exactly between the lines that take and release it.
LockIsHeld == up => \A r \in Requests : pc[r] \in Holding <=> lock = r
\* A child that has not ended has its thread in read_b2_with_peer.
ChildIsWatched == up => \A r \in Requests : Running(r) => pc[r] \in Watching
\* What select, the end of stdout and the exit status have shown.
ReadState ==
  \A r \in Requests :
    /\ pc[r] \in {"ready", "read"} => Readable(r)
    /\ pc[r] \in {"wait", "project"} => pipe[r] = 0 /\ child[r] # "running"
    /\ pc[r] = "project" => child[r] = "exited"
\* Where evidence may be: past the read, and past the answer.
DocState ==
  \A r \in Requests :
    /\ doc[r] = "evidence" => pc[r] \in {"answer", "write", "unlock", "release"}
    /\ reply[r] = "evidence" => pc[r] \in {"unlock", "release"}
\* The block read after the client went is the last.
LossState ==
  \A r \in Requests :
    /\ reads[r] <= 1
    /\ reads[r] # 0 => lost[r] /\ pc[r] \notin {"ready", "read"}

Safe ==
  /\ HistoryTypeOK /\ GoneWhenDown /\ LockIsHeld /\ ChildIsWatched
  /\ ReadState /\ DocState /\ EvidenceIsWhole /\ LossState

-----------------------------------------------------------------------------
(* Its preservation.                                                       *)

\* What closing connections does: their state is as at the start, apart from
\* a child that still runs, and the other connections keep theirs.
LEMMA Forgotten ==
  ASSUME HistoryTypeOK, NEW gone \in SUBSET Requests, Forget(gone)
  PROVE  /\ lost' \in [Requests -> BOOLEAN]
         /\ sent' \in [Requests -> {"nothing", "good", "bad"}]
         /\ child' \in [Requests -> {"none", "running", "silent", "exited", "failed", "killed"}]
         /\ pipe' \in [Requests -> 0..1]
         /\ got' \in [Requests -> 0..MAX_BLOCKS]
         /\ doc' \in [Requests -> {"none", "unknown", "evidence"}]
         /\ reply' \in [Requests -> {"none", "403", "503", "unknown", "evidence"}]
         /\ reads' \in [Requests -> Nat]
         /\ \A r \in Requests : child'[r] # child[r] => ~Running(r) /\ child'[r] = "none"
         /\ \A r \in gone : doc'[r] = "none" /\ reply'[r] = "none" /\ reads'[r] = 0
         /\ \A r \in Requests \ gone :
              /\ lost'[r] = lost[r] /\ sent'[r] = sent[r] /\ child'[r] = child[r]
              /\ pipe'[r] = pipe[r] /\ got'[r] = got[r] /\ doc'[r] = doc[r]
              /\ reply'[r] = reply[r] /\ reads'[r] = reads[r]
<1> USE HistoryAssumption DEF HistoryAssumption, HistoryTypeOK
<1>1. lost' \in [Requests -> BOOLEAN] BY DEF Forget
<1>2. sent' \in [Requests -> {"nothing", "good", "bad"}] BY DEF Forget
<1>3. child' \in [Requests -> {"none", "running", "silent", "exited", "failed", "killed"}]
  BY DEF Forget, Running
<1>4. pipe' \in [Requests -> 0..1] /\ got' \in [Requests -> 0..MAX_BLOCKS]
      /\ reads' \in [Requests -> Nat]
  BY DEF Forget
<1>5. doc' \in [Requests -> {"none", "unknown", "evidence"}]
      /\ reply' \in [Requests -> {"none", "403", "503", "unknown", "evidence"}]
  BY DEF Forget
<1>6. \A r \in Requests : child'[r] # child[r] => ~Running(r) /\ child'[r] = "none"
  <2> TAKE r \in Requests
  <2>1. child'[r] = IF r \in gone /\ ~Running(r) THEN "none" ELSE child[r]
    BY DEF Forget
  <2>2. CASE Running(r)
    BY <2>1, <2>2
  <2>3. CASE ~Running(r)
    BY <2>1, <2>3 DEF Running
  <2> QED BY <2>2, <2>3
<1>7. \A r \in gone : doc'[r] = "none" /\ reply'[r] = "none" /\ reads'[r] = 0
  BY DEF Forget
<1>8. \A r \in Requests \ gone :
              /\ lost'[r] = lost[r] /\ sent'[r] = sent[r] /\ child'[r] = child[r]
              /\ pipe'[r] = pipe[r] /\ got'[r] = got[r] /\ doc'[r] = doc[r]
              /\ reply'[r] = reply[r] /\ reads'[r] = reads[r]
  BY DEF Forget
<1> QED BY <1>1, <1>2, <1>3, <1>4, <1>5, <1>6, <1>7, <1>8

\* Every step of a thread, a client, a child or Ctrl+C keeps the invariant,
\* provided that it keeps the number of free slots in its range.
LEMMA SafeStep ==
  Safe /\ slots' \in 0..MAX_HANDLERS /\ [HistoryNext]_hvars => Safe'
<1> SUFFICES ASSUME Safe, slots' \in 0..MAX_HANDLERS, [HistoryNext]_hvars PROVE Safe'
  OBVIOUS
<1> USE DEF Safe, HistoryTypeOK, GoneWhenDown, LockIsHeld, ChildIsWatched, ReadState, DocState,
            EvidenceIsWhole, LossState, Running, Readable, Holding, Watching, Threads, client, work
<1>1. ASSUME NEW r \in Requests, Send(r) PROVE Safe'
  BY <1>1, HistoryAssumption DEF Send
<1>2. ASSUME NEW r \in Requests, Leave(r) PROVE Safe'
  BY <1>2, HistoryAssumption DEF Leave
<1>3. ASSUME NEW r \in Requests, Admit(r) PROVE Safe'
  BY <1>3, HistoryAssumption DEF Admit, Goto
<1>4. ASSUME NEW r \in Requests, AdmitFails(r) PROVE Safe'
  <2>1. Forget({r})
    BY <1>4 DEF AdmitFails
  <2> QED BY <1>4, <2>1, Forgotten, HistoryAssumption DEF AdmitFails, Goto
<1>5. ASSUME NEW r \in Requests, Overload(r) PROVE Safe'
  <2>1. Forget({r})
    BY <1>5 DEF Overload
  <2> QED BY <1>5, <2>1, Forgotten, HistoryAssumption DEF Overload, Goto
<1>6. ASSUME NEW r \in Requests, validate_request(r) PROVE Safe'
  BY <1>6, HistoryAssumption DEF validate_request, disconnected, Goto, Reply
<1>7. ASSUME NEW r \in Requests, TryLock(r) PROVE Safe'
  BY <1>7, HistoryAssumption DEF TryLock, Goto
<1>8. ASSUME NEW r \in Requests, Busy(r) PROVE Safe'
  BY <1>8, HistoryAssumption DEF Busy, Goto, Reply
<1>9. ASSUME NEW r \in Requests, AskPeer(r) PROVE Safe'
  BY <1>9, HistoryAssumption DEF AskPeer, disconnected, Goto
<1>10. ASSUME NEW r \in Requests, Spawn(r) PROVE Safe'
  BY <1>10, HistoryAssumption DEF Spawn, Goto
<1>11. ASSUME NEW r \in Requests, SpawnFails(r) PROVE Safe'
  BY <1>11, HistoryAssumption DEF SpawnFails, Goto, NoAnswerFrom
<1>12. ASSUME NEW r \in Requests, Select(r) PROVE Safe'
  BY <1>12, HistoryAssumption DEF Select, Step, disconnected, Readable, Goto
<1>13. ASSUME NEW r \in Requests, SelectGivesUp(r) PROVE Safe'
  BY <1>13, HistoryAssumption DEF SelectGivesUp, Step, Goto
<1>14. ASSUME NEW r \in Requests, Ready(r) PROVE Safe'
  BY <1>14, HistoryAssumption DEF Ready, Step, disconnected, Goto
<1>15. ASSUME NEW r \in Requests, ReadyGivesUp(r) PROVE Safe'
  BY <1>15, HistoryAssumption DEF ReadyGivesUp, Step, Goto
<1>16. ASSUME NEW r \in Requests, ReadBlock(r) PROVE Safe'
  BY <1>16, HistoryAssumption DEF ReadBlock, Goto
<1>17. ASSUME NEW r \in Requests, ReadTooMuch(r) PROVE Safe'
  BY <1>17, HistoryAssumption DEF ReadTooMuch, Step, Goto
<1>18. ASSUME NEW r \in Requests, ReadEnd(r) PROVE Safe'
  BY <1>18, HistoryAssumption DEF ReadEnd, Step, Goto
<1>19. ASSUME NEW r \in Requests, ReadEndGivesUp(r) PROVE Safe'
  BY <1>19, HistoryAssumption DEF ReadEndGivesUp, Step, Goto
<1>20. ASSUME NEW r \in Requests, Exited(r) PROVE Safe'
  BY <1>20, HistoryAssumption DEF Exited, Step, Goto
<1>21. ASSUME NEW r \in Requests, ExitedBadly(r) PROVE Safe'
  BY <1>21, HistoryAssumption DEF ExitedBadly, Step, Goto
<1>22. ASSUME NEW r \in Requests, WaitGivesUp(r) PROVE Safe'
  BY <1>22, HistoryAssumption DEF WaitGivesUp, Step, Goto
<1>23. ASSUME NEW r \in Requests, Project(r) PROVE Safe'
  BY <1>23, HistoryAssumption DEF Project, Goto, disconnected
<1>24. ASSUME NEW r \in Requests, ProjectRaises(r) PROVE Safe'
  BY <1>24, HistoryAssumption DEF ProjectRaises, Step, Goto
<1>25. ASSUME NEW r \in Requests, TerminateGroup(r) PROVE Safe'
  BY <1>25, HistoryAssumption DEF TerminateGroup, Goto, NoAnswerFrom
<1>26. ASSUME NEW r \in Requests, Answer(r) PROVE Safe'
  BY <1>26, HistoryAssumption DEF Answer, Goto, disconnected
<1>27. ASSUME NEW r \in Requests, Write(r) PROVE Safe'
  BY <1>27, HistoryAssumption DEF Write, Goto, Reply
<1>28. ASSUME NEW r \in Requests, WriteFails(r) PROVE Safe'
  BY <1>28, HistoryAssumption DEF WriteFails, Step, Goto
<1>29. ASSUME NEW r \in Requests, Unlock(r) PROVE Safe'
  BY <1>29, HistoryAssumption DEF Unlock, Goto
<1>30. ASSUME NEW r \in Requests, Release(r) PROVE Safe'
  <2>1. Forget({r})
    BY <1>30 DEF Release
  <2> QED BY <1>30, <2>1, Forgotten, HistoryAssumption DEF Release, Goto
<1>31. ASSUME NEW r \in Requests, Emit(r) PROVE Safe'
  BY <1>31, HistoryAssumption DEF Emit
<1>32. ASSUME NEW r \in Requests, EndOfChild(r) PROVE Safe'
  BY <1>32, HistoryAssumption DEF EndOfChild
<1>33. CASE Interrupt
  <2>1. Forget(Requests)
    BY <1>33 DEF Interrupt
  <2>2. /\ up' = FALSE /\ slots' = slots /\ lock' = lock
        /\ pc' = [r \in Requests |-> "gone"]
    BY <1>33 DEF Interrupt
  <2>3. \A r \in Requests : pc'[r] = "gone"
    BY <2>2
  <2>4. \A r \in Requests : doc'[r] = "none" /\ reply'[r] = "none" /\ reads'[r] = 0
    BY <2>1, Forgotten
  <2>5. HistoryTypeOK'
    BY <2>1, <2>2, Forgotten
  <2>6. GoneWhenDown' /\ LockIsHeld' /\ ChildIsWatched'
    BY <2>2, <2>3
  <2>7. ReadState'
    BY <2>3
  <2>8. DocState' /\ EvidenceIsWhole' /\ LossState'
    BY <2>4
  <2> QED BY <2>5, <2>6, <2>7, <2>8
<1>34. CASE UNCHANGED hvars
  BY <1>34 DEF hvars
<1> QED
  BY <1>1, <1>2, <1>3, <1>4, <1>5, <1>6, <1>7, <1>8, <1>9, <1>10, <1>11, <1>12, <1>13,
     <1>14, <1>15, <1>16, <1>17, <1>18, <1>19, <1>20, <1>21, <1>22, <1>23, <1>24, <1>25,
     <1>26, <1>27, <1>28, <1>29, <1>30, <1>31, <1>32, <1>33, <1>34
  DEF HistoryNext, ServerStep, OtherStep

-----------------------------------------------------------------------------
(* The slots.                                                              *)

\* The connections that have a thread.
Alive == {r \in Requests : Live(r)}

\* Every step keeps the account of the slots: Admit takes one for the thread
\* it starts, Release gives one back for the thread that ends, and no other
\* step starts a thread or ends one while the process is up.
LEMMA SlotStep ==
  Safe /\ SlotsAccounted /\ [HistoryNext]_hvars
    => SlotsAccounted' /\ slots' \in 0..MAX_HANDLERS
<1> SUFFICES ASSUME Safe, SlotsAccounted, [HistoryNext]_hvars
             PROVE SlotsAccounted' /\ slots' \in 0..MAX_HANDLERS
  OBVIOUS
<1>1. MAX_HANDLERS \in Nat \ {0} /\ slots \in 0..MAX_HANDLERS
      /\ pc \in [Requests -> Threads \cup {"queued", "done", "gone"}]
  BY HistoryAssumption DEF HistoryAssumption, Safe, HistoryTypeOK
<1>2. IsFiniteSet(Alive) /\ Cardinality(Alive) \in Nat
  BY HistoryAssumption, FS_Subset, FS_CardinalityType DEF HistoryAssumption, Alive
<1>3. up => slots + Cardinality(Alive) = MAX_HANDLERS
  BY DEF SlotsAccounted, Alive
<1>4. SlotsAccounted' <=> (up' => slots' + Cardinality(Alive') = MAX_HANDLERS)
  BY DEF SlotsAccounted, Alive
<1>5. ASSUME up' = up, slots' = slots, Alive' = Alive
      PROVE SlotsAccounted' /\ slots' \in 0..MAX_HANDLERS
  BY <1>1, <1>3, <1>4, <1>5
<1>6. ASSUME NEW r \in Requests, NEW label, pc' = [pc EXCEPT ![r] = label],
             label \in Threads <=> pc[r] \in Threads
      PROVE Alive' = Alive
  BY <1>1, <1>6 DEF Alive, Live
<1>7. ASSUME NEW r \in Requests, Admit(r)
      PROVE SlotsAccounted' /\ slots' \in 0..MAX_HANDLERS
  <2>1. slots > 0 /\ slots' = slots - 1 /\ up' = up
    BY <1>7 DEF Admit
  <2>2. Alive' = Alive \cup {r} /\ r \notin Alive
    BY <1>1, <1>7 DEF Admit, Goto, Alive, Live, Threads, Holding, Watching
  <2>3. Cardinality(Alive') = Cardinality(Alive) + 1
    BY <1>2, <2>2, FS_AddElement
  <2> QED BY <1>1, <1>2, <1>3, <1>4, <2>1, <2>3
<1>8. ASSUME NEW r \in Requests, Release(r)
      PROVE SlotsAccounted' /\ slots' \in 0..MAX_HANDLERS
  <2>1. slots' = slots + 1 /\ up' = up
    BY <1>8 DEF Release
  <2>2. Alive' = Alive \ {r} /\ r \in Alive
    BY <1>1, <1>8 DEF Release, Goto, Alive, Live, Threads, Holding, Watching
  <2>3. Cardinality(Alive') = Cardinality(Alive) - 1
    BY <1>2, <2>2, FS_RemoveElement
  <2>4. IsFiniteSet(Alive') /\ Cardinality(Alive') \in Nat
    BY <1>2, <2>2, FS_Subset, FS_CardinalityType
  <2>5. up
    BY <1>8 DEF Release, Safe, GoneWhenDown
  <2> QED BY <1>1, <1>2, <1>3, <1>4, <2>1, <2>3, <2>4, <2>5
<1>9. ASSUME NEW r \in Requests, AdmitFails(r) \/ Overload(r)
      PROVE SlotsAccounted' /\ slots' \in 0..MAX_HANDLERS
  <2>1. up' = up /\ slots' = slots /\ pc[r] = "queued" /\ pc' = [pc EXCEPT ![r] = "done"]
    BY <1>9 DEF AdmitFails, Overload, Goto
  <2>2. Alive' = Alive
    BY <2>1, <1>6 DEF Threads, Holding, Watching
  <2> QED BY <1>5, <2>1, <2>2
<1>10. ASSUME NEW r \in Requests, ServerStep(r),
              ~Admit(r), ~Release(r), ~AdmitFails(r), ~Overload(r)
       PROVE SlotsAccounted' /\ slots' \in 0..MAX_HANDLERS
  <2>1. up' = up /\ slots' = slots /\ pc[r] \in Threads
        /\ \E label \in Threads : pc' = [pc EXCEPT ![r] = label]
    BY <1>10
    DEF ServerStep, validate_request, TryLock, Busy, AskPeer, Spawn, SpawnFails, Select,
        SelectGivesUp, Ready, ReadyGivesUp, ReadBlock, ReadTooMuch, ReadEnd, ReadEndGivesUp,
        Exited, ExitedBadly, WaitGivesUp, Project, ProjectRaises, TerminateGroup, Answer,
        Write, WriteFails, Unlock, Step, Goto, Threads, Holding, Watching
  <2>2. Alive' = Alive
    BY <2>1, <1>6
  <2> QED BY <1>5, <2>1, <2>2
<1>11. ASSUME NEW r \in Requests, OtherStep(r)
       PROVE SlotsAccounted' /\ slots' \in 0..MAX_HANDLERS
  <2>1. up' = up /\ slots' = slots /\ pc' = pc
    BY <1>11 DEF OtherStep, Send, Leave, Emit, EndOfChild
  <2> QED BY <1>5, <2>1 DEF Alive, Live
<1>12. CASE Interrupt
  BY <1>1, <1>4, <1>12 DEF Interrupt
<1>13. CASE UNCHANGED hvars
  BY <1>5, <1>13 DEF hvars, Alive, Live
<1> QED BY <1>7, <1>8, <1>9, <1>10, <1>11, <1>12, <1>13 DEF HistoryNext

-----------------------------------------------------------------------------
(* The theorems.                                                           *)

IInv == Safe /\ SlotsAccounted

\* A server that has just started satisfies the invariant.
LEMMA InitIInv == HistoryInit => IInv
<1> SUFFICES ASSUME HistoryInit PROVE IInv
  OBVIOUS
<1>1. Safe
  BY HistoryAssumption
  DEF HistoryAssumption, HistoryInit, Safe, HistoryTypeOK, GoneWhenDown, LockIsHeld,
      ChildIsWatched, ReadState, DocState, EvidenceIsWhole, LossState, Running, Readable,
      Threads, Holding, Watching
<1>2. {r \in Requests : Live(r)} = {}
  BY DEF HistoryInit, Live, Threads, Holding, Watching
<1>3. SlotsAccounted
  BY <1>2, HistoryAssumption, FS_EmptySet DEF HistoryAssumption, SlotsAccounted, HistoryInit
<1> QED BY <1>1, <1>3 DEF IInv

\* Every step keeps it.
LEMMA IInvStep == IInv /\ [HistoryNext]_hvars => IInv'
BY SafeStep, SlotStep DEF IInv

\* It holds for ever.
THEOREM HistoryInvariant == HistorySpec => []IInv
BY InitIInv, IInvStep, PTL DEF HistorySpec

\* Every variable of the history server keeps its type: slots never leaves
\* 0..MAX_HANDLERS, no more than MAX_BLOCKS are read.
THEOREM HistoryTypeCorrect == HistorySpec => []HistoryTypeOK
<1>1. IInv => HistoryTypeOK
  BY DEF IInv, Safe
<1> QED BY <1>1, HistoryInvariant, PTL

\* Every thread has one slot and no slot is lost or given back twice, whichever
\* way a request ends.
THEOREM HistorySlots == HistorySpec => []SlotsAccounted
<1>1. IInv => SlotsAccounted
  BY DEF IInv
<1> QED BY <1>1, HistoryInvariant, PTL

\* While the server runs, the one child that has not ended is watched by the
\* holder of history_lock.
THEOREM HistoryReads == HistorySpec => []OnlyTheHolderReads
<1>1. IInv => OnlyTheHolderReads
  BY DEF IInv, Safe, LockIsHeld, ChildIsWatched, OnlyTheHolderReads, Holding
<1> QED BY <1>1, HistoryInvariant, PTL

\* An answer of evidence is the whole output of its own child, within the cap,
\* and that child exited with status 0.
THEOREM HistoryEvidence == HistorySpec => []EvidenceIsWhole
<1>1. IInv => EvidenceIsWhole
  BY DEF IInv, Safe
<1> QED BY <1>1, HistoryInvariant, PTL

\* After its client has gone a read takes at most one more block.
THEOREM HistoryLoss == HistorySpec => []LossEndsTheRead
<1>1. IInv => LossEndsTheRead
  BY DEF IInv, Safe, LossState, LossEndsTheRead
<1> QED BY <1>1, HistoryInvariant, PTL

-----------------------------------------------------------------------------
(* Coverage: counting up, and what a loop leaves.                          *)

\* The order of the natural numbers as a relation.
LEMMA Order == \A i, m \in Nat : <<i, m>> \in OpToRel(<, Nat) <=> i < m
  <1>1. OpToRel(<, Nat) = {ss \in Nat \X Nat : ss[1] < ss[2]}
    BY DEF OpToRel
  <1>2. ASSUME NEW i \in Nat, NEW m \in Nat
        PROVE  <<i, m>> \in {ss \in Nat \X Nat : ss[1] < ss[2]} <=> i < m
    OBVIOUS
  <1> QED
    BY <1>1, <1>2

\* A set of numbers that is not empty has a least one.
LEMMA LeastNumber ==
  ASSUME NEW S, S \subseteq Nat, S # {}
  PROVE  \E m \in S : \A i \in S : m <= i
  <1>1. PICK m \in S : \A i \in S : ~(<<i, m>> \in OpToRel(<, Nat))
    BY WFMin, NatLessThanWellFounded
  <1>2. \A i \in S : ~(i < m) /\ i \in Nat
    BY <1>1, Order
  <1> QED
    BY <1>2

\* What holds at 0 and goes on from each number to the next holds up to n.
LEMMA CountingUp ==
  ASSUME NEW n \in Nat, NEW P, 0 \in P, \A i \in 1..n : i - 1 \in P => i \in P
  PROVE  \A i \in 0..n : i \in P
  <1> DEFINE bad == {i \in 0..n : i \notin P}
  <1> SUFFICES ASSUME bad # {} PROVE FALSE
    OBVIOUS
  <1>1. PICK m \in bad : \A k \in bad : m <= k
    <2>1. bad \subseteq Nat
      OBVIOUS
    <2> HIDE DEF bad
    <2> QED
      BY <2>1, LeastNumber
  <1>2. m \in 1..n /\ m - 1 \in 0..n
    OBVIOUS
  <1>3. m - 1 \in P
    <2>1. m - 1 \notin bad
      <3>1. ~(m <= m - 1)
        BY <1>2
      <3> HIDE DEF bad
      <3> QED
        BY <1>1, <3>1
    <2> QED
      BY <1>2, <2>1
  <1> QED
    BY <1>2, <1>3

\* A loop of n steps over states of S has a state before and after each of them.
Loops(f, S, init, n, G) ==
  f \in [0..n -> S] /\ f[0] = init /\ \A i \in 1..n : f[i] = G[i][f[i - 1]]

LEMMA LoopExists ==
  ASSUME NEW S, NEW init \in S, NEW n \in Nat, NEW G \in [1..n -> [S -> S]]
  PROVE  \E f : Loops(f, S, init, n, G)
  <1> DEFINE Steps(f, m) == f[0] = init /\ \A i \in 1..m : f[i] = G[i][f[i - 1]]
             P == {m \in 0..n : \E f \in [0..m -> S] : Steps(f, m)}
  <1>1. 0 \in P
    <2> DEFINE f == [i \in 0..0 |-> init]
    <2>1. f \in [0..0 -> S] /\ f[0] = init /\ \A i \in 1..0 : f[i] = G[i][f[i - 1]]
      OBVIOUS
    <2> HIDE DEF f
    <2>2. Steps(f, 0) /\ 0 \in 0..n
      BY <2>1
    <2> QED
      BY <2>1, <2>2, Zenon
  <1>2. ASSUME NEW m \in 1..n, m - 1 \in P PROVE m \in P
    <2>1. PICK f \in [0..(m - 1) -> S] : Steps(f, m - 1)
      BY <1>2
    <2> DEFINE x == G[m][f[m - 1]]
               g == [i \in 0..m |-> IF i = m THEN x ELSE f[i]]
    <2>2. x \in S
      <3>1. f[m - 1] \in S /\ G[m] \in [S -> S]
        OBVIOUS
      <3> QED
        BY <3>1
    <2>3. g \in [0..m -> S] /\ g[m] = x /\ \A i \in 0..(m - 1) : g[i] = f[i]
      BY <2>2
    <2>4. g[0] = init
      BY <2>1, <2>3
    <2>5. ASSUME NEW i \in 1..m PROVE g[i] = G[i][g[i - 1]]
      <3>1. CASE i = m
        <4>1. m - 1 \in 0..(m - 1) /\ g[m - 1] = f[m - 1]
          BY <2>3
        <4>2. g[m] = G[m][f[m - 1]]
          BY <2>3
        <4> HIDE DEF g, x
        <4> QED
          BY <3>1, <4>1, <4>2
      <3>2. CASE i # m
        <4>1. i \in 1..(m - 1) /\ i - 1 \in 0..(m - 1) /\ i \in 0..(m - 1)
          BY <3>2
        <4>2. f[i] = G[i][f[i - 1]]
          BY <2>1, <4>1
        <4>3. g[i] = f[i] /\ g[i - 1] = f[i - 1]
          BY <2>3, <4>1
        <4> HIDE DEF g
        <4> QED
          BY <4>2, <4>3
      <3> QED
        BY <3>1, <3>2
    <2> HIDE DEF g, x
    <2>6. Steps(g, m) /\ m \in 0..n
      BY <2>4, <2>5
    <2> QED
      BY <2>3, <2>6, Zenon
  <1> HIDE DEF P
  <1>3. \A m \in 0..n : m \in P
    BY <1>1, <1>2, CountingUp
  <1>4. n \in P
    BY <1>3
  <1> QED
    BY <1>4, Zenon DEF P, Loops

\* idx lists the numbers of S in order.
Lists(idx, m, S) ==
  /\ idx \in [1..m -> S]
  /\ \A k, l \in 1..m : k < l => idx[k] < idx[l]
  /\ \A s \in S : \E k \in 1..m : idx[k] = s

\* A list goes on with a number above all of its own.
LEMMA ListGrows ==
  ASSUME NEW S, S \subseteq Int, NEW m \in Nat, NEW idx, Lists(idx, m, S),
         NEW e \in Int, \A s \in S : s < e
  PROVE  Lists([k \in 1..(m + 1) |-> IF k = m + 1 THEN e ELSE idx[k]], m + 1, S \cup {e})
  <1> DEFINE new == [k \in 1..(m + 1) |-> IF k = m + 1 THEN e ELSE idx[k]]
  <1>1. idx \in [1..m -> S] /\ \A k, l \in 1..m : k < l => idx[k] < idx[l]
    BY DEF Lists
  <1>2. new \in [1..(m + 1) -> S \cup {e}]
    BY <1>1
  <1>3. new[m + 1] = e /\ \A k \in 1..m : new[k] = idx[k] /\ new[k] \in S
    BY <1>1
  <1>4. m + 1 \in 1..(m + 1) /\ \A k \in 1..(m + 1) : k = m + 1 \/ k \in 1..m
    OBVIOUS
  <1> HIDE DEF new
  <1>5. ASSUME NEW k \in 1..(m + 1), NEW l \in 1..(m + 1), k < l PROVE new[k] < new[l]
    <2>1. k \in 1..m
      BY <1>5
    <2>2. CASE l = m + 1
      BY <1>3, <2>1, <2>2
    <2>3. CASE l \in 1..m
      BY <1>1, <1>3, <1>5, <2>1, <2>3
    <2> QED
      BY <1>4, <2>2, <2>3
  <1>6. ASSUME NEW s \in S \cup {e} PROVE \E k \in 1..(m + 1) : new[k] = s
    <2>1. CASE s = e
      BY <1>3, <1>4, <2>1
    <2>2. CASE s \in S
      <3>1. PICK k \in 1..m : idx[k] = s
        BY <2>2 DEF Lists
      <3>2. k \in 1..(m + 1) /\ new[k] = s
        BY <1>3, <3>1
      <3> QED
        BY <3>2
    <2> QED
      BY <2>1, <2>2
  <1> QED
    BY <1>2, <1>5, <1>6 DEF Lists, new

Agree(a, m, b, n) == m <= n /\ \A k \in 1..m : a[k] = b[k]

\* Of two lists of a set, each begins as the other does.
LEMMA ListsBegin ==
  ASSUME NEW S, S \subseteq Int, NEW m \in Nat, NEW n \in Nat, NEW a, NEW b,
         Lists(a, m, S), Lists(b, n, S)
  PROVE  Agree(a, m, b, n)
  <1>1. /\ a \in [1..m -> S] /\ \A k, l \in 1..m : k < l => a[k] < a[l]
        /\ b \in [1..n -> S] /\ \A k, l \in 1..n : k < l => b[k] < b[l]
        /\ \A s \in S : (\E k \in 1..m : a[k] = s) /\ (\E k \in 1..n : b[k] = s)
    BY DEF Lists
  <1>2. \A k \in 1..m : a[k] \in Int
    BY <1>1
  <1>3. \A k \in 1..n : b[k] \in Int
    BY <1>1
  <1> DEFINE bad == {k \in 1..m : ~(k \in 1..n /\ a[k] = b[k])}
  <1>4. ASSUME bad # {} PROVE FALSE
    <2>1. PICK k \in bad : \A l \in bad : k <= l
      <3>1. bad \subseteq Nat
        OBVIOUS
      <3> HIDE DEF bad
      <3> QED
        BY <1>4, <3>1, LeastNumber
    <2>2. k \in 1..m /\ ~(k \in 1..n /\ a[k] = b[k])
      OBVIOUS
    <2>3. \A l \in 1..m : l < k => l \in 1..n /\ a[l] = b[l]
      <3> SUFFICES ASSUME NEW l \in 1..m, l < k PROVE l \notin bad
        OBVIOUS
      <3>1. ~(k <= l)
        BY <2>2
      <3> HIDE DEF bad
      <3> QED
        BY <2>1, <3>1
    <2>4. PICK l \in 1..n : b[l] = a[k]
      BY <1>1, <2>2
    <2>5. ~(l < k)
      <3>1. ASSUME l < k PROVE FALSE
        <4>1. l \in 1..m /\ a[l] = b[l] /\ a[l] < a[k]
          BY <1>1, <2>2, <2>3, <3>1
        <4> QED
          BY <1>2, <2>2, <2>4, <4>1
      <3> QED
        BY <3>1
    <2>6. k \in 1..n /\ k < l
      BY <2>2, <2>4, <2>5
    <2>7. PICK j \in 1..m : a[j] = b[k]
      BY <1>1, <2>6
    <2>8. a[j] < a[k] /\ j # k
      BY <1>1, <1>2, <1>3, <2>2, <2>4, <2>6, <2>7
    <2>9. ~(k < j)
      <3>1. ASSUME k < j PROVE FALSE
        <4>1. a[k] < a[j]
          BY <1>1, <2>2, <3>1
        <4> QED
          BY <1>2, <2>2, <2>8, <4>1
      <3> QED
        BY <3>1
    <2>10. j < k
      BY <2>2, <2>8, <2>9
    <2>11. j \in 1..n /\ b[j] = b[k]
      BY <2>3, <2>7, <2>10
    <2>12. b[j] < b[k]
      BY <1>1, <2>6, <2>10, <2>11
    <2> QED
      BY <1>3, <2>6, <2>11, <2>12
  <1>5. \A k \in 1..m : k \in 1..n /\ a[k] = b[k]
    BY <1>4
  <1>6. m <= n
    <2>1. CASE m = 0
      BY <2>1
    <2>2. CASE m # 0
      <3>1. m \in 1..m
        BY <2>2
      <3> QED
        BY <1>5, <3>1
    <2> QED
      BY <2>1, <2>2
  <1> QED
    BY <1>5, <1>6 DEF Agree

\* There is one list of a set.
SameLists(a, m, b, n) == m = n /\ \A k \in 1..m : a[k] = b[k]

LEMMA ListsAgree ==
  ASSUME NEW S, S \subseteq Int, NEW m \in Nat, NEW n \in Nat, NEW a, NEW b,
         Lists(a, m, S), Lists(b, n, S)
  PROVE  SameLists(a, m, b, n)
  <1>1. Agree(a, m, b, n) /\ Agree(b, n, a, m)
    BY ListsBegin
  <1> QED
    BY <1>1 DEF Agree, SameLists

\* What is appended stands at the end, and the rest stays where it was.
LEMMA AppendFacts ==
  ASSUME NEW X, NEW old \in Seq(X), NEW e \in X
  PROVE  /\ Append(old, e) \in Seq(X) /\ Len(old) \in Nat
         /\ Len(Append(old, e)) = Len(old) + 1
         /\ Append(old, e)[Len(old) + 1] = e
         /\ \A k \in 1..Len(old) : Append(old, e)[k] = old[k]
         /\ Append(old, e) = [k \in 1..(Len(old) + 1) |-> Append(old, e)[k]]
  <1> DEFINE new == Append(old, e)
  <1>1. new \in Seq(X) /\ Len(old) \in Nat /\ Len(new) = Len(old) + 1
    OBVIOUS
  <1>2. new[Len(old) + 1] = e /\ \A k \in 1..Len(old) : new[k] = old[k]
    OBVIOUS
  <1>3. new = [k \in 1..Len(new) |-> new[k]]
    <2>1. new \in Seq(X)
      BY <1>1
    <2> HIDE DEF new
    <2> QED
      BY <2>1
  <1> QED
    BY <1>1, <1>2, <1>3

-----------------------------------------------------------------------------
(* Coverage: the gaps.                                                     *)

AnyGap == [position : Positions, from : Int, to : Int]
GapAt(times, i) ==
  [position |-> Position(times, i), from |-> Bound(times, i - 1), to |-> Bound(times, i)]

LEMMA GapTypes ==
  ASSUME NEW times \in Seq(Int)
  PROVE  /\ \A i \in 0..(Len(times) + 1) : Bound(times, i) \in Int
         /\ \A i \in 1..(Len(times) + 1) : GapAt(times, i) \in AnyGap
  <1>1. Len(times) \in Nat /\ \A i \in 1..Len(times) : times[i] \in Int
    OBVIOUS
  <1>2. Window \in Int
    BY CoverageAssumption
  <1>3. \A i \in 0..(Len(times) + 1) : Bound(times, i) \in Int
    BY <1>1, <1>2 DEF Bound
  <1>4. ASSUME NEW i \in 1..(Len(times) + 1) PROVE GapAt(times, i) \in AnyGap
    <2>1. i \in 0..(Len(times) + 1) /\ i - 1 \in 0..(Len(times) + 1)
      BY <1>1
    <2>2. Position(times, i) \in Positions
      BY DEF Position, Positions
    <2> QED
      BY <1>3, <2>1, <2>2 DEF GapAt, AnyGap
  <1> QED
    BY <1>3, <1>4

IsGapLoop(f, times) ==
  f = [i \in 0..(Len(times) + 1) |->
         IF i = 0 THEN <<>>
         ELSE gap(f[i - 1], Bound(times, i - 1), Bound(times, i), Position(times, i))]

\* After each sample the list has one more gap, or none.
LEMMA GapLoopSteps ==
  ASSUME NEW times \in Seq(Int)
  PROVE  /\ GapLoop(times)[0] = <<>>
         /\ \A i \in 1..(Len(times) + 1) :
              GapLoop(times)[i] =
                IF Bound(times, i) - Bound(times, i - 1) > GAP_THRESHOLD
                  THEN Append(GapLoop(times)[i - 1], GapAt(times, i)) ELSE GapLoop(times)[i - 1]
  <1> DEFINE any == Seq(AnyGap)
             n == Len(times) + 1
             Next(i, x) == IF Bound(times, i) - Bound(times, i - 1) > GAP_THRESHOLD
                             THEN Append(x, GapAt(times, i)) ELSE x
             step == [i \in 1..n |-> [x \in any |-> Next(i, x)]]
  <1>1. n \in Nat /\ <<>> \in any
    OBVIOUS
  <1>2. \A i \in 1..n : \A x \in any : Next(i, x) \in any
    BY GapTypes
  <1>3. step \in [1..n -> [any -> any]]
    BY <1>2
  <1>4. \A i \in 1..n : \A x \in any : step[i][x] = Next(i, x)
    OBVIOUS
  <1>5. PICK f \in [0..n -> any] : f[0] = <<>> /\ \A i \in 1..n : f[i] = step[i][f[i - 1]]
    <2> DEFINE a == <<>>
               b == n
               c == any
               g == step
    <2>1. a \in c /\ b \in Nat /\ g \in [1..b -> [c -> c]]
      BY <1>1, <1>3
    <2> HIDE DEF a, b, c, g
    <2>2. PICK f : Loops(f, c, a, b, g)
      BY <2>1, LoopExists
    <2> QED
      BY <2>2 DEF Loops, a, b, c, g
  <1>6. \A i \in 1..n : f[i] = Next(i, f[i - 1])
    <2>1. \A i \in 1..n : f[i - 1] \in any
      <3>1. \A i \in 1..n : i - 1 \in 0..n
        BY <1>1
      <3> HIDE DEF n, any, step
      <3> QED
        BY <3>1
    <2> HIDE DEF step, any
    <2> QED
      BY <1>4, <1>5, <2>1
  <1>7. \A i \in 0..n :
          f[i] = IF i = 0 THEN <<>>
                 ELSE gap(f[i - 1], Bound(times, i - 1), Bound(times, i), Position(times, i))
    <2>1. \A i \in 0..n : i = 0 \/ i \in 1..n
      BY <1>1
    <2> QED
      BY <1>5, <1>6, <2>1 DEF gap, GapAt
  <1>8. IsGapLoop(f, times)
    BY <1>5, <1>7 DEF IsGapLoop
  <1> DEFINE g == CHOOSE g : IsGapLoop(g, times)
  <1>9. IsGapLoop(g, times)
    BY <1>8, Zenon
  <1>10. GapLoop(times) = g
    BY Zenon DEF GapLoop, IsGapLoop
  <1> HIDE DEF g
  <1>11. \A i \in 0..n :
          g[i] = IF i = 0 THEN <<>>
                 ELSE gap(g[i - 1], Bound(times, i - 1), Bound(times, i), Position(times, i))
    BY <1>9 DEF IsGapLoop
  <1>12. 0 \in 0..n /\ \A i \in 1..n : i \in 0..n /\ i # 0
    BY <1>1
  <1>13. g[0] = <<>> /\ \A i \in 1..n :
           g[i] = gap(g[i - 1], Bound(times, i - 1), Bound(times, i), Position(times, i))
    BY <1>11, <1>12
  <1> QED
    BY <1>10, <1>13 DEF gap, GapAt

\* The stretches of the window that are over the threshold, by what ends them.
Silent(times) ==
  {i \in 1..(Len(times) + 1) : Bound(times, i) - Bound(times, i - 1) > GAP_THRESHOLD}

\* gaps are those of the stretches that idx lists.
GapsOf(gaps, times, idx) == gaps = [k \in 1..Len(gaps) |-> GapAt(times, idx[k])]

\* The gaps are those of the stretches over the threshold, in order.
LEMMA GapsListed ==
  ASSUME NEW times \in Seq(Int)
  PROVE  /\ Gaps(times) \in Seq(AnyGap)
         /\ \E idx : Lists(idx, Len(Gaps(times)), Silent(times)) /\ GapsOf(Gaps(times), times, idx)
  <1> DEFINE n == Len(times) + 1
             L == GapLoop(times)
             S(i) == {j \in Silent(times) : j <= i}
             Good(i) == /\ L[i] \in Seq(AnyGap)
                        /\ \E idx : Lists(idx, Len(L[i]), S(i)) /\ GapsOf(L[i], times, idx)
             P == {i \in 0..n : Good(i)}
  <1>1. n \in Nat /\ Silent(times) \subseteq 1..n
    BY DEF Silent
  <1>2. 0 \in P
    <2>1. L[0] = <<>>
      BY GapLoopSteps
    <2>2. S(0) = {}
      BY <1>1
    <2> DEFINE none == [k \in 1..0 |-> 0]
    <2>3. Lists(none, 0, {}) /\ GapsOf(<<>>, times, none)
      BY DEF Lists, GapsOf
    <2>4. <<>> \in Seq(AnyGap) /\ Len(<<>>) = 0 /\ 0 \in 0..n
      BY <1>1
    <2> HIDE DEF none
    <2>5. Good(0)
      BY <2>1, <2>2, <2>3, <2>4
    <2> QED
      BY <2>4, <2>5
  <1>3. ASSUME NEW i \in 1..n, i - 1 \in P PROVE i \in P
    <2>1. Good(i - 1)
      BY <1>3
    <2>2. L[i] = IF i \in Silent(times) THEN Append(L[i - 1], GapAt(times, i)) ELSE L[i - 1]
      BY GapLoopSteps DEF Silent
    <2>3. S(i) = IF i \in Silent(times) THEN S(i - 1) \cup {i} ELSE S(i - 1)
      BY <1>1
    <2>4. S(i - 1) \subseteq Int /\ \A s \in S(i - 1) : s < i
      BY <1>1
    <2>5. GapAt(times, i) \in AnyGap
      BY GapTypes
    <2> DEFINE old == L[i - 1]
               e == GapAt(times, i)
               m == Len(old)
    <2>6. PICK idx : Lists(idx, m, S(i - 1)) /\ GapsOf(old, times, idx)
      BY <2>1
    <2>7. old \in Seq(AnyGap) /\ m \in Nat
      BY <2>1
    <2>8. CASE i \in Silent(times)
      <3> DEFINE new == Append(old, e)
                 list == [k \in 1..(m + 1) |-> IF k = m + 1 THEN i ELSE idx[k]]
      <3>1. /\ new \in Seq(AnyGap) /\ Len(new) = m + 1 /\ new[m + 1] = e
            /\ \A k \in 1..m : new[k] = old[k]
            /\ new = [k \in 1..(m + 1) |-> new[k]]
        <4> DEFINE X == AnyGap
        <4>1. old \in Seq(X) /\ e \in X
          BY <2>5, <2>7
        <4> HIDE DEF old, e, X
        <4>2. /\ Append(old, e) \in Seq(X)
              /\ Len(Append(old, e)) = Len(old) + 1
              /\ Append(old, e)[Len(old) + 1] = e
              /\ \A k \in 1..Len(old) : Append(old, e)[k] = old[k]
              /\ Append(old, e) = [k \in 1..(Len(old) + 1) |-> Append(old, e)[k]]
          BY <4>1, AppendFacts
        <4> QED
          BY <4>2 DEF X
      <3>2. Lists(list, m + 1, S(i))
        <4> HIDE DEF m, S
        <4> QED
          BY <2>3, <2>4, <2>6, <2>7, <2>8, ListGrows
      <3>3. \A k \in 1..m : old[k] = GapAt(times, idx[k])
        BY <2>6 DEF GapsOf
      <3>4. \A k \in 1..(m + 1) : new[k] = GapAt(times, list[k])
        <4>1. list[m + 1] = i /\ \A k \in 1..m : list[k] = idx[k]
          BY <2>7
        <4>2. \A k \in 1..(m + 1) : k = m + 1 \/ k \in 1..m
          BY <2>7
        <4> HIDE DEF list, new, old
        <4> QED
          BY <3>1, <3>3, <4>1, <4>2 DEF e
      <3>5. GapsOf(new, times, list)
        <4> HIDE DEF new, list, m
        <4> QED
          BY <3>1, <3>4 DEF GapsOf
      <3>6. L[i] = new
        BY <2>2, <2>8
      <3> HIDE DEF new, list, L, S
      <3>7. Good(i)
        BY <3>1, <3>2, <3>5, <3>6
      <3> QED
        BY <1>1, <3>7
    <2>9. CASE i \notin Silent(times)
      <3>1. L[i] = L[i - 1] /\ S(i) = S(i - 1)
        BY <2>2, <2>3, <2>9
      <3> HIDE DEF L, S
      <3>2. Good(i)
        BY <2>1, <3>1
      <3> QED
        BY <3>2
    <2> QED
      BY <2>8, <2>9
  <1>4. Good(n)
    <2>1. n \in P
      <3> HIDE DEF P, n
      <3>1. \A i \in 0..n : i \in P
        BY <1>1, <1>2, <1>3, CountingUp
      <3> QED
        BY <1>1, <3>1
    <2> HIDE DEF Good
    <2> QED
      BY <2>1
  <1>5. S(n) = Silent(times) /\ L[n] = Gaps(times)
    BY <1>1 DEF Gaps
  <1> QED
    BY <1>4, <1>5

-----------------------------------------------------------------------------
(* Coverage: the loop over the samples, and the sum of the rows.           *)

AnySegment == [from : Int, to : Int, rows : Int]

IsSum(f, segments) ==
  f = [k \in 0..Len(segments) |-> IF k = 0 THEN 0 ELSE f[k - 1] + segments[k].rows]

LEMMA SumSteps ==
  ASSUME NEW segments \in Seq(AnySegment)
  PROVE  /\ valid_sum(segments)[0] = 0
         /\ \A k \in 1..Len(segments) :
              valid_sum(segments)[k] = valid_sum(segments)[k - 1] + segments[k].rows
         /\ \A k \in 0..Len(segments) : valid_sum(segments)[k] \in Int
  <1> DEFINE n == Len(segments)
             step == [i \in 1..n |-> [x \in Int |-> x + segments[i].rows]]
  <1>1. n \in Nat /\ \A i \in 1..n : segments[i] \in AnySegment
    OBVIOUS
  <1>2. \A i \in 1..n : segments[i].rows \in Int
    BY <1>1 DEF AnySegment
  <1>3. PICK f \in [0..n -> Int] : f[0] = 0 /\ \A i \in 1..n : f[i] = step[i][f[i - 1]]
    <2> DEFINE a == 0
               b == n
               c == Int
               g == step
    <2>1. a \in c /\ b \in Nat /\ g \in [1..b -> [c -> c]]
      BY <1>1, <1>2
    <2> HIDE DEF a, b, c, g
    <2>2. PICK f : Loops(f, c, a, b, g)
      BY <2>1, LoopExists
    <2> QED
      BY <2>2 DEF Loops, a, b, c, g
  <1>4. \A i \in 1..n : f[i] = f[i - 1] + segments[i].rows
    <2> SUFFICES ASSUME NEW i \in 1..n PROVE f[i] = f[i - 1] + segments[i].rows
      OBVIOUS
    <2>1. f[i - 1] \in Int
      BY <1>1
    <2>2. step[i] = [x \in Int |-> x + segments[i].rows]
      OBVIOUS
    <2>3. f[i] = step[i][f[i - 1]]
      BY <1>3
    <2> HIDE DEF step
    <2> QED
      BY <2>1, <2>2, <2>3
  <1>5. f = [k \in 0..n |-> IF k = 0 THEN 0 ELSE f[k - 1] + segments[k].rows]
    <2>1. \A k \in 0..n : f[k] = IF k = 0 THEN 0 ELSE f[k - 1] + segments[k].rows
      <3>1. \A k \in 0..n : k = 0 \/ k \in 1..n
        BY <1>1
      <3> QED
        BY <1>3, <1>4, <3>1
    <2>2. f = [k \in 0..n |-> f[k]]
      OBVIOUS
    <2> QED
      BY <2>1, <2>2
  <1>6. IsSum(f, segments)
    BY <1>5 DEF IsSum
  <1> DEFINE g == CHOOSE g : IsSum(g, segments)
  <1>7. IsSum(g, segments)
    BY <1>6, Zenon
  <1>8. valid_sum(segments) = g
    BY Zenon DEF valid_sum, IsSum
  <1> HIDE DEF g
  <1>9. \A k \in 0..n : g[k] = IF k = 0 THEN 0 ELSE g[k - 1] + segments[k].rows
    BY <1>7 DEF IsSum
  <1>10. 0 \in 0..n /\ \A i \in 1..n : i \in 0..n /\ i # 0
    BY <1>1
  <1>11. g[0] = 0 /\ \A i \in 1..n : g[i] = g[i - 1] + segments[i].rows
    BY <1>9, <1>10
  <1> DEFINE P == {k \in 0..n : g[k] \in Int}
  <1>12. 0 \in P
    BY <1>10, <1>11
  <1>13. ASSUME NEW i \in 1..n, i - 1 \in P PROVE i \in P
    <2>1. g[i - 1] \in Int /\ segments[i].rows \in Int /\ i \in 0..n
      BY <1>2, <1>10, <1>13
    <2>2. g[i] = g[i - 1] + segments[i].rows
      BY <1>11
    <2> QED
      BY <2>1, <2>2
  <1>14. \A k \in 0..n : k \in P
    <2> HIDE DEF P, n
    <2> QED
      BY <1>1, <1>12, <1>13, CountingUp
  <1> QED
    BY <1>8, <1>11, <1>14

\* One more segment adds its rows.
LEMMA SumOfAppend ==
  ASSUME NEW segments \in Seq(AnySegment), NEW e \in AnySegment
  PROVE  LET more == Append(segments, e) IN
         valid_sum(more)[Len(more)] = valid_sum(segments)[Len(segments)] + e.rows
  <1> DEFINE more == Append(segments, e)
             n == Len(segments)
             a == valid_sum(segments)
             b == valid_sum(more)
             P == {k \in 0..n : a[k] = b[k]}
             X == AnySegment
  <1>1. /\ more \in Seq(AnySegment) /\ n \in Nat /\ Len(more) = n + 1
        /\ more[n + 1] = e /\ \A k \in 1..n : more[k] = segments[k]
    <2>1. segments \in Seq(X) /\ e \in X
      OBVIOUS
    <2> HIDE DEF X
    <2>2. /\ more \in Seq(X) /\ n \in Nat /\ Len(more) = n + 1
          /\ more[n + 1] = e /\ \A k \in 1..n : more[k] = segments[k]
      BY <2>1, AppendFacts
    <2> QED
      BY <2>2 DEF X
  <1>2. a[0] = 0 /\ \A k \in 1..n : a[k] = a[k - 1] + segments[k].rows
    BY SumSteps
  <1>3. b[0] = 0 /\ \A k \in 1..(n + 1) : b[k] = b[k - 1] + more[k].rows
    <2> HIDE DEF more
    <2> QED
      BY <1>1, SumSteps
  <1> HIDE DEF a, b, more
  <1>4. 0 \in P
    BY <1>1, <1>2, <1>3
  <1>5. ASSUME NEW i \in 1..n, i - 1 \in P PROVE i \in P
    BY <1>1, <1>2, <1>3, <1>5
  <1>6. n \in P
    <2> HIDE DEF P, n
    <2>1. \A k \in 0..n : k \in P
      BY <1>1, <1>4, <1>5, CountingUp
    <2> QED
      BY <1>1, <2>1
  <1>7. b[n + 1] = b[n] + e.rows
    BY <1>1, <1>3
  <1> QED
    BY <1>1, <1>6, <1>7 DEF a, b, more

IsSegmentLoop(f, times, valid) ==
  f = [i \in 0..Len(times) |->
         IF i = 0 THEN [run |-> 0, found |-> <<>>] ELSE TakeSample(times, valid, f[i - 1], i)]

LEMMA SegmentLoopSteps ==
  ASSUME NEW times \in Seq(Int), NEW valid
  PROVE  /\ SegmentLoop(times, valid)[0] = [run |-> 0, found |-> <<>>]
         /\ \A i \in 1..Len(times) :
              SegmentLoop(times, valid)[i]
                = TakeSample(times, valid, SegmentLoop(times, valid)[i - 1], i)
  <1> DEFINE n == Len(times)
             X == {Segment(times, p[1], p[2]) : p \in (1..n) \X (0..n)}
             any == [run : 0..n, found : Seq(X)]
             step == [i \in 1..n |-> [x \in any |-> TakeSample(times, valid, x, i)]]
             start == [run |-> 0, found |-> <<>>]
  <1>1. n \in Nat
    OBVIOUS
  <1>2. ASSUME NEW x \in any, NEW last \in 0..n PROVE close_run(times, x, last) \in any
    <2>1. CASE x.run = 0
      BY <2>1 DEF close_run
    <2>2. CASE x.run # 0
      <3> DEFINE old == x.found
                 e == Segment(times, x.run, last)
      <3>1. x.run \in 1..n /\ old \in Seq(X)
        BY <2>2
      <3>2. e \in X
        <4>1. <<x.run, last>> \in (1..n) \X (0..n)
          BY <3>1
        <4> QED
          BY <4>1
      <3> HIDE DEF X, e, old
      <3>3. Append(old, e) \in Seq(X)
        BY <3>1, <3>2, AppendFacts
      <3>4. close_run(times, x, last) = [run |-> 0, found |-> Append(old, e)]
        BY <2>2 DEF close_run, old, e
      <3> QED
        BY <1>1, <3>3, <3>4
    <2> QED
      BY <2>1, <2>2
  <1>3. ASSUME NEW x \in any, NEW i \in 1..n PROVE TakeSample(times, valid, x, i) \in any
    <2> DEFINE closed == close_run(times, x, i - 1)
    <2>1. closed \in any /\ i \in 0..n
      <3>1. i \in 0..n /\ i - 1 \in 0..n
        BY <1>1
      <3> HIDE DEF any
      <3> QED
        BY <1>2, <3>1
    <2> HIDE DEF closed
    <2> SUFFICES \A y \in any : [y EXCEPT !.run = i] \in any
      BY <2>1 DEF TakeSample, closed
    <2> QED
      BY <2>1
  <1>4. step \in [1..n -> [any -> any]]
    BY <1>3
  <1>5. start \in any
    BY <1>1
  <1>6. PICK f \in [0..n -> any] : f[0] = start /\ \A i \in 1..n : f[i] = step[i][f[i - 1]]
    <2> DEFINE a == start
               b == n
               c == any
               g == step
    <2>1. a \in c /\ b \in Nat /\ g \in [1..b -> [c -> c]]
      BY <1>1, <1>4, <1>5
    <2> HIDE DEF a, b, c, g
    <2>2. PICK f : Loops(f, c, a, b, g)
      BY <2>1, LoopExists
    <2> QED
      BY <2>2 DEF Loops, a, b, c, g
  <1>7. \A i \in 1..n : f[i] = TakeSample(times, valid, f[i - 1], i)
    <2> SUFFICES ASSUME NEW i \in 1..n PROVE f[i] = TakeSample(times, valid, f[i - 1], i)
      OBVIOUS
    <2>1. f[i - 1] \in any
      BY <1>1
    <2>2. step[i] = [x \in any |-> TakeSample(times, valid, x, i)]
      OBVIOUS
    <2>3. f[i] = step[i][f[i - 1]]
      BY <1>6
    <2> HIDE DEF step, any
    <2> QED
      BY <2>1, <2>2, <2>3
  <1> HIDE DEF any, step
  <1>8. f = [i \in 0..n |-> IF i = 0 THEN start ELSE TakeSample(times, valid, f[i - 1], i)]
    <2>1. \A i \in 0..n : f[i] = IF i = 0 THEN start ELSE TakeSample(times, valid, f[i - 1], i)
      <3>1. \A i \in 0..n : i = 0 \/ i \in 1..n
        BY <1>1
      <3> QED
        BY <1>6, <1>7, <3>1
    <2>2. f = [i \in 0..n |-> f[i]]
      OBVIOUS
    <2> QED
      BY <2>1, <2>2
  <1>9. IsSegmentLoop(f, times, valid)
    BY <1>8 DEF IsSegmentLoop
  <1> DEFINE g == CHOOSE g : IsSegmentLoop(g, times, valid)
  <1>10. IsSegmentLoop(g, times, valid)
    BY <1>9, Zenon
  <1>11. SegmentLoop(times, valid) = g
    BY Zenon DEF SegmentLoop, IsSegmentLoop
  <1> HIDE DEF g
  <1>12. \A i \in 0..n : g[i] = IF i = 0 THEN start ELSE TakeSample(times, valid, g[i - 1], i)
    BY <1>10 DEF IsSegmentLoop
  <1>13. 0 \in 0..n /\ \A i \in 1..n : i \in 0..n /\ i # 0
    BY <1>1
  <1> QED
    BY <1>11, <1>12, <1>13

-----------------------------------------------------------------------------
(* Coverage: the segments.                                                 *)

\* The samples from the one to the other are valid, and no gap is between.
Together(times, valid, f, l) ==
  /\ \A j \in f..l : valid[j]
  /\ \A j \in (f + 1)..l : times[j] - times[j - 1] <= GAP_THRESHOLD

\* The samples that begin and end such a run of samples, which is then the longest.
Starts(times, valid) ==
  {i \in 1..Len(times) :
     valid[i] /\ (i = 1 \/ ~valid[i - 1] \/ times[i] - times[i - 1] > GAP_THRESHOLD)}
Ends(times, valid) ==
  {i \in 1..Len(times) :
     valid[i] /\ (i = Len(times) \/ ~valid[i + 1] \/ times[i + 1] - times[i] > GAP_THRESHOLD)}

UpTo(S, b) == {s \in S : s <= b}

\* found are the longest runs among the first b samples, which first and last list.
SegmentsOf(found, times, valid, first, last, b) ==
  /\ Lists(first, Len(found), UpTo(Starts(times, valid), b))
  /\ Lists(last, Len(found), UpTo(Ends(times, valid), b))
  /\ \A k \in 1..Len(found) :
       first[k] <= last[k] /\ Together(times, valid, first[k], last[k])
  /\ \A k \in 1..(Len(found) - 1) : last[k] < first[k + 1]
  /\ found = [k \in 1..Len(found) |-> Segment(times, first[k], last[k])]

FoundHolds(found, times, valid, b) ==
  /\ found \in Seq(AnySegment)
  /\ \E first, last : SegmentsOf(found, times, valid, first, last, b)
  /\ valid_sum(found)[Len(found)] = Cardinality({j \in 1..b : valid[j]})

\* An invalid sample neither begins nor ends a run.
LEMMA SkipInvalid ==
  ASSUME NEW times \in Seq(Int), NEW valid, NEW found, NEW b \in Nat, b + 1 \in 1..Len(times),
         FoundHolds(found, times, valid, b), ~valid[b + 1]
  PROVE  FoundHolds(found, times, valid, b + 1)
  <1>1. /\ UpTo(Starts(times, valid), b + 1) = UpTo(Starts(times, valid), b)
        /\ UpTo(Ends(times, valid), b + 1) = UpTo(Ends(times, valid), b)
    <2>1. \A S \in SUBSET Int : b + 1 \notin S => UpTo(S, b + 1) = UpTo(S, b)
      <3>1. \A i \in Int : i <= b + 1 <=> i <= b \/ i = b + 1
        OBVIOUS
      <3> QED
        BY <3>1 DEF UpTo
    <2>2. /\ Starts(times, valid) \in SUBSET Int /\ b + 1 \notin Starts(times, valid)
          /\ Ends(times, valid) \in SUBSET Int /\ b + 1 \notin Ends(times, valid)
      BY DEF Starts, Ends
    <2> QED
      BY <2>1, <2>2
  <1>2. {j \in 1..(b + 1) : valid[j]} = {j \in 1..b : valid[j]}
    OBVIOUS
  <1>3. \A first, last : SegmentsOf(found, times, valid, first, last, b)
                           => SegmentsOf(found, times, valid, first, last, b + 1)
    BY <1>1 DEF SegmentsOf
  <1> QED
    BY <1>2, <1>3 DEF FoundHolds

LEMMA ValidCount ==
  ASSUME NEW b \in Nat, NEW l \in Nat, b <= l, NEW valid, \A j \in (b + 1)..l : valid[j]
  PROVE  Cardinality({j \in 1..l : valid[j]}) = Cardinality({j \in 1..b : valid[j]}) + (l - b)
  <1> DEFINE A == {j \in 1..b : valid[j]}
             B == (b + 1)..l
  <1>1. {j \in 1..l : valid[j]} = A \cup B
    OBVIOUS
  <1>2. A \subseteq 1..b /\ IsFiniteSet(1..b)
    <2>1. 1 \in Int /\ b \in Int
      OBVIOUS
    <2> QED
      BY <2>1, FS_Interval
  <1>3. IsFiniteSet(A) /\ Cardinality(A) \in Nat
    BY <1>2, FS_Subset, FS_CardinalityType
  <1>4. IsFiniteSet(B) /\ Cardinality(B) = l - b
    <2>1. b + 1 \in Int /\ l \in Int /\ (b + 1 > l <=> l = b)
      OBVIOUS
    <2>2. IsFiniteSet(B) /\ Cardinality(B) = IF b + 1 > l THEN 0 ELSE l - (b + 1) + 1
      BY <2>1, FS_Interval
    <2> QED
      BY <2>1, <2>2
  <1>5. A \cap B = {}
    BY <1>2
  <1> HIDE DEF A, B
  <1>6. Cardinality(A \cup B) = Cardinality(A) + Cardinality(B) - Cardinality(A \cap B)
    BY <1>3, <1>4, FS_Union
  <1>7. Cardinality(A \cap B) = 0
    BY <1>5, FS_EmptySet
  <1>8. Cardinality(A \cup B) = Cardinality(A) + (l - b)
    BY <1>3, <1>4, <1>6, <1>7
  <1> QED
    BY <1>1, <1>8 DEF A

\* A run that goes on to the last of its samples is the next segment.
LEMMA CloseRun ==
  ASSUME NEW times \in Seq(Int), NEW valid, NEW found, NEW b \in Nat,
         FoundHolds(found, times, valid, b), NEW l \in 1..Len(times), b + 1 <= l,
         Together(times, valid, b + 1, l),
         b + 1 \in Starts(times, valid), l \in Ends(times, valid)
  PROVE  FoundHolds(Append(found, Segment(times, b + 1, l)), times, valid, l)
  <1> DEFINE e == Segment(times, b + 1, l)
             more == Append(found, e)
             m == Len(found)
             S == UpTo(Starts(times, valid), b)
             E == UpTo(Ends(times, valid), b)
  <1>1. e \in AnySegment /\ e.rows = l - b
    BY DEF Segment, AnySegment
  <1>2. found \in Seq(AnySegment) /\ m \in Nat
    BY DEF FoundHolds
  <1>3. /\ more \in Seq(AnySegment) /\ Len(more) = m + 1
        /\ more[m + 1] = e /\ \A k \in 1..m : more[k] = found[k]
        /\ more = [k \in 1..(m + 1) |-> more[k]]
    <2> DEFINE X == AnySegment
    <2>1. found \in Seq(X) /\ e \in X
      BY <1>1, <1>2
    <2> HIDE DEF X, e
    <2>2. /\ more \in Seq(X) /\ m \in Nat /\ Len(more) = m + 1
          /\ more[m + 1] = e /\ \A k \in 1..m : more[k] = found[k]
      BY <2>1, AppendFacts
    <2>3. more = [k \in 1..Len(more) |-> more[k]]
      <3> HIDE DEF more
      <3> QED
        BY <2>2
    <2>4. more = [k \in 1..(m + 1) |-> more[k]]
      <3>1. Len(more) = m + 1
        BY <2>2
      <3> HIDE DEF more, m
      <3> QED
        BY <2>3, <3>1
    <2> QED
      BY <2>2, <2>4 DEF X
  <1>4. UpTo(Starts(times, valid), l) = S \cup {b + 1}
    <2>1. ASSUME NEW i \in Starts(times, valid), b + 1 < i, i <= l PROVE FALSE
      <3>1. i \in (b + 2)..l /\ i \in ((b + 1) + 1)..l /\ i - 1 \in (b + 1)..l /\ i # 1
            /\ i \in 1..Len(times) /\ i - 1 \in 1..Len(times)
        BY <2>1 DEF Starts
      <3>2. valid[i - 1] /\ times[i] - times[i - 1] <= GAP_THRESHOLD
        BY <3>1 DEF Together
      <3>3. times[i] - times[i - 1] > GAP_THRESHOLD
        BY <2>1, <3>1, <3>2 DEF Starts
      <3>4. times[i - 1] \in Int /\ times[i] \in Int /\ GAP_THRESHOLD \in Int
        BY <3>1, CoverageAssumption
      <3> QED
        BY <3>2, <3>3, <3>4
    <2>2. Starts(times, valid) \subseteq Int
      BY DEF Starts
    <2> QED
      BY <2>1, <2>2 DEF UpTo
  <1>5. UpTo(Ends(times, valid), l) = E \cup {l}
    <2>1. ASSUME NEW i \in Ends(times, valid), b + 1 <= i, i < l PROVE FALSE
      <3>1. i \in (b + 1)..l /\ i + 1 \in (b + 1)..l /\ i + 1 \in (b + 2)..l
            /\ i \in Int /\ i # Len(times)
        BY <2>1 DEF Ends
      <3>2. valid[i + 1] /\ times[i + 1] - times[(i + 1) - 1] <= GAP_THRESHOLD
        BY <3>1 DEF Together
      <3>3. (i + 1) - 1 = i
        BY <3>1
      <3>4. times[i + 1] - times[i] > GAP_THRESHOLD
        BY <3>1, <3>2 DEF Ends
      <3>5. times[i + 1] \in Int /\ times[i] \in Int /\ GAP_THRESHOLD \in Int
        <4>1. i \in 1..Len(times) /\ i + 1 \in 1..Len(times)
          BY <3>1
        <4> QED
          BY <4>1, CoverageAssumption
      <3> QED
        BY <3>2, <3>3, <3>4, <3>5
    <2>2. Ends(times, valid) \subseteq Int
      BY DEF Ends
    <2> QED
      BY <2>1, <2>2 DEF UpTo
  <1>6. /\ S \subseteq Int /\ \A s \in S : s < b + 1
        /\ E \subseteq Int /\ \A s \in E : s < b + 1 /\ s < l
    BY DEF UpTo, Starts, Ends
  <1>7. PICK first, last : SegmentsOf(found, times, valid, first, last, b)
    BY DEF FoundHolds
  <1> DEFINE firsts == [k \in 1..(m + 1) |-> IF k = m + 1 THEN b + 1 ELSE first[k]]
             lasts == [k \in 1..(m + 1) |-> IF k = m + 1 THEN l ELSE last[k]]
  <1>8. Lists(first, m, S) /\ Lists(last, m, E)
    BY <1>7 DEF SegmentsOf
  <1>9. Lists(firsts, m + 1, UpTo(Starts(times, valid), l))
    <2> DEFINE c == b + 1
    <2>1. c \in Int /\ \A s \in S : s < c
      BY <1>6
    <2>2. firsts = [k \in 1..(m + 1) |-> IF k = m + 1 THEN c ELSE first[k]]
      OBVIOUS
    <2>3. UpTo(Starts(times, valid), l) = S \cup {c}
      BY <1>4
    <2> HIDE DEF S, m, c, firsts
    <2>4. Lists([k \in 1..(m + 1) |-> IF k = m + 1 THEN c ELSE first[k]], m + 1, S \cup {c})
      BY <1>2, <1>6, <1>8, <2>1, ListGrows
    <2> QED
      BY <2>2, <2>3, <2>4
  <1>10. Lists(lasts, m + 1, UpTo(Ends(times, valid), l))
    <2>1. l \in Int /\ \A s \in E : s < l
      BY <1>6
    <2>2. lasts = [k \in 1..(m + 1) |-> IF k = m + 1 THEN l ELSE last[k]]
      OBVIOUS
    <2> HIDE DEF E, m, lasts
    <2>3. Lists([k \in 1..(m + 1) |-> IF k = m + 1 THEN l ELSE last[k]], m + 1, E \cup {l})
      BY <1>2, <1>6, <1>8, <2>1, ListGrows
    <2> QED
      BY <1>5, <2>2, <2>3
  <1>11. /\ firsts[m + 1] = b + 1 /\ lasts[m + 1] = l
         /\ \A k \in 1..m : firsts[k] = first[k] /\ lasts[k] = last[k]
         /\ \A k \in 1..(m + 1) : k = m + 1 \/ k \in 1..m
    BY <1>2
  <1> HIDE DEF firsts, lasts
  <1>12. ASSUME NEW k \in 1..(m + 1)
         PROVE  firsts[k] <= lasts[k] /\ Together(times, valid, firsts[k], lasts[k])
    <2>1. CASE k = m + 1
      BY <1>11, <2>1
    <2>2. CASE k \in 1..m
      BY <1>7, <1>11, <2>2 DEF SegmentsOf
    <2> QED
      BY <1>11, <2>1, <2>2
  <1>13. ASSUME NEW k \in 1..m PROVE lasts[k] < firsts[k + 1]
    <2>1. CASE k = m
      <3>1. last[k] \in E
        BY <1>8 DEF Lists
      <3> QED
        BY <1>6, <1>11, <2>1, <3>1
    <2>2. CASE k # m
      <3>1. k \in 1..(m - 1) /\ k + 1 \in 1..m
        BY <1>2, <2>2
      <3>2. last[k] < first[k + 1]
        BY <1>7, <3>1 DEF SegmentsOf
      <3> QED
        BY <1>11, <3>1, <3>2
    <2> QED
      BY <2>1, <2>2
  <1>14. \A k \in 1..(m + 1) : more[k] = Segment(times, firsts[k], lasts[k])
    <2>1. \A k \in 1..m : found[k] = Segment(times, first[k], last[k])
      BY <1>7 DEF SegmentsOf
    <2> HIDE DEF more, m
    <2> QED
      BY <1>3, <1>11, <2>1 DEF e
  <1>15. SegmentsOf(more, times, valid, firsts, lasts, l)
    <2>1. (m + 1) - 1 = m
      BY <1>2
    <2> HIDE DEF more, m
    <2> QED
      BY <1>3, <1>9, <1>10, <1>12, <1>13, <1>14, <2>1 DEF SegmentsOf
  <1>16. valid_sum(more)[Len(more)] = Cardinality({j \in 1..l : valid[j]})
    <2>1. valid_sum(more)[Len(more)] = valid_sum(found)[m] + (l - b)
      <3> HIDE DEF e
      <3> QED
        BY <1>1, <1>2, SumOfAppend
    <2>2. valid_sum(found)[m] = Cardinality({j \in 1..b : valid[j]})
      BY DEF FoundHolds
    <2>3. Cardinality({j \in 1..l : valid[j]}) = Cardinality({j \in 1..b : valid[j]}) + (l - b)
      <3>1. \A j \in (b + 1)..l : valid[j]
        BY DEF Together
      <3>2. l \in Nat /\ b <= l
        OBVIOUS
      <3> QED
        BY <3>1, <3>2, ValidCount
    <2> QED
      BY <2>1, <2>2, <2>3
  <1> QED
    BY <1>3, <1>15, <1>16 DEF FoundHolds

\* Before sample i + 1: no run goes on, or one that began at st.run.
LoopHolds(st, times, valid, i) ==
  /\ st = [run |-> st.run, found |-> st.found]
  /\ \/ /\ st.run = 0 /\ (i = 0 \/ ~valid[i])
        /\ FoundHolds(st.found, times, valid, i)
     \/ /\ st.run \in Starts(times, valid) /\ st.run <= i
        /\ Together(times, valid, st.run, i)
        /\ FoundHolds(st.found, times, valid, st.run - 1)

LEMMA CloseHolds ==
  ASSUME NEW times \in Seq(Int), NEW valid, NEW st, NEW l \in 0..Len(times),
         LoopHolds(st, times, valid, l), st.run # 0 => l \in Ends(times, valid)
  PROVE  /\ close_run(times, st, l) = [run |-> 0, found |-> close_run(times, st, l).found]
         /\ FoundHolds(close_run(times, st, l).found, times, valid, l)
  <1>1. CASE st.run = 0
    <2>1. 0 \notin Starts(times, valid)
      BY DEF Starts
    <2> QED
      BY <1>1, <2>1 DEF LoopHolds, close_run
  <1>2. CASE st.run # 0
    <2> DEFINE b == st.run - 1
               found == st.found
               e == Segment(times, b + 1, l)
    <2>1. st.run \in 1..Len(times) /\ b \in Nat /\ b + 1 = st.run
      BY <1>2 DEF LoopHolds, Starts
    <2>2. /\ FoundHolds(found, times, valid, b) /\ b + 1 <= l
          /\ Together(times, valid, b + 1, l) /\ b + 1 \in Starts(times, valid)
          /\ l \in 1..Len(times) /\ l \in Ends(times, valid)
      BY <1>2, <2>1 DEF LoopHolds
    <2>3. close_run(times, st, l) = [run |-> 0, found |-> Append(found, e)]
      BY <1>2, <2>1 DEF close_run
    <2> HIDE DEF b, found
    <2>4. FoundHolds(Append(found, Segment(times, b + 1, l)), times, valid, l)
      BY <2>1, <2>2, CloseRun
    <2> HIDE DEF e
    <2> QED
      BY <2>3, <2>4 DEF e
  <1> QED
    BY <1>1, <1>2

LEMMA TakeHolds ==
  ASSUME NEW times \in Seq(Int), NEW valid, NEW st, NEW i \in 1..Len(times),
         LoopHolds(st, times, valid, i - 1)
  PROVE  LoopHolds(TakeSample(times, valid, st, i), times, valid, i)
  <1> DEFINE b == i - 1
             far == i > 1 /\ times[i] - times[i - 1] > GAP_THRESHOLD
             closed == close_run(times, st, i - 1)
  <1>1. /\ b \in Nat /\ b + 1 = i /\ b \in 0..Len(times) /\ b + 1 \in 1..Len(times)
        /\ i \in Nat /\ i # 0
    OBVIOUS
  <1>2. st = [run |-> st.run, found |-> st.found]
    BY DEF LoopHolds
  <1>3. st.run # 0 => /\ st.run \in 1..b /\ b \in 1..Len(times) /\ valid[b] /\ i > 1
                      /\ Together(times, valid, st.run, b)
    <2>1. st.run # 0 => /\ st.run \in Starts(times, valid) /\ st.run <= b
                        /\ Together(times, valid, st.run, b)
      BY DEF LoopHolds
    <2>2. Starts(times, valid) \subseteq 1..Len(times)
      BY DEF Starts
    <2>3. st.run # 0 => st.run \in 1..b /\ b \in 1..Len(times) /\ i > 1 /\ b \in st.run..b
      BY <1>1, <2>1, <2>2
    <2> QED
      BY <2>1, <2>3 DEF Together
  <1>4. ASSUME ~valid[i] \/ far
        PROVE  closed = [run |-> 0, found |-> closed.found]
               /\ FoundHolds(closed.found, times, valid, b)
    <2>1. ASSUME st.run # 0 PROVE b \in Ends(times, valid)
      <3>1. b \in 1..Len(times) /\ valid[b] /\ i > 1
        BY <1>3, <2>1
      <3>2. ~valid[b + 1] \/ times[b + 1] - times[b] > GAP_THRESHOLD
        BY <1>1, <1>4
      <3> QED
        BY <3>1, <3>2 DEF Ends
    <2>2. LoopHolds(st, times, valid, b)
      OBVIOUS
    <2>3. closed = close_run(times, st, b)
      OBVIOUS
    <2> HIDE DEF b, closed
    <2> QED
      BY <1>1, <2>1, <2>2, <2>3, CloseHolds
  <1>5. ASSUME valid[i] PROVE Together(times, valid, i, i)
    BY <1>1, <1>5 DEF Together
  <1>6. CASE ~valid[i]
    <2>1. TakeSample(times, valid, st, i) = closed
      BY <1>6 DEF TakeSample
    <2>2. FoundHolds(closed.found, times, valid, b) /\ closed = [run |-> 0, found |-> closed.found]
      BY <1>4, <1>6
    <2>3. FoundHolds(closed.found, times, valid, i)
      <3>1. ~valid[b + 1]
        BY <1>1, <1>6
      <3> DEFINE f == closed.found
      <3>2. FoundHolds(f, times, valid, b)
        BY <2>2
      <3> HIDE DEF b, closed, f
      <3>3. FoundHolds(f, times, valid, b + 1)
        BY <1>1, <3>1, <3>2, SkipInvalid
      <3> QED
        BY <1>1, <3>3 DEF f
    <2> HIDE DEF closed
    <2>4. closed.run = 0
      BY <2>2
    <2> QED
      BY <1>6, <2>1, <2>2, <2>3, <2>4 DEF LoopHolds
  <1>7. CASE valid[i] /\ far
    <2>1. closed = [run |-> 0, found |-> closed.found] /\ FoundHolds(closed.found, times, valid, b)
      BY <1>4, <1>7
    <2>2. TakeSample(times, valid, st, i) = [closed EXCEPT !.run = i]
      <3>1. closed.run = 0
        BY <2>1
      <3> QED
        BY <1>7, <3>1 DEF TakeSample
    <2>3. i \in Starts(times, valid)
      BY <1>7 DEF Starts
    <2> HIDE DEF closed
    <2>4. TakeSample(times, valid, st, i) = [run |-> i, found |-> closed.found]
      BY <2>1, <2>2
    <2> QED
      BY <1>1, <1>5, <1>7, <2>1, <2>3, <2>4 DEF LoopHolds
  <1>8. CASE valid[i] /\ ~far /\ st.run = 0
    <2>1. TakeSample(times, valid, st, i) = [st EXCEPT !.run = i]
      BY <1>8 DEF TakeSample
    <2>2. TakeSample(times, valid, st, i) = [run |-> i, found |-> st.found]
      BY <1>2, <2>1
    <2>3. 0 \notin Starts(times, valid)
      BY DEF Starts
    <2>4. (b = 0 \/ ~valid[b]) /\ FoundHolds(st.found, times, valid, b)
      BY <1>8, <2>3 DEF LoopHolds
    <2>5. i \in Starts(times, valid)
      BY <1>1, <1>8, <2>4 DEF Starts
    <2> QED
      BY <1>1, <1>5, <1>8, <2>2, <2>4, <2>5 DEF LoopHolds
  <1>9. CASE valid[i] /\ ~far /\ st.run # 0
    <2>1. TakeSample(times, valid, st, i) = st
      BY <1>9 DEF TakeSample
    <2>2. 0 \notin Starts(times, valid)
      BY DEF Starts
    <2>3. st.run \in 1..b /\ Together(times, valid, st.run, b) /\ i > 1
      BY <1>3, <1>9
    <2>4. st.run \in Starts(times, valid) /\ FoundHolds(st.found, times, valid, st.run - 1)
      BY <1>9 DEF LoopHolds
    <2>5. ~(times[i] - times[i - 1] > GAP_THRESHOLD)
      BY <1>9, <2>3
    <2>6. times[i] - times[i - 1] <= GAP_THRESHOLD
      <3>1. times[i - 1] \in Int /\ times[i] \in Int /\ GAP_THRESHOLD \in Int
        <4>1. i - 1 \in 1..Len(times)
          BY <1>1, <2>3
        <4> QED
          BY <4>1, CoverageAssumption
      <3> QED
        BY <2>5, <3>1
    <2>7. \A j \in st.run..i : j \in st.run..b \/ j = i
      BY <2>3
    <2>8. \A j \in (st.run + 1)..i : j \in (st.run + 1)..b \/ j = i
      BY <2>3
    <2>9. Together(times, valid, st.run, i)
      BY <1>9, <2>3, <2>6, <2>7, <2>8 DEF Together
    <2>10. st.run <= i
      BY <2>3
    <2> QED
      BY <1>2, <2>1, <2>4, <2>9, <2>10 DEF LoopHolds
  <1> QED
    BY <1>6, <1>7, <1>8, <1>9

\* The segments are the longest runs of valid samples without a gap, in order.
LEMMA SegmentsListed ==
  ASSUME NEW times \in Seq(Int), NEW valid
  PROVE  FoundHolds(Segments(times, valid), times, valid, Len(times))
  <1> DEFINE n == Len(times)
             L == SegmentLoop(times, valid)
             P == {i \in 0..n : LoopHolds(L[i], times, valid, i)}
  <1>1. n \in Nat /\ 0 \in 0..n /\ n \in 0..n
    OBVIOUS
  <1>2. 0 \in P
    <2>1. L[0] = [run |-> 0, found |-> <<>>]
      BY SegmentLoopSteps
    <2>2. UpTo(Starts(times, valid), 0) = {} /\ UpTo(Ends(times, valid), 0) = {}
      BY DEF UpTo, Starts, Ends
    <2> DEFINE none == [k \in 1..0 |-> 0]
    <2>3. Lists(none, 0, {})
      BY DEF Lists
    <2>4. <<>> \in Seq(AnySegment) /\ Len(<<>>) = 0
          /\ <<>> = [k \in 1..0 |-> Segment(times, none[k], none[k])]
      OBVIOUS
    <2>5. SegmentsOf(<<>>, times, valid, none, none, 0)
      <3> DEFINE f == <<>>
      <3>1. /\ Len(f) = 0 /\ f = [k \in 1..0 |-> Segment(times, none[k], none[k])]
            /\ \A k \in 1..0 : none[k] <= none[k] /\ Together(times, valid, none[k], none[k])
            /\ \A k \in 1..(0 - 1) : none[k] < none[k + 1]
        BY <2>4
      <3> HIDE DEF f, none
      <3>2. SegmentsOf(f, times, valid, none, none, 0)
        BY <2>2, <2>3, <3>1 DEF SegmentsOf
      <3> QED
        BY <3>2 DEF f
    <2> HIDE DEF none
    <2>6. valid_sum(<<>>)[0] = 0
      BY <2>4, SumSteps
    <2>7. {j \in 1..0 : valid[j]} = {}
      OBVIOUS
    <2>8. Cardinality({j \in 1..0 : valid[j]}) = 0
      BY <2>7, FS_EmptySet
    <2>9. FoundHolds(<<>>, times, valid, 0)
      BY <2>4, <2>5, <2>6, <2>8 DEF FoundHolds
    <2>10. LoopHolds([run |-> 0, found |-> <<>>], times, valid, 0)
      BY <2>9 DEF LoopHolds
    <2> QED
      BY <1>1, <2>1, <2>10
  <1>3. ASSUME NEW i \in 1..n, i - 1 \in P PROVE i \in P
    <2> DEFINE st == L[i - 1]
    <2>1. LoopHolds(st, times, valid, i - 1)
      BY <1>3
    <2>2. L[i] = TakeSample(times, valid, st, i)
      BY SegmentLoopSteps
    <2> HIDE DEF st
    <2>3. LoopHolds(TakeSample(times, valid, st, i), times, valid, i)
      BY <2>1, TakeHolds
    <2> HIDE DEF L
    <2>4. i \in 0..n
      BY <1>1
    <2> QED
      BY <2>2, <2>3, <2>4
  <1>4. n \in P
    <2> HIDE DEF P, n
    <2>1. \A i \in 0..n : i \in P
      BY <1>1, <1>2, <1>3, CountingUp
    <2> QED
      BY <1>1, <2>1
  <1>5. LoopHolds(L[n], times, valid, n)
    BY <1>4
  <1> DEFINE st == L[n]
  <1>6. st.run # 0 => n \in Ends(times, valid)
    <2>1. ASSUME st.run # 0 PROVE n \in Ends(times, valid)
      <3> HIDE DEF L
      <3>1. /\ st.run \in Starts(times, valid) /\ st.run <= n
            /\ Together(times, valid, st.run, n)
        BY <1>5, <2>1 DEF LoopHolds
      <3>2. st.run \in 1..n
        BY <3>1 DEF Starts
      <3>3. n \in st.run..n /\ n \in 1..n
        BY <1>1, <3>2
      <3>4. valid[n]
        BY <3>1, <3>3 DEF Together
      <3> QED
        BY <3>3, <3>4 DEF Ends
    <2> QED
      BY <2>1
  <1>7. Segments(times, valid) = close_run(times, st, n).found
    BY DEF Segments
  <1> HIDE DEF st
  <1>8. LoopHolds(st, times, valid, n)
    BY <1>5 DEF st
  <1> HIDE DEF n
  <1>9. n \in 0..Len(times)
    BY DEF n
  <1>10. FoundHolds(close_run(times, st, n).found, times, valid, n)
    BY <1>6, <1>8, <1>9, CloseHolds
  <1> QED
    BY <1>7, <1>10 DEF n

-----------------------------------------------------------------------------
(* Coverage: the report is exact.                                          *)

\* Samples of the window, in order.
Series(times) ==
  /\ times \in Seq(Int) /\ Len(times) >= 1
  /\ \A i \in 1..Len(times) : times[i] \in 0..Window
  /\ \A i, j \in 1..Len(times) : i < j => times[i] < times[j]

\* What is in order step by step is in order.
LEMMA InOrder ==
  ASSUME NEW f, NEW n \in Nat, \A i \in 1..n : f[i] \in Int,
         \A i \in 1..(n - 1) : f[i] < f[i + 1]
  PROVE  \A i, j \in 1..n : i < j => f[i] < f[j]
  <1> SUFFICES ASSUME NEW i \in 1..n PROVE \A j \in 1..n : i < j => f[i] < f[j]
    OBVIOUS
  <1> DEFINE P == {j \in 0..n : i < j => f[i] < f[j]}
  <1>1. 0 \in P
    OBVIOUS
  <1>2. ASSUME NEW j \in 1..n, j - 1 \in P PROVE j \in P
    <2>1. CASE i < j - 1
      <3>1. j - 1 \in 1..(n - 1) /\ (j - 1) + 1 = j /\ j - 1 \in 1..n
        BY <2>1
      <3>2. f[j - 1] < f[j] /\ f[i] < f[j - 1]
        BY <1>2, <2>1, <3>1
      <3>3. f[i] \in Int /\ f[j - 1] \in Int /\ f[j] \in Int
        BY <3>1
      <3>4. f[i] < f[j]
        BY <3>2, <3>3
      <3> QED
        BY <3>4
    <2>2. CASE i = j - 1
      <3>1. i \in 1..(n - 1) /\ i + 1 = j
        BY <2>2
      <3>2. f[i] < f[j]
        BY <3>1
      <3> QED
        BY <3>2
    <2>3. CASE i > j - 1
      BY <2>3
    <2> QED
      BY <2>1, <2>2, <2>3
  <1>3. \A j \in 0..n : j \in P
    <2> HIDE DEF P
    <2> QED
      BY <1>1, <1>2, CountingUp
  <1> QED
    BY <1>3

\* The ends of the stretches are in the window and in order.
LEMMA BoundsInOrder ==
  ASSUME NEW times, Series(times)
  PROVE  /\ Bound(times, 0) = 0 /\ Bound(times, Len(times) + 1) = Window
         /\ \A i \in 1..Len(times) : Bound(times, i) = times[i]
         /\ \A i \in 0..(Len(times) + 1) : Bound(times, i) \in 0..Window
         /\ \A i, j \in 0..(Len(times) + 1) : i <= j => Bound(times, i) <= Bound(times, j)
  <1> DEFINE n == Len(times)
             B(i) == Bound(times, i)
  <1>1. n \in Nat /\ n >= 1 /\ \A i \in 1..n : times[i] \in 0..Window
    BY DEF Series
  <1>2. B(0) = 0 /\ B(n + 1) = Window /\ \A i \in 1..n : B(i) = times[i]
    BY <1>1 DEF Bound
  <1>3. \A i \in 0..(n + 1) : i = 0 \/ i = n + 1 \/ i \in 1..n
    BY <1>1
  <1>4. Window \in Nat /\ 0 \in 0..Window /\ Window \in 0..Window
    BY CoverageAssumption
  <1>5. \A i \in 0..(n + 1) : B(i) \in 0..Window
    <2> HIDE DEF B, n
    <2> QED
      BY <1>1, <1>2, <1>3, <1>4
  <1>6. ASSUME NEW i \in 0..(n + 1), NEW j \in 0..(n + 1), i <= j PROVE B(i) <= B(j)
    <2>1. B(i) \in 0..Window /\ B(j) \in 0..Window
      BY <1>5
    <2>2. CASE i = j
      BY <2>1, <2>2
    <2>3. CASE i # j
      <3>1. i = 0 \/ j = n + 1 \/ (i \in 1..n /\ j \in 1..n /\ i < j)
        BY <1>1, <1>6, <2>3
      <3>2. CASE i = 0
        BY <1>2, <2>1, <3>2
      <3>3. CASE j = n + 1
        BY <1>2, <2>1, <3>3
      <3>4. CASE i \in 1..n /\ j \in 1..n /\ i < j
        <4>1. times[i] < times[j]
          BY <3>4 DEF Series
        <4>2. times[i] = B(i) /\ times[j] = B(j)
          BY <1>2, <3>4
        <4> HIDE DEF B
        <4> QED
          BY <2>1, <4>1, <4>2
      <3> QED
        BY <3>1, <3>2, <3>3, <3>4
    <2> QED
      BY <2>2, <2>3
  <1> QED
    BY <1>2, <1>5, <1>6

\* The gaps are the stretches of the window over the threshold without a sample.
LEMMA GapsAreExact ==
  ASSUME NEW times, Series(times)
  PROVE  LET g == Gaps(times)
             at == {times[i] : i \in 1..Len(times)} \cup {0, Window} IN
         {<<g[k].from, g[k].to>> : k \in 1..Len(g)} =
           {p \in at \X at : /\ p[2] - p[1] > GAP_THRESHOLD
                             /\ \A i \in 1..Len(times) : times[i] <= p[1] \/ times[i] >= p[2]}
  <1> DEFINE n == Len(times)
             B(i) == Bound(times, i)
             g == Gaps(times)
             at == {times[i] : i \in 1..n} \cup {0, Window}
             empty(a, b) == \A i \in 1..n : times[i] <= a \/ times[i] >= b
             silences == {p \in at \X at : p[2] - p[1] > GAP_THRESHOLD /\ empty(p[1], p[2])}
  <1>1. /\ n \in Nat /\ n >= 1 /\ times \in Seq(Int) /\ GAP_THRESHOLD \in Nat /\ GAP_THRESHOLD > 0
        /\ \A i \in 1..n : times[i] \in 0..Window
    BY CoverageAssumption DEF Series
  <1>2. /\ B(0) = 0 /\ B(n + 1) = Window /\ \A i \in 1..n : B(i) = times[i]
        /\ \A i \in 0..(n + 1) : B(i) \in 0..Window
        /\ \A i, j \in 0..(n + 1) : i <= j => B(i) <= B(j)
    BY BoundsInOrder
  <1>3. at = {B(i) : i \in 0..(n + 1)}
    <2>1. \A i \in 0..(n + 1) : i = 0 \/ i = n + 1 \/ i \in 1..n
      BY <1>1
    <2>2. 0 \in 0..(n + 1) /\ n + 1 \in 0..(n + 1) /\ \A i \in 1..n : i \in 0..(n + 1)
      BY <1>1
    <2> HIDE DEF n, B
    <2> QED
      BY <1>2, <2>1, <2>2
  <1>4. PICK idx : Lists(idx, Len(g), Silent(times)) /\ GapsOf(g, times, idx)
    BY <1>1, GapsListed
  <1>5. {<<g[k].from, g[k].to>> : k \in 1..Len(g)} = {<<B(i - 1), B(i)>> : i \in Silent(times)}
    <2>1. \A k \in 1..Len(g) : g[k].from = B(idx[k] - 1) /\ g[k].to = B(idx[k])
      BY <1>4 DEF GapsOf, GapAt
    <2>2. \A k \in 1..Len(g) : idx[k] \in Silent(times)
      BY <1>4 DEF Lists
    <2>3. \A i \in Silent(times) : \E k \in 1..Len(g) : idx[k] = i
      BY <1>4 DEF Lists
    <2> HIDE DEF B, g
    <2> QED
      BY <2>1, <2>2, <2>3
  <1>6. ASSUME NEW i \in Silent(times) PROVE <<B(i - 1), B(i)>> \in silences
    <2>1. i \in 1..(n + 1) /\ B(i) - B(i - 1) > GAP_THRESHOLD
      BY DEF Silent
    <2>2. i \in 0..(n + 1) /\ i - 1 \in 0..(n + 1)
      BY <1>1, <2>1
    <2>3. empty(B(i - 1), B(i))
      <3> SUFFICES ASSUME NEW j \in 1..n PROVE times[j] <= B(i - 1) \/ times[j] >= B(i)
        OBVIOUS
      <3>1. j \in 0..(n + 1) /\ (j <= i - 1 \/ i <= j)
        BY <1>1, <2>1
      <3>2. times[j] = B(j) /\ B(j) \in 0..Window /\ B(i) \in 0..Window
        BY <1>2, <2>2, <3>1
      <3> HIDE DEF B
      <3>3. B(j) <= B(i - 1) \/ B(i) <= B(j)
        BY <1>2, <2>2, <3>1
      <3> QED
        BY <3>2, <3>3
    <2>4. B(i - 1) \in at /\ B(i) \in at
      BY <1>3, <2>2
    <2> HIDE DEF B, at, empty
    <2> QED
      BY <2>1, <2>3, <2>4
  <1>7. ASSUME NEW a \in at, NEW b \in at, b - a > GAP_THRESHOLD, empty(a, b)
        PROVE  \E i \in Silent(times) : <<a, b>> = <<B(i - 1), B(i)>>
    <2>1. PICK q \in 0..(n + 1) : a = B(q)
      BY <1>3
    <2>2. PICK j \in 0..(n + 1) : b = B(j)
      BY <1>3
    <2>3. a \in 0..Window /\ b \in 0..Window /\ a < b
      <3>1. a \in 0..Window /\ b \in 0..Window
        BY <1>2, <2>1, <2>2
      <3> QED
        BY <1>1, <1>7, <3>1
    <2> DEFINE later == {i \in 1..(n + 1) : B(i) > a}
    <2>4. j \in later
      <3>1. j # 0
        BY <1>2, <2>2, <2>3
      <3> QED
        BY <2>2, <2>3, <3>1
    <2>5. PICK i \in later : \A k \in later : i <= k
      <3>1. later \subseteq Nat /\ later # {}
        BY <2>4
      <3> HIDE DEF later
      <3> QED
        BY <3>1, LeastNumber
    <2>6. i \in 1..(n + 1) /\ B(i) > a /\ i <= j /\ i \in 0..(n + 1) /\ i - 1 \in 0..(n + 1)
      BY <2>4, <2>5
    <2>7. B(i) \in 0..Window /\ B(i - 1) \in 0..Window
      BY <1>2, <2>6
    <2>8. B(i - 1) <= a
      <3>1. CASE i = 1
        BY <1>2, <2>3, <3>1
      <3>2. CASE i # 1
        <4>1. i - 1 \in 1..(n + 1) /\ ~(i <= i - 1)
          BY <2>6, <3>2
        <4>2. i - 1 \notin later
          <5> HIDE DEF later
          <5> QED
            BY <2>5, <4>1
        <4>3. ~(B(i - 1) > a)
          BY <4>1, <4>2
        <4> QED
          BY <2>3, <2>7, <4>3
      <3> QED
        BY <3>1, <3>2
    <2> HIDE DEF later
    <2>9. a <= B(i - 1)
      <3>1. ~(i <= q)
        <4>1. i <= q => B(i) <= B(q)
          BY <1>2, <2>6
        <4> QED
          BY <2>1, <2>3, <2>6, <2>7, <4>1
      <3>2. q <= i - 1
        BY <2>6, <3>1
      <3> HIDE DEF B
      <3> QED
        BY <1>2, <2>1, <2>6, <3>2
    <2>10. B(i) <= b
      <3> HIDE DEF B
      <3> QED
        BY <1>2, <2>2, <2>6
    <2>11. b <= B(i)
      <3>1. CASE i = j
        BY <2>2, <2>3, <3>1
      <3>2. CASE i # j
        <4>1. i \in 1..n
          BY <2>6, <3>2
        <4>2. B(i) <= a \/ B(i) >= b
          BY <1>2, <1>7, <4>1
        <4> QED
          BY <2>3, <2>6, <2>7, <4>2
      <3> QED
        BY <3>1, <3>2
    <2>12. a = B(i - 1) /\ b = B(i)
      <3> HIDE DEF B
      <3> QED
        BY <2>3, <2>7, <2>8, <2>9, <2>10, <2>11
    <2>13. i \in Silent(times)
      BY <1>7, <2>6, <2>12 DEF Silent
    <2> HIDE DEF B
    <2> QED
      BY <2>12, <2>13
  <1>8. silences = {<<B(i - 1), B(i)>> : i \in Silent(times)}
    <2>1. \A p \in silences : \E i \in Silent(times) : p = <<B(i - 1), B(i)>>
      <3> SUFFICES ASSUME NEW p \in silences
                   PROVE  \E i \in Silent(times) : p = <<B(i - 1), B(i)>>
        OBVIOUS
      <3> DEFINE x == p[1]
                 y == p[2]
      <3>1. p = <<x, y>> /\ x \in at /\ y \in at /\ y - x > GAP_THRESHOLD /\ empty(x, y)
        OBVIOUS
      <3> HIDE DEF x, y, at, empty, B
      <3>2. \E i \in Silent(times) : <<x, y>> = <<B(i - 1), B(i)>>
        BY <1>7, <3>1
      <3> QED
        BY <3>1, <3>2
    <2> HIDE DEF silences, B
    <2> QED
      BY <1>6, <2>1
  <1> HIDE DEF B
  <1> QED
    BY <1>5, <1>8

\* No run goes on over the end of a run, or back over its beginning.
LEMMA RunEnds ==
  ASSUME NEW times \in Seq(Int), NEW valid, NEW f \in Int, NEW l \in 1..Len(times),
         Together(times, valid, f, l), NEW e \in Ends(times, valid), f <= e, e < l
  PROVE  FALSE
  <1>1. e \in f..l /\ e + 1 \in f..l /\ e + 1 \in (f + 1)..l /\ e \in Int
        /\ e # Len(times) /\ e \in 1..Len(times) /\ e + 1 \in 1..Len(times)
    BY DEF Ends
  <1>2. valid[e + 1] /\ times[e + 1] - times[(e + 1) - 1] <= GAP_THRESHOLD
    BY <1>1 DEF Together
  <1>3. (e + 1) - 1 = e
    BY <1>1
  <1>4. times[e + 1] - times[e] > GAP_THRESHOLD
    BY <1>1, <1>2 DEF Ends
  <1>5. times[e + 1] \in Int /\ times[e] \in Int /\ GAP_THRESHOLD \in Int
    BY <1>1, CoverageAssumption
  <1> QED
    BY <1>2, <1>3, <1>4, <1>5

LEMMA RunStarts ==
  ASSUME NEW times \in Seq(Int), NEW valid, NEW f \in Int, NEW l \in Int,
         Together(times, valid, f, l), NEW s \in Starts(times, valid), f < s, s <= l, f >= 1
  PROVE  FALSE
  <1>1. s \in (f + 1)..l /\ s - 1 \in f..l /\ s # 1
        /\ s \in 1..Len(times) /\ s - 1 \in 1..Len(times)
    BY DEF Starts
  <1>2. valid[s - 1] /\ times[s] - times[s - 1] <= GAP_THRESHOLD
    BY <1>1 DEF Together
  <1>3. times[s] - times[s - 1] > GAP_THRESHOLD
    BY <1>1, <1>2 DEF Starts
  <1>4. times[s - 1] \in Int /\ times[s] \in Int /\ GAP_THRESHOLD \in Int
    BY <1>1, CoverageAssumption
  <1> QED
    BY <1>2, <1>3, <1>4

\* The segments are the longest runs.
LEMMA SegmentsAreExact ==
  ASSUME NEW times \in Seq(Int), NEW valid
  PROVE  LET found == Segments(times, valid)
             samples == 1..Len(times)
             runs == {p \in samples \X samples :
                        p[1] <= p[2] /\ Together(times, valid, p[1], p[2])}
             longest == {p \in runs : \A q \in runs : q[1] <= p[1] /\ p[2] <= q[2] => q = p} IN
         {found[k] : k \in 1..Len(found)} = {Segment(times, p[1], p[2]) : p \in longest}
  <1> DEFINE found == Segments(times, valid)
             n == Len(times)
             m == Len(found)
             runs == {p \in (1..n) \X (1..n) :
                        p[1] <= p[2] /\ Together(times, valid, p[1], p[2])}
             Within(p, q) == q[1] <= p[1] /\ p[2] <= q[2]
             longest == {p \in runs : \A q \in runs : Within(p, q) => q = p}
             S == Starts(times, valid)
             E == Ends(times, valid)
  <1>1. n \in Nat /\ GAP_THRESHOLD \in Int /\ \A i \in 1..n : times[i] \in Int
    BY CoverageAssumption
  <1>2. S \subseteq 1..n /\ E \subseteq 1..n
    BY DEF Starts, Ends
  <1>3. PICK first, last : SegmentsOf(found, times, valid, first, last, n)
    BY SegmentsListed DEF FoundHolds
  <1>4. UpTo(S, n) = S /\ UpTo(E, n) = E
    BY <1>2 DEF UpTo
  <1>5. /\ \A k \in 1..m : first[k] \in S /\ last[k] \in E
        /\ \A s \in S : \E k \in 1..m : first[k] = s
    <2>1. Lists(first, m, S) /\ Lists(last, m, E)
      BY <1>3, <1>4 DEF SegmentsOf
    <2> HIDE DEF m, S, E
    <2> QED
      BY <2>1 DEF Lists
  <1>6. \A k \in 1..m : /\ first[k] <= last[k] /\ Together(times, valid, first[k], last[k])
                        /\ found[k] = Segment(times, first[k], last[k])
    BY <1>3 DEF SegmentsOf
  <1>7. \A k \in 1..m : first[k] \in 1..n /\ last[k] \in 1..n
    BY <1>2, <1>5
  <1> HIDE DEF found, m
  <1>8. ASSUME NEW k \in 1..m PROVE <<first[k], last[k]>> \in longest
    <2> DEFINE f == first[k]
               l == last[k]
    <2>1. f \in 1..n /\ l \in 1..n /\ f \in S /\ l \in E /\ f <= l /\ Together(times, valid, f, l)
      BY <1>5, <1>6, <1>7
    <2> HIDE DEF f, l
    <2>2. ASSUME NEW q \in runs, q[1] <= f, l <= q[2] PROVE q = <<f, l>>
      <3> DEFINE a == q[1]
                 b == q[2]
      <3>1. a \in 1..n /\ b \in 1..n /\ Together(times, valid, a, b) /\ q = <<a, b>>
        OBVIOUS
      <3>2. a <= f /\ l <= b
        BY <2>2
      <3> HIDE DEF a, b
      <3>3. ~(a < f)
        <4>1. ASSUME a < f PROVE FALSE
          <5>1. a \in Int /\ b \in Int /\ a >= 1 /\ f <= b /\ f \in Starts(times, valid)
            BY <1>1, <2>1, <3>1, <3>2
          <5> QED
            BY <3>1, <4>1, <5>1, RunStarts
        <4> QED
          BY <4>1
      <3>4. ~(l < b)
        <4>1. ASSUME l < b PROVE FALSE
          <5>1. a \in Int /\ b \in 1..Len(times) /\ a <= l /\ l \in Ends(times, valid)
            BY <1>1, <2>1, <3>1, <3>2
          <5> QED
            BY <3>1, <4>1, <5>1, RunEnds
        <4> QED
          BY <4>1
      <3>5. a = f /\ b = l
        BY <1>1, <2>1, <3>1, <3>2, <3>3, <3>4
      <3> QED
        BY <3>1, <3>5
    <2>3. <<f, l>> \in runs
      BY <2>1
    <2> HIDE DEF runs
    <2>4. <<f, l>> \in longest
      BY <2>2, <2>3
    <2> QED
      BY <2>4 DEF f, l
  <1>9. ASSUME NEW f \in 1..n, NEW l \in 1..n, <<f, l>> \in longest
        PROVE  \E k \in 1..m : <<f, l>> = <<first[k], last[k]>>
    <2>1. f <= l /\ Together(times, valid, f, l) /\ <<f, l>> \in runs
      BY <1>9
    <2>2. \A a, b \in 1..n : a <= f /\ l <= b /\ Together(times, valid, a, b) => a = f /\ b = l
      <3> SUFFICES ASSUME NEW a \in 1..n, NEW b \in 1..n,
                          a <= f, l <= b, Together(times, valid, a, b)
                   PROVE  a = f /\ b = l
        OBVIOUS
      <3>1. a <= b
        BY <1>1, <2>1
      <3>2. <<a, b>> \in runs /\ Within(<<f, l>>, <<a, b>>)
        BY <3>1
      <3>3. \A q \in runs : Within(<<f, l>>, q) => q = <<f, l>>
        BY <1>9
      <3>4. <<a, b>> = <<f, l>>
        <4> HIDE DEF runs, Within
        <4> QED
          BY <3>2, <3>3
      <3> QED
        BY <3>4
    <2>3. f \in f..l /\ l \in f..l
      BY <1>1, <2>1
    <2>4. f \in S
      <3>1. valid[f]
        BY <2>1, <2>3 DEF Together
      <3>2. ASSUME f # 1, valid[f - 1], ~(times[f] - times[f - 1] > GAP_THRESHOLD) PROVE FALSE
        <4>1. f - 1 \in 1..n /\ f - 1 <= f /\ l <= l
          BY <1>1, <3>2
        <4>2. times[f] - times[f - 1] <= GAP_THRESHOLD
          BY <1>1, <3>2, <4>1
        <4>3. Together(times, valid, f - 1, l)
          <5>1. \A j \in (f - 1)..l : j = f - 1 \/ j \in f..l
            BY <1>1
          <5>2. \A j \in ((f - 1) + 1)..l : j = f \/ j \in (f + 1)..l
            BY <1>1
          <5> QED
            BY <2>1, <3>2, <4>2, <5>1, <5>2 DEF Together
        <4>4. f - 1 = f
          BY <2>2, <4>1, <4>3
        <4> QED
          BY <1>1, <4>4
      <3> QED
        BY <3>1, <3>2 DEF Starts
    <2>5. l \in E
      <3>1. valid[l]
        BY <2>1, <2>3 DEF Together
      <3>2. ASSUME l # n, valid[l + 1], ~(times[l + 1] - times[l] > GAP_THRESHOLD) PROVE FALSE
        <4>1. l + 1 \in 1..n /\ f <= f /\ l <= l + 1 /\ (l + 1) - 1 = l
          BY <1>1, <3>2
        <4>2. times[l + 1] - times[(l + 1) - 1] <= GAP_THRESHOLD
          BY <1>1, <3>2, <4>1
        <4>3. Together(times, valid, f, l + 1)
          <5>1. \A j \in f..(l + 1) : j = l + 1 \/ j \in f..l
            BY <1>1
          <5>2. \A j \in (f + 1)..(l + 1) : j = l + 1 \/ j \in (f + 1)..l
            BY <1>1
          <5> QED
            BY <2>1, <3>2, <4>2, <5>1, <5>2 DEF Together
        <4>4. l + 1 = l
          BY <2>2, <4>1, <4>3
        <4> QED
          BY <1>1, <4>4
      <3> QED
        BY <3>1, <3>2 DEF Ends
    <2>6. PICK k \in 1..m : first[k] = f
      BY <1>5, <2>4
    <2> DEFINE e == last[k]
    <2>7. e \in 1..n /\ e \in E /\ f <= e /\ Together(times, valid, f, e)
      BY <1>5, <1>6, <1>7, <2>6
    <2> HIDE DEF e
    <2>8. ~(e < l)
      <3>1. ASSUME e < l PROVE FALSE
        <4>1. f \in Int /\ l \in 1..Len(times) /\ e \in Ends(times, valid)
          BY <1>1, <2>7
        <4> QED
          BY <2>1, <2>7, <3>1, <4>1, RunEnds
      <3> QED
        BY <3>1
    <2>9. ~(l < e)
      <3>1. ASSUME l < e PROVE FALSE
        <4>1. f \in Int /\ e \in 1..Len(times) /\ l \in Ends(times, valid)
          BY <1>1, <2>5, <2>7
        <4> QED
          BY <2>1, <2>7, <3>1, <4>1, RunEnds
      <3> QED
        BY <3>1
    <2>10. e = l
      BY <1>1, <2>7, <2>8, <2>9
    <2> QED
      BY <2>6, <2>10 DEF e
  <1> HIDE DEF S, E, runs
  <1>10. \A p \in longest : \E k \in 1..m : p = <<first[k], last[k]>>
    <2> SUFFICES ASSUME NEW p \in longest PROVE \E k \in 1..m : p = <<first[k], last[k]>>
      OBVIOUS
    <2> DEFINE f == p[1]
               l == p[2]
    <2>1. f \in 1..n /\ l \in 1..n /\ p = <<f, l>>
      BY DEF runs
    <2> HIDE DEF longest, f, l
    <2>2. <<f, l>> \in longest
      BY <2>1
    <2>3. \E k \in 1..m : <<f, l>> = <<first[k], last[k]>>
      BY <1>9, <2>1, <2>2
    <2> QED
      BY <2>1, <2>3
  <1>11. {found[k] : k \in 1..m} = {Segment(times, p[1], p[2]) : p \in longest}
    <2> HIDE DEF longest
    <2> DEFINE Of(p) == Segment(times, p[1], p[2])
    <2>1. \A k \in 1..m : found[k] = Of(<<first[k], last[k]>>)
      BY <1>6
    <2> HIDE DEF Of
    <2>2. \A k \in 1..m : \E p \in longest : found[k] = Of(p)
      BY <1>8, <2>1, Zenon
    <2>3. \A p \in longest : \E k \in 1..m : found[k] = Of(p)
      BY <1>10, <2>1, Zenon
    <2>4. {found[k] : k \in 1..m} = {Of(p) : p \in longest}
      BY <2>2, <2>3, Zenon
    <2> QED
      BY <2>4 DEF Of
  <1> QED
    BY <1>11 DEF found, m, runs

-----------------------------------------------------------------------------
(* Coverage: a report of the source stands up to the checks.               *)

Has(gaps, position) == \E k \in 1..Len(gaps) : gaps[k].position = position
Before(gaps) == IF Has(gaps, "LEADING") THEN 1 ELSE 0
After(gaps) == IF Has(gaps, "TRAILING") THEN 1 ELSE 0
Internal(gaps) == {k \in 1..Len(gaps) : gaps[k].position = "INTERNAL"}

\* A leading gap is the first and a trailing one the last: the others are internal.
LEMMA Arranged ==
  ASSUME NEW gaps \in Seq(AnyGap), GapsInOrder(gaps)
  PROVE  /\ Cardinality(Internal(gaps)) = Len(gaps) - Before(gaps) - After(gaps)
         /\ Cardinality(Internal(gaps)) \in Nat
         /\ Before(gaps) \in 0..1 /\ After(gaps) \in 0..1
         /\ Has(gaps, "LEADING") => gaps[1].position = "LEADING"
         /\ Has(gaps, "TRAILING") => gaps[Len(gaps)].position = "TRAILING"
         /\ \A k \in 1..Len(gaps) :
              Before(gaps) < k /\ k <= Len(gaps) - After(gaps) => gaps[k].position = "INTERNAL"
  <1> DEFINE n == Len(gaps)
             P(k) == gaps[k].position
             lo == Before(gaps)
             hi == n - After(gaps)
  <1>1. n \in Nat /\ \A k \in 1..n : P(k) \in {"LEADING", "INTERNAL", "TRAILING"}
    <2>1. \A k \in 1..n : gaps[k] \in AnyGap
      OBVIOUS
    <2> QED
      BY <2>1 DEF AnyGap, Positions
  <1>2. /\ \A i \in 2..n : P(i) # "LEADING"
        /\ \A i \in 1..(n - 1) : P(i) # "TRAILING"
    BY DEF GapsInOrder
  <1>3. lo \in 0..1 /\ After(gaps) \in 0..1 /\ lo \in Int /\ hi \in Int
    BY <1>1 DEF Before, After
  <1> HIDE DEF P
  <1>4. /\ Has(gaps, "LEADING") <=> n >= 1 /\ P(1) = "LEADING"
        /\ Has(gaps, "TRAILING") <=> n >= 1 /\ P(n) = "TRAILING"
    <2>1. \A k \in 1..n : k = 1 \/ k \in 2..n
      BY <1>1
    <2>2. \A k \in 1..n : k = n \/ k \in 1..(n - 1)
      BY <1>1
    <2>3. n >= 1 => 1 \in 1..n /\ n \in 1..n
      BY <1>1
    <2>4. \A k \in 1..n : n >= 1
      BY <1>1
    <2> QED
      BY <1>2, <2>1, <2>2, <2>3, <2>4 DEF Has, P
  <1>5. ASSUME NEW k \in 1..n PROVE P(k) = "INTERNAL" <=> k \in (lo + 1)..hi
    <2>1. P(k) = "LEADING" <=> k = 1 /\ lo = 1
      <3>1. k = 1 \/ k \in 2..n
        BY <1>1
      <3>2. n >= 1
        BY <1>1
      <3> QED
        BY <1>2, <1>4, <3>1, <3>2 DEF Before
    <2>2. P(k) = "TRAILING" <=> k = n /\ After(gaps) = 1
      <3>1. k = n \/ k \in 1..(n - 1)
        BY <1>1
      <3>2. n >= 1
        BY <1>1
      <3> QED
        BY <1>2, <1>4, <3>1, <3>2 DEF After
    <2>3. P(k) = "INTERNAL" <=> ~(k = 1 /\ lo = 1) /\ ~(k = n /\ After(gaps) = 1)
      BY <1>1, <2>1, <2>2
    <2> HIDE DEF lo
    <2> QED
      BY <1>1, <1>3, <2>3
  <1>6. Internal(gaps) = (lo + 1)..hi
    <2>1. \A k \in (lo + 1)..hi : k \in 1..n
      BY <1>1, <1>3
    <2> HIDE DEF lo, hi
    <2> QED
      BY <1>5, <2>1 DEF Internal, P
  <1>7. lo <= hi
    <2>1. ~(lo = 1 /\ n = 0)
      BY <1>4 DEF Before
    <2>2. ~(After(gaps) = 1 /\ n = 0)
      BY <1>4 DEF After
    <2>3. ~(lo = 1 /\ After(gaps) = 1 /\ n = 1)
      <3>1. ASSUME lo = 1, After(gaps) = 1, n = 1 PROVE FALSE
        <4>1. Has(gaps, "LEADING") /\ Has(gaps, "TRAILING")
          BY <3>1 DEF Before, After
        <4>2. P(n) = P(1)
          BY <3>1
        <4>3. P(1) = "LEADING" /\ P(n) = "TRAILING"
          BY <1>4, <4>1
        <4> QED
          BY <4>2, <4>3
      <3> QED
        BY <3>1
    <2> DEFINE a == After(gaps)
    <2>4. hi = n - a /\ a \in 0..1 /\ ~(a = 1 /\ n = 0) /\ ~(lo = 1 /\ a = 1 /\ n = 1)
      BY <1>3, <2>2, <2>3
    <2> HIDE DEF lo, hi, n, a
    <2> QED
      BY <1>1, <1>3, <2>1, <2>4
  <1>8. Cardinality((lo + 1)..hi) = hi - lo
    <2>1. lo + 1 \in Int /\ (lo + 1 > hi <=> lo = hi)
      BY <1>3, <1>7
    <2> HIDE DEF lo, hi
    <2>2. Cardinality((lo + 1)..hi) = IF lo + 1 > hi THEN 0 ELSE hi - (lo + 1) + 1
      BY <1>3, <2>1, FS_Interval
    <2> QED
      BY <1>3, <2>1, <2>2
  <1>9. hi - lo \in Nat /\ hi - lo = n - lo - After(gaps)
    BY <1>1, <1>3, <1>7
  <1>10. \A k \in 1..n : lo < k /\ k <= hi => k \in (lo + 1)..hi
    BY <1>1, <1>3
  <1> QED
    BY <1>3, <1>4, <1>5, <1>6, <1>8, <1>9, <1>10 DEF P

LEMMA GapsAreInOrder ==
  ASSUME NEW times, Series(times)
  PROVE  GapsInOrder(Gaps(times))
  <1> DEFINE n == Len(times)
             B(i) == Bound(times, i)
             g == Gaps(times)
             m == Len(g)
  <1>1. n \in Nat /\ n >= 1 /\ times \in Seq(Int) /\ Window \in Nat
    BY CoverageAssumption DEF Series
  <1>2. /\ \A i \in 0..(n + 1) : B(i) \in 0..Window
        /\ \A i, j \in 0..(n + 1) : i <= j => B(i) <= B(j)
    BY BoundsInOrder
  <1>3. PICK idx : Lists(idx, m, Silent(times)) /\ GapsOf(g, times, idx)
    BY <1>1, GapsListed
  <1>4. \A k \in 1..m : idx[k] \in Silent(times)
    BY <1>3 DEF Lists
  <1>5. \A k \in 1..m :
          /\ idx[k] \in 1..(n + 1) /\ idx[k] \in 0..(n + 1) /\ idx[k] - 1 \in 0..(n + 1)
          /\ B(idx[k]) - B(idx[k] - 1) > GAP_THRESHOLD
    BY <1>1, <1>4 DEF Silent
  <1>6. \A k \in 1..m : /\ g[k].position = Position(times, idx[k])
                        /\ g[k].from = B(idx[k] - 1) /\ g[k].to = B(idx[k])
    BY <1>3 DEF GapsOf, GapAt
  <1>7. \A k, l \in 1..m : k < l => idx[k] < idx[l]
    BY <1>3 DEF Lists
  <1>8. m \in Nat
    BY <1>1, GapsListed
  <1> HIDE DEF B, g, m
  <1>9. \A i \in 1..m : /\ g[i].from >= 0 /\ g[i].to <= Window
                        /\ g[i].to - g[i].from > GAP_THRESHOLD
    <2> SUFFICES ASSUME NEW i \in 1..m
                 PROVE  /\ g[i].from >= 0 /\ g[i].to <= Window
                        /\ g[i].to - g[i].from > GAP_THRESHOLD
      OBVIOUS
    <2>1. B(idx[i]) \in 0..Window /\ B(idx[i] - 1) \in 0..Window
      BY <1>2, <1>5
    <2> QED
      BY <1>1, <1>5, <1>6, <2>1
  <1>10. \A i \in 1..(m - 1) : g[i + 1].from >= g[i].to
    <2> SUFFICES ASSUME NEW i \in 1..(m - 1) PROVE g[i + 1].from >= g[i].to
      OBVIOUS
    <2> DEFINE a == idx[i]
               b == idx[i + 1]
    <2>1. i \in 1..m /\ i + 1 \in 1..m /\ i < i + 1
      BY <1>8
    <2>2. a < b /\ a \in 0..(n + 1) /\ b - 1 \in 0..(n + 1) /\ b \in 0..(n + 1)
      BY <1>5, <1>7, <2>1
    <2>3. a <= b - 1
      BY <1>1, <2>2
    <2>4. g[i + 1].from = B(b - 1) /\ g[i].to = B(a)
      BY <1>6, <2>1
    <2> HIDE DEF a, b
    <2>5. B(a) <= B(b - 1) /\ B(a) \in 0..Window /\ B(b - 1) \in 0..Window
      BY <1>2, <2>2, <2>3
    <2> QED
      BY <1>1, <2>4, <2>5
  <1>11. \A i \in 2..m : g[i].position # "LEADING"
    <2> SUFFICES ASSUME NEW i \in 2..m PROVE Position(times, idx[i]) # "LEADING"
      BY <1>6, <1>8
    <2>1. i \in 1..m /\ 1 \in 1..m /\ 1 < i
      BY <1>8
    <2>2. idx[1] < idx[i] /\ idx[1] \in 1..(n + 1) /\ idx[i] \in 1..(n + 1)
      BY <1>5, <1>7, <2>1
    <2>3. idx[i] # 1
      BY <1>1, <2>2
    <2> QED
      BY <2>3 DEF Position
  <1>12. \A i \in 1..(m - 1) : g[i].position # "TRAILING"
    <2> SUFFICES ASSUME NEW i \in 1..(m - 1) PROVE Position(times, idx[i]) # "TRAILING"
      BY <1>6, <1>8
    <2>1. i \in 1..m /\ m \in 1..m /\ i < m
      BY <1>8
    <2>2. idx[i] < idx[m] /\ idx[i] \in 1..(n + 1) /\ idx[m] \in 1..(n + 1)
      BY <1>5, <1>7, <2>1
    <2>3. idx[i] # n + 1
      BY <1>1, <2>2
    <2> QED
      BY <2>3 DEF Position
  <1> QED
    BY <1>9, <1>10, <1>11, <1>12 DEF GapsInOrder, g, m

\* A run of samples is as long as its rows can bridge.
LEMMA RunIsPossible ==
  ASSUME NEW times, Series(times), NEW valid, NEW f \in 1..Len(times), NEW l \in 1..Len(times),
         f <= l, Together(times, valid, f, l)
  PROVE  Possible(Segment(times, f, l))
  <1> DEFINE T == GAP_THRESHOLD
             n == l - f
             d(i) == times[f + i] - times[f]
             P == {i \in 0..n : i <= d(i) /\ d(i) <= i * T}
  <1>1. n \in Nat /\ T \in Nat /\ \A i \in 1..Len(times) : times[i] \in Int
    BY CoverageAssumption DEF Series
  <1>2. \A i \in 0..n : f + i \in 1..Len(times)
    BY <1>1
  <1>3. 0 \in P
    <2>1. f + 0 = f /\ 0 \in 0..n
      BY <1>1
    <2> QED
      BY <1>1, <2>1
  <1>4. ASSUME NEW i \in 1..n, i - 1 \in P PROVE i \in P
    <2> DEFINE a == times[f + (i - 1)]
               b == times[f + i]
               c == times[f]
               j == i - 1
    <2>1. /\ j \in 0..n /\ f + j \in 1..Len(times) /\ f + i \in 1..Len(times) /\ f + j < f + i
          /\ f + i \in (f + 1)..l /\ (f + i) - 1 = f + j /\ i \in 0..n /\ i = j + 1
      BY <1>1
    <2>2. a \in Int /\ b \in Int /\ c \in Int
      BY <1>1, <2>1
    <2>3. a < b
      BY <2>1 DEF Series
    <2>4. b - a <= T
      <3>1. times[f + i] - times[(f + i) - 1] <= GAP_THRESHOLD
        BY <2>1 DEF Together
      <3> QED
        BY <2>1, <3>1
    <2>5. j <= a - c /\ a - c <= j * T
      BY <1>4
    <2> HIDE DEF a, b, c, T, j
    <2>6. i * T = j * T + T /\ j * T \in Int
      BY <1>1, <2>1
    <2> DEFINE x == j * T
    <2> HIDE DEF x
    <2>7. i <= b - c /\ b - c <= x + T
      BY <1>1, <2>1, <2>2, <2>3, <2>4, <2>5, <2>6 DEF x
    <2> QED
      BY <2>1, <2>6, <2>7 DEF a, b, c, T, x
  <1>5. n \in P
    <2> HIDE DEF P, n
    <2>1. \A i \in 0..n : i \in P
      BY <1>1, <1>3, <1>4, CountingUp
    <2> QED
      BY <1>1, <2>1
  <1>6. f + n = l /\ (l - f + 1) - 1 = n
    BY <1>1
  <1>7. n <= times[l] - times[f] /\ times[l] - times[f] <= n * T
    BY <1>5, <1>6
  <1>8. times[l] - times[f] \in Int /\ n * T \in Int
    BY <1>1
  <1>9. times[l] - times[f] \in n..(n * T)
    BY <1>1, <1>7, <1>8
  <1>10. /\ Segment(times, f, l).from = times[f] /\ Segment(times, f, l).to = times[l]
         /\ Segment(times, f, l).rows = l - f + 1
    BY DEF Segment
  <1> QED
    BY <1>6, <1>9, <1>10 DEF Possible

LEMMA InvalidCount ==
  ASSUME NEW n \in Nat, NEW valid
  PROVE  LET invalid == Cardinality({i \in 1..n : ~valid[i]}) IN
         /\ invalid \in 0..n
         /\ Cardinality({i \in 1..n : valid[i]}) = n - invalid
         /\ invalid = 0 => \A i \in 1..n : valid[i]
  <1> DEFINE A == {i \in 1..n : valid[i]}
             B == {i \in 1..n : ~valid[i]}
  <1>1. IsFiniteSet(1..n) /\ Cardinality(1..n) = n
    <2>1. 1 \in Int /\ n \in Int /\ (1 > n <=> n = 0)
      OBVIOUS
    <2>2. IsFiniteSet(1..n) /\ Cardinality(1..n) = IF 1 > n THEN 0 ELSE n - 1 + 1
      BY <2>1, FS_Interval
    <2> QED
      BY <2>1, <2>2
  <1>2. A \subseteq 1..n /\ B \subseteq 1..n /\ A \cup B = 1..n /\ A \cap B = {}
    OBVIOUS
  <1> HIDE DEF A, B
  <1>3. IsFiniteSet(A) /\ Cardinality(A) \in Nat /\ IsFiniteSet(B) /\ Cardinality(B) \in Nat
    BY <1>1, <1>2, FS_Subset, FS_CardinalityType
  <1>4. Cardinality(A \cup B) = Cardinality(A) + Cardinality(B) - Cardinality(A \cap B)
    BY <1>3, FS_Union
  <1>5. Cardinality(A \cap B) = 0
    BY <1>2, FS_EmptySet
  <1>6. Cardinality(A) + Cardinality(B) = n
    <2> DEFINE a == Cardinality(A)
               b == Cardinality(B)
               u == Cardinality(A \cup B)
               i == Cardinality(A \cap B)
    <2>1. u = n /\ u = a + b - i /\ i = 0 /\ a \in Nat /\ b \in Nat
      BY <1>1, <1>2, <1>3, <1>4, <1>5
    <2> HIDE DEF a, b, u, i
    <2>2. a + b = n
      BY <2>1
    <2> QED
      BY <2>2 DEF a, b
  <1>7. Cardinality(B) \in 0..n /\ Cardinality(A) = n - Cardinality(B)
    BY <1>3, <1>6
  <1>8. Cardinality(B) = 0 => B = {}
    BY <1>3, FS_EmptySet
  <1> QED
    BY <1>7, <1>8 DEF A, B

\* What analyze makes of samples that are in order.
Reports(report, times, valid) ==
  /\ report.rows = Len(times)
  /\ report.invalid = Cardinality({i \in 1..Len(times) : ~valid[i]})
  /\ report.gaps = Gaps(times)
  /\ report.segments = Segments(times, valid)

LEMMA SegmentsAreInOrder ==
  ASSUME NEW times, Series(times), NEW valid, NEW report, Reports(report, times, valid)
  PROVE  SegmentsInOrder(report)
  <1> DEFINE n == Len(times)
             B(i) == Bound(times, i)
             g == report.gaps
             s == report.segments
             m == Len(s)
  <1>1. n \in Nat /\ n >= 1 /\ times \in Seq(Int) /\ Window \in Nat /\ GAP_THRESHOLD \in Nat
    BY CoverageAssumption DEF Series
  <1>2. /\ \A i \in 1..n : B(i) = times[i] /\ times[i] \in 0..Window
        /\ \A i \in 0..(n + 1) : B(i) \in 0..Window
        /\ \A i, j \in 0..(n + 1) : i <= j => B(i) <= B(j)
    BY BoundsInOrder DEF Series
  <1>3. PICK idx : Lists(idx, Len(g), Silent(times)) /\ GapsOf(g, times, idx)
    BY <1>1, GapsListed DEF Reports
  <1>4. FoundHolds(s, times, valid, n)
    BY <1>1, SegmentsListed DEF Reports
  <1>5. PICK first, last : SegmentsOf(s, times, valid, first, last, n)
    BY <1>4 DEF FoundHolds
  <1>6. m \in Nat /\ s \in Seq(AnySegment)
    BY <1>4 DEF FoundHolds
  <1>7. \A k \in 1..m :
          /\ first[k] \in 1..n /\ last[k] \in 1..n /\ first[k] <= last[k]
          /\ Together(times, valid, first[k], last[k])
          /\ s[k].from = times[first[k]] /\ s[k].to = times[last[k]]
          /\ s[k].rows = last[k] - first[k] + 1
    <2>1. \A k \in 1..m : /\ first[k] <= last[k] /\ Together(times, valid, first[k], last[k])
                          /\ s[k] = Segment(times, first[k], last[k])
      BY <1>5 DEF SegmentsOf
    <2>2. \A k \in 1..m : first[k] \in Starts(times, valid) /\ last[k] \in Ends(times, valid)
      BY <1>5 DEF SegmentsOf, Lists, UpTo
    <2>3. Starts(times, valid) \subseteq 1..n /\ Ends(times, valid) \subseteq 1..n
      BY DEF Starts, Ends
    <2>4. \A k \in 1..m : first[k] \in 1..n /\ last[k] \in 1..n
      BY <2>2, <2>3
    <2>5. \A a, b : /\ Segment(times, a, b).from = times[a] /\ Segment(times, a, b).to = times[b]
                    /\ Segment(times, a, b).rows = b - a + 1
      BY DEF Segment
    <2> HIDE DEF m, s
    <2> QED
      BY <2>1, <2>4, <2>5
  <1>8. \A k \in 1..Len(g) :
          /\ idx[k] \in 1..(n + 1) /\ B(idx[k]) - B(idx[k] - 1) > GAP_THRESHOLD
          /\ g[k].from = B(idx[k] - 1) /\ g[k].to = B(idx[k])
    <2>1. \A k \in 1..Len(g) : g[k].from = B(idx[k] - 1) /\ g[k].to = B(idx[k])
      BY <1>3 DEF GapsOf, GapAt
    <2>2. \A k \in 1..Len(g) : idx[k] \in Silent(times)
      BY <1>3 DEF Lists
    <2>3. \A k \in 1..Len(g) : idx[k] \in 1..(n + 1) /\ B(idx[k]) - B(idx[k] - 1) > GAP_THRESHOLD
      BY <2>2 DEF Silent
    <2> HIDE DEF B
    <2> QED
      BY <2>1, <2>3
  <1> HIDE DEF B
  <1>9. ASSUME NEW i \in 1..m
        PROVE  /\ s[i].from >= 0 /\ s[i].to <= Window
               /\ s[i].from <= s[i].to
               /\ s[i].rows \in 1..report.rows
               /\ \A k \in 1..Len(g) : ~(g[k].from < s[i].to /\ s[i].from < g[k].to)
    <2> DEFINE f == first[i]
               l == last[i]
    <2>1. /\ f \in 1..n /\ l \in 1..n /\ f <= l /\ Together(times, valid, f, l)
          /\ s[i].from = times[f] /\ s[i].to = times[l] /\ s[i].rows = l - f + 1
      BY <1>7
    <2> HIDE DEF f, l, s
    <2>2. f \in 0..(n + 1) /\ l \in 0..(n + 1)
      <3>1. n \in Nat /\ f \in 1..n /\ l \in 1..n
        BY <1>1, <2>1
      <3> HIDE DEF n
      <3> QED
        BY <3>1
    <2>3. times[f] \in 0..Window /\ times[l] \in 0..Window /\ times[f] = B(f) /\ times[l] = B(l)
      BY <1>2, <2>1
    <2>4. times[f] <= times[l]
      BY <1>2, <2>1, <2>2, <2>3
    <2>5. s[i].rows \in 1..n
      <3>1. n \in Nat /\ f \in 1..n /\ l \in 1..n /\ f <= l
        BY <1>1, <2>1
      <3> HIDE DEF n
      <3>2. l - f + 1 \in 1..n
        BY <3>1
      <3> QED
        BY <2>1, <3>2
    <2>6. ASSUME NEW k \in 1..Len(g), g[k].from < s[i].to, s[i].from < g[k].to PROVE FALSE
      <3> DEFINE q == idx[k]
      <3>1. /\ q \in 1..(n + 1) /\ B(q) - B(q - 1) > GAP_THRESHOLD
            /\ B(q - 1) < B(l) /\ B(f) < B(q)
        BY <1>8, <2>1, <2>3, <2>6
      <3> HIDE DEF q
      <3>2. q \in 0..(n + 1) /\ q - 1 \in 0..(n + 1)
        BY <1>1, <3>1
      <3>3. /\ B(q) \in 0..Window /\ B(q - 1) \in 0..Window
            /\ B(l) \in 0..Window /\ B(f) \in 0..Window
        BY <1>2, <2>2, <3>2
      <3>4. ~(l <= q - 1) /\ ~(q <= f)
        <4>1. (l <= q - 1 => B(l) <= B(q - 1)) /\ (q <= f => B(q) <= B(f))
          BY <1>2, <2>2, <3>2
        <4> QED
          BY <3>1, <3>3, <4>1
      <3>5. q \in (f + 1)..l /\ q \in 1..n /\ q - 1 \in 1..n
        BY <1>1, <2>1, <3>1, <3>4
      <3>6. times[q] - times[q - 1] <= GAP_THRESHOLD
        BY <2>1, <3>5 DEF Together
      <3>7. times[q] = B(q) /\ times[q - 1] = B(q - 1)
        BY <1>2, <3>5
      <3> QED
        BY <1>1, <3>1, <3>3, <3>6, <3>7
    <2>7. report.rows = n
      BY DEF Reports
    <2>8. s[i].from >= 0 /\ s[i].to <= Window /\ s[i].from <= s[i].to
      BY <1>1, <2>1, <2>3, <2>4
    <2>9. s[i].rows \in 1..report.rows
      BY <2>5, <2>7
    <2> HIDE DEF g
    <2>10. \A k \in 1..Len(g) : ~(g[k].from < s[i].to /\ s[i].from < g[k].to)
      BY <2>6
    <2> QED
      BY <2>8, <2>9, <2>10 DEF g
  <1>10. ASSUME NEW i \in 1..(m - 1) PROVE s[i].to < s[i + 1].from
    <2> DEFINE l == last[i]
               f == first[i + 1]
    <2>1. i \in 1..m /\ i + 1 \in 1..m
      BY <1>6
    <2>2. l < f
      BY <1>5 DEF SegmentsOf
    <2>3. l \in 1..n /\ f \in 1..n /\ s[i].to = times[l] /\ s[i + 1].from = times[f]
      BY <1>7, <2>1
    <2> HIDE DEF l, f
    <2>4. times[l] < times[f]
      BY <2>2, <2>3 DEF Series
    <2> QED
      BY <2>3, <2>4
  <1>11. valid_sum(s)[m] = report.rows - report.invalid
    <2>1. valid_sum(s)[m] = Cardinality({j \in 1..n : valid[j]})
      BY <1>4 DEF FoundHolds
    <2>2. Cardinality({j \in 1..n : valid[j]}) = n - Cardinality({i \in 1..n : ~valid[i]})
      BY <1>1, InvalidCount
    <2> QED
      BY <2>1, <2>2 DEF Reports
  <1> QED
    BY <1>9, <1>10, <1>11 DEF SegmentsInOrder

\* Which stretches the gaps before, between and after the samples are.
InnerGaps(gaps, times, idx) ==
  LET c == Cardinality(Internal(gaps))
      lead == Before(gaps) IN
  /\ Has(gaps, "LEADING") <=> 1 \in Silent(times)
  /\ Has(gaps, "LEADING") => 1 \in 1..Len(gaps) /\ idx[1] = 1
  /\ Has(gaps, "TRAILING") <=> Len(times) + 1 \in Silent(times)
  /\ Has(gaps, "TRAILING") => Len(gaps) \in 1..Len(gaps) /\ idx[Len(gaps)] = Len(times) + 1
  /\ \A k \in 1..c : /\ lead + k \in 1..Len(gaps) /\ idx[lead + k] \in Silent(times)
                     /\ idx[lead + k] \in 2..Len(times)
  /\ \A k, l \in 1..c : k < l => idx[lead + k] < idx[lead + l]
  /\ \A i \in Silent(times) :
       i \in 2..Len(times) => \E k \in 1..c : idx[lead + k] = i

LEMMA GapsInside ==
  ASSUME NEW times, Series(times), NEW gaps \in Seq(AnyGap), GapsInOrder(gaps), NEW idx,
         Lists(idx, Len(gaps), Silent(times)), GapsOf(gaps, times, idx)
  PROVE  InnerGaps(gaps, times, idx)
  <1> DEFINE n == Len(times)
             m == Len(gaps)
             c == Cardinality(Internal(gaps))
             lead == Before(gaps)
             trail == After(gaps)
             P(k) == gaps[k].position
  <1>1. n \in Nat /\ n >= 1 /\ m \in Nat
    BY DEF Series
  <1>2. /\ c \in Nat /\ c = m - lead - trail /\ lead \in 0..1 /\ trail \in 0..1
        /\ (Has(gaps, "LEADING") => P(1) = "LEADING")
        /\ (Has(gaps, "TRAILING") => P(m) = "TRAILING")
        /\ \A k \in 1..m : lead < k /\ k <= m - trail => P(k) = "INTERNAL"
    BY Arranged
  <1>3. /\ \A k \in 1..m : idx[k] \in Silent(times)
        /\ \A k, l \in 1..m : k < l => idx[k] < idx[l]
        /\ \A i \in Silent(times) : \E k \in 1..m : idx[k] = i
    BY DEF Lists
  <1>4. Silent(times) \subseteq 1..(n + 1)
    BY DEF Silent
  <1>5. \A k \in 1..m :
          /\ P(k) = "LEADING" <=> idx[k] = 1
          /\ P(k) = "TRAILING" <=> idx[k] = n + 1
          /\ P(k) = "INTERNAL" <=> idx[k] \in 2..n
    <2> SUFFICES ASSUME NEW k \in 1..m
                 PROVE  /\ P(k) = "LEADING" <=> idx[k] = 1
                        /\ P(k) = "TRAILING" <=> idx[k] = n + 1
                        /\ P(k) = "INTERNAL" <=> idx[k] \in 2..n
      OBVIOUS
    <2>1. P(k) = Position(times, idx[k])
      BY DEF GapsOf, GapAt
    <2> DEFINE i == idx[k]
    <2>2. i \in 1..(n + 1)
      BY <1>3, <1>4
    <2> HIDE DEF i
    <2>3. i \in 2..n <=> i # 1 /\ i # n + 1
      BY <1>1, <2>2
    <2>4. n + 1 # 1
      BY <1>1
    <2> QED
      BY <2>1, <2>3, <2>4 DEF Position, i
  <1> HIDE DEF P
  <1>6. m >= 1 => 1 \in 1..m /\ m \in 1..m
    BY <1>1
  <1>7. \A k \in 1..m : m >= 1
    BY <1>1
  <1>8. Has(gaps, "LEADING") <=> 1 \in Silent(times)
    BY <1>3, <1>5 DEF Has, P
  <1>9. Has(gaps, "LEADING") => 1 \in 1..m /\ idx[1] = 1
    BY <1>2, <1>5, <1>6, <1>7 DEF Has
  <1>10. Has(gaps, "TRAILING") <=> n + 1 \in Silent(times)
    BY <1>3, <1>5 DEF Has, P
  <1>11. Has(gaps, "TRAILING") => m \in 1..m /\ idx[m] = n + 1
    BY <1>2, <1>5, <1>6, <1>7 DEF Has
  <1>12. \A k \in 1..c : lead + k \in 1..m /\ lead < lead + k /\ lead + k <= m - trail
    <2> HIDE DEF c, lead, trail, m
    <2> QED
      BY <1>1, <1>2
  <1>13. \A k \in 1..c : /\ lead + k \in 1..m /\ idx[lead + k] \in Silent(times)
                         /\ idx[lead + k] \in 2..n
    BY <1>2, <1>3, <1>5, <1>12
  <1>14. \A k, l \in 1..c : k < l => idx[lead + k] < idx[lead + l]
    <2>1. \A k, l \in 1..c : k < l => lead + k < lead + l
      BY <1>2
    <2> QED
      BY <1>3, <1>12, <2>1
  <1>15. ASSUME NEW i \in Silent(times), i \in 2..n PROVE \E k \in 1..c : idx[lead + k] = i
    <2>1. PICK k \in 1..m : idx[k] = i
      BY <1>3
    <2>2. P(k) = "INTERNAL"
      BY <1>5, <1>15, <2>1
    <2>3. ~(lead = 1 /\ k = 1)
      BY <1>9, <1>5, <2>2 DEF Before
    <2>4. ~(trail = 1 /\ k = m)
      BY <1>11, <1>5, <2>2 DEF After
    <2> HIDE DEF c, lead, trail, m
    <2>5. k - lead \in 1..c /\ lead + (k - lead) = k
      BY <1>1, <1>2, <2>3, <2>4
    <2> QED
      BY <2>1, <2>5
  <1> QED
    BY <1>8, <1>9, <1>10, <1>11, <1>13, <1>14, <1>15 DEF InnerGaps

\* The list of what is in I, with the smallest of all before it.
LEMMA ListGrowsBelow ==
  ASSUME NEW I, I \subseteq Int, NEW c \in Nat, NEW w, Lists(w, c, I),
         NEW e \in Int, \A s \in I : e < s
  PROVE  Lists([k \in 1..(c + 1) |-> IF k = 1 THEN e ELSE w[k - 1]], c + 1, {e} \cup I)
  <1> DEFINE new == [k \in 1..(c + 1) |-> IF k = 1 THEN e ELSE w[k - 1]]
  <1>1. w \in [1..c -> I] /\ (\A k, l \in 1..c : k < l => w[k] < w[l])
        /\ \A s \in I : \E k \in 1..c : w[k] = s
    BY DEF Lists
  <1>2. \A k \in 1..(c + 1) : k = 1 \/ (k # 1 /\ k - 1 \in 1..c)
    OBVIOUS
  <1>3. new \in [1..(c + 1) -> {e} \cup I]
    BY <1>1, <1>2
  <1>4. /\ 1 \in 1..(c + 1) /\ new[1] = e
        /\ \A k \in 1..c : k + 1 \in 1..(c + 1) /\ new[k + 1] = w[k]
    <2>1. \A k \in 1..c : k + 1 \in 1..(c + 1) /\ (k + 1) - 1 = k /\ k + 1 # 1
      OBVIOUS
    <2>2. 1 \in 1..(c + 1) /\ new[1] = e
      OBVIOUS
    <2> QED
      BY <2>1, <2>2
  <1>5. \A k \in 1..(c + 1) : k = 1 \/ (k - 1 \in 1..c /\ new[k] = w[k - 1])
    BY <1>2
  <1> HIDE DEF new
  <1>6. ASSUME NEW k \in 1..(c + 1), NEW l \in 1..(c + 1), k < l PROVE new[k] < new[l]
    <2>1. l - 1 \in 1..c /\ new[l] = w[l - 1]
      BY <1>5, <1>6
    <2>2. CASE k = 1
      BY <1>1, <1>4, <2>1, <2>2
    <2>3. CASE k # 1
      <3>1. k - 1 \in 1..c /\ new[k] = w[k - 1] /\ k - 1 < l - 1
        BY <1>5, <1>6, <2>3
      <3> QED
        BY <1>1, <2>1, <3>1
    <2> QED
      BY <2>2, <2>3
  <1>7. ASSUME NEW s \in {e} \cup I PROVE \E k \in 1..(c + 1) : new[k] = s
    <2>1. CASE s = e
      BY <1>4, <2>1
    <2>2. CASE s \in I
      BY <1>1, <1>4, <2>2
    <2> QED
      BY <2>1, <2>2
  <1> QED
    BY <1>3, <1>6, <1>7 DEF Lists, new

\* When all samples are valid, a segment ends before each internal gap.
LEMMA RunsBetweenGaps ==
  ASSUME NEW times, Series(times), NEW valid, \A i \in 1..Len(times) : valid[i],
         NEW w, NEW c \in Nat, Lists(w, c, {i \in Silent(times) : i \in 2..Len(times)})
  PROVE  /\ Lists([k \in 1..(c + 1) |-> IF k = 1 THEN 1 ELSE w[k - 1]], c + 1,
                  Starts(times, valid))
         /\ Lists([k \in 1..(c + 1) |-> IF k = c + 1 THEN Len(times) ELSE w[k] - 1], c + 1,
                  Ends(times, valid))
  <1> DEFINE n == Len(times)
             I == {i \in Silent(times) : i \in 2..n}
             J == {i - 1 : i \in I}
  <1>1. n \in Nat /\ n >= 1
    BY DEF Series
  <1>2. \A i \in 2..n : i \in I <=> times[i] - times[i - 1] > GAP_THRESHOLD
    <2>1. \A i \in 2..n : Bound(times, i) = times[i] /\ Bound(times, i - 1) = times[i - 1]
      <3>1. \A i \in 2..n : i \in 1..n /\ i - 1 \in 1..n
        BY <1>1
      <3> QED
        BY <3>1, BoundsInOrder
    <2>2. \A i \in 2..n : i \in 1..(n + 1)
      BY <1>1
    <2> QED
      BY <2>1, <2>2 DEF Silent
  <1>3. I \subseteq 2..n
    OBVIOUS
  <1>4. Starts(times, valid) = {1} \cup I
    <2>1. \A i \in 1..n : i \in Starts(times, valid) <=> i = 1 \/ i \in I
      <3> SUFFICES ASSUME NEW i \in 1..n PROVE i \in Starts(times, valid) <=> i = 1 \/ i \in I
        OBVIOUS
      <3>1. CASE i = 1
        BY <3>1 DEF Starts
      <3>2. CASE i # 1
        <4>1. i \in 2..n /\ i - 1 \in 1..n
          BY <1>1, <3>2
        <4>2. valid[i] /\ valid[i - 1]
          BY <4>1
        <4> HIDE DEF I
        <4> QED
          BY <1>2, <3>2, <4>1, <4>2 DEF Starts
      <3> QED
        BY <3>1, <3>2
    <2>2. Starts(times, valid) \subseteq 1..n
      BY DEF Starts
    <2>3. {1} \cup I \subseteq 1..n
      BY <1>1, <1>3
    <2> HIDE DEF I, n
    <2> QED
      BY <2>1, <2>2, <2>3
  <1>5. Ends(times, valid) = J \cup {n}
    <2>1. \A i \in 1..n : i \in Ends(times, valid) <=> i = n \/ i \in J
      <3> SUFFICES ASSUME NEW i \in 1..n PROVE i \in Ends(times, valid) <=> i = n \/ i \in J
        OBVIOUS
      <3>1. CASE i = n
        BY <3>1 DEF Ends
      <3>2. CASE i # n
        <4>1. i + 1 \in 2..n /\ i + 1 \in 1..n /\ (i + 1) - 1 = i
          BY <1>1, <3>2
        <4>2. valid[i] /\ valid[i + 1]
          BY <4>1
        <4>3. i \in Ends(times, valid) <=> times[i + 1] - times[i] > GAP_THRESHOLD
          BY <3>2, <4>2 DEF Ends
        <4>4. i + 1 \in I <=> times[i + 1] - times[i] > GAP_THRESHOLD
          <5> HIDE DEF I
          <5>1. i + 1 \in I <=> times[i + 1] - times[(i + 1) - 1] > GAP_THRESHOLD
            BY <1>2, <4>1
          <5> QED
            BY <4>1, <5>1
        <4>5. i + 1 \in I <=> i \in J
          <5>1. \A j \in I : j - 1 = i => j = i + 1
            BY <1>3
          <5> HIDE DEF I
          <5> QED
            BY <4>1, <5>1
        <4> QED
          BY <3>2, <4>3, <4>4, <4>5
      <3> QED
        BY <3>1, <3>2
    <2>2. Ends(times, valid) \subseteq 1..n
      BY DEF Ends
    <2>3. J \cup {n} \subseteq 1..n
      <3>1. \A i \in I : i - 1 \in 1..n
        BY <1>1, <1>3
      <3> HIDE DEF I
      <3> QED
        BY <1>1, <3>1
    <2> HIDE DEF J, n
    <2> QED
      BY <2>1, <2>2, <2>3
  <1>6. Lists([k \in 1..(c + 1) |-> IF k = 1 THEN 1 ELSE w[k - 1]], c + 1, {1} \cup I)
    <2> DEFINE e == 1
    <2>1. I \subseteq Int /\ e \in Int /\ (\A s \in I : e < s) /\ Lists(w, c, I)
      BY <1>3
    <2> HIDE DEF e, I
    <2>2. Lists([k \in 1..(c + 1) |-> IF k = 1 THEN e ELSE w[k - 1]], c + 1, {e} \cup I)
      BY <2>1, ListGrowsBelow
    <2> QED
      BY <2>2 DEF e
  <1>7. Lists([k \in 1..(c + 1) |-> IF k = c + 1 THEN n ELSE w[k] - 1], c + 1, J \cup {n})
    <2> DEFINE v == [k \in 1..c |-> w[k] - 1]
    <2>1. \A k \in 1..c : w[k] \in I
      BY DEF Lists
    <2>2. \A k, l \in 1..c : k < l => w[k] < w[l]
      BY DEF Lists
    <2>3. \A i \in I : \E k \in 1..c : w[k] = i
      BY DEF Lists
    <2> HIDE DEF I
    <2>4. v \in [1..c -> J] /\ \A k \in 1..c : v[k] = w[k] - 1
      BY <2>1
    <2> HIDE DEF v
    <2>5. \A k, l \in 1..c : k < l => v[k] < v[l]
      <3>1. \A k \in 1..c : w[k] \in Int
        <4>1. I \subseteq Int
          BY <1>1, <1>3
        <4> HIDE DEF J
        <4> QED
          BY <2>1, <4>1
      <3> QED
        BY <2>2, <2>4, <3>1
    <2>6. \A j \in J : \E k \in 1..c : v[k] = j
      BY <2>3, <2>4
    <2>7. J \subseteq Int /\ (\A j \in J : j < n) /\ n \in Int
      BY <1>1, <1>3
    <2> HIDE DEF J, n
    <2>8. Lists(v, c, J)
      BY <2>4, <2>5, <2>6 DEF Lists
    <2>9. Lists([k \in 1..(c + 1) |-> IF k = c + 1 THEN n ELSE v[k]], c + 1, J \cup {n})
      BY <2>7, <2>8, ListGrows
    <2>10. \A k \in 1..(c + 1) : k = c + 1 \/ k \in 1..c
      OBVIOUS
    <2>11. [k \in 1..(c + 1) |-> IF k = c + 1 THEN n ELSE v[k]]
             = [k \in 1..(c + 1) |-> IF k = c + 1 THEN n ELSE w[k] - 1]
      BY <2>4, <2>10
    <2> QED
      BY <2>9, <2>11
  <1> QED
    BY <1>4, <1>5, <1>6, <1>7

\* Without invalid rows, gaps and segments meet.
LEMMA ReportIsJoined ==
  ASSUME NEW times, Series(times), NEW valid, NEW report, Reports(report, times, valid),
         report.invalid = 0
  PROVE  Joined(report)
  <1> DEFINE n == Len(times)
             B(i) == Bound(times, i)
             g == report.gaps
             s == report.segments
             m == Len(g)
             c == Cardinality(Internal(g))
             lead == Before(g)
             I == {i \in Silent(times) : i \in 2..n}
  <1>1. /\ n \in Nat /\ n >= 1 /\ times \in Seq(Int) /\ Window \in Nat /\ GAP_THRESHOLD \in Nat
        /\ \A i \in 1..n : times[i] \in 0..Window
    BY CoverageAssumption DEF Series
  <1>2. /\ B(0) = 0 /\ B(n + 1) = Window /\ \A i \in 1..n : B(i) = times[i]
        /\ \A i \in 0..(n + 1) : B(i) \in 0..Window
    BY BoundsInOrder
  <1>3. g = Gaps(times) /\ s = Segments(times, valid)
    BY DEF Reports
  <1>4. \A i \in 1..n : valid[i]
    BY <1>1, InvalidCount DEF Reports
  <1>5. PICK idx : Lists(idx, m, Silent(times)) /\ GapsOf(g, times, idx)
    BY <1>1, <1>3, GapsListed
  <1>6. g \in Seq(AnyGap) /\ GapsInOrder(g)
    BY <1>1, <1>3, GapsListed, GapsAreInOrder
  <1>7. InnerGaps(g, times, idx) /\ c \in Nat
    <2> HIDE DEF g
    <2> QED
      BY <1>5, <1>6, GapsInside, Arranged DEF m
  <1>8. \A k \in 1..m : g[k].from = B(idx[k] - 1) /\ g[k].to = B(idx[k])
    BY <1>5 DEF GapsOf, GapAt
  <1> DEFINE w == [k \in 1..c |-> idx[lead + k]]
  <1>9. Lists(w, c, I)
    <2>1. \A k \in 1..c : idx[lead + k] \in I
      BY <1>7 DEF InnerGaps
    <2>2. \A k, l \in 1..c : k < l => idx[lead + k] < idx[lead + l]
      BY <1>7 DEF InnerGaps
    <2>3. \A i \in I : \E k \in 1..c : idx[lead + k] = i
      BY <1>7 DEF InnerGaps
    <2> HIDE DEF I, c, lead
    <2> QED
      BY <2>1, <2>2, <2>3 DEF Lists
  <1> DEFINE firsts == [k \in 1..(c + 1) |-> IF k = 1 THEN 1 ELSE w[k - 1]]
             lasts == [k \in 1..(c + 1) |-> IF k = c + 1 THEN n ELSE w[k] - 1]
             S == Starts(times, valid)
             E == Ends(times, valid)
  <1>10. Lists(firsts, c + 1, S) /\ Lists(lasts, c + 1, E)
    <2> HIDE DEF w, c
    <2> QED
      BY <1>4, <1>7, <1>9, RunsBetweenGaps
  <1>11. PICK first, last : SegmentsOf(s, times, valid, first, last, n)
    BY <1>1, <1>3, SegmentsListed DEF FoundHolds
  <1>12. Len(s) \in Nat
    <2>1. s \in Seq(AnySegment)
      BY <1>1, <1>3, SegmentsListed DEF FoundHolds
    <2> QED
      BY <2>1
  <1>13. S \subseteq 1..n /\ E \subseteq 1..n
    BY DEF Starts, Ends
  <1>14. Lists(first, Len(s), S) /\ Lists(last, Len(s), E)
    <2>1. UpTo(S, n) = S /\ UpTo(E, n) = E
      BY <1>13 DEF UpTo
    <2> QED
      BY <1>11, <2>1 DEF SegmentsOf
  <1>15. Len(s) = c + 1 /\ \A k \in 1..(c + 1) : first[k] = firsts[k] /\ last[k] = lasts[k]
    <2> DEFINE d == c + 1
               l == Len(s)
    <2>1. d \in Nat /\ l \in Nat /\ S \subseteq Int /\ E \subseteq Int
      BY <1>7, <1>12, <1>13
    <2>2. Lists(firsts, d, S) /\ Lists(first, l, S)
      BY <1>10, <1>14
    <2>3. Lists(lasts, d, E) /\ Lists(last, l, E)
      BY <1>10, <1>14
    <2> HIDE DEF d, l, S, E, firsts, lasts
    <2>4. SameLists(first, l, firsts, d) /\ SameLists(last, l, lasts, d)
      BY <2>1, <2>2, <2>3, ListsAgree
    <2> QED
      BY <2>4 DEF SameLists, d, l
  <1>16. /\ firsts[1] = 1 /\ lasts[c + 1] = n
         /\ \A k \in 1..c : firsts[k + 1] = idx[lead + k] /\ lasts[k] = idx[lead + k] - 1
    <2>1. 1 \in 1..(c + 1) /\ c + 1 \in 1..(c + 1)
      BY <1>7
    <2>2. \A k \in 1..c : k \in 1..(c + 1) /\ k + 1 \in 1..(c + 1) /\ k # c + 1 /\ k + 1 # 1
                          /\ (k + 1) - 1 = k
      BY <1>7
    <2> HIDE DEF c
    <2> QED
      BY <2>1, <2>2
  <1>17. \A k \in 1..(c + 1) : /\ s[k] = Segment(times, first[k], last[k])
                               /\ first[k] <= last[k] /\ first[k] \in 1..n /\ last[k] \in 1..n
                               /\ Together(times, valid, first[k], last[k])
    <2>1. \A k \in 1..Len(s) : /\ s[k] = Segment(times, first[k], last[k]) /\ first[k] <= last[k]
                               /\ Together(times, valid, first[k], last[k])
      BY <1>11 DEF SegmentsOf
    <2>2. \A k \in 1..Len(s) : first[k] \in S /\ last[k] \in E
      BY <1>14 DEF Lists
    <2> HIDE DEF c, s, S, E
    <2> QED
      BY <1>13, <1>15, <2>1, <2>2
  <1>18. \A k \in 1..(c + 1) : s[k].from = times[firsts[k]] /\ s[k].to = times[lasts[k]]
    <2> HIDE DEF c, s, firsts, lasts
    <2>1. \A a, b : Segment(times, a, b).from = times[a] /\ Segment(times, a, b).to = times[b]
      BY DEF Segment
    <2>2. \A k \in 1..(c + 1) : /\ s[k] = Segment(times, first[k], last[k])
                                /\ first[k] = firsts[k] /\ last[k] = lasts[k]
      BY <1>15, <1>17
    <2> QED
      BY <2>1, <2>2
  <1> HIDE DEF firsts, lasts, w
  <1>19. 1 \in 1..(c + 1) /\ c + 1 \in 1..(c + 1) /\ Len(s) = c + 1
    BY <1>7, <1>15
  <1>20. s[1].from = B(1) /\ s[c + 1].to = B(n)
    <2>1. B(1) = times[1] /\ B(n) = times[n]
      BY <1>1, <1>2
    <2> HIDE DEF c, s, B
    <2> QED
      BY <1>16, <1>18, <1>19, <2>1
  <1>21. IF Has(g, "LEADING") THEN g[1].from = 0 /\ g[1].to = s[1].from
                              ELSE s[1].from <= GAP_THRESHOLD
    <2>1. CASE Has(g, "LEADING")
      <3>1. 1 \in 1..m /\ idx[1] = 1
        BY <1>7, <2>1 DEF InnerGaps
      <3>2. g[1].from = B(1 - 1) /\ g[1].to = B(1)
        BY <1>8, <3>1
      <3> QED
        BY <1>2, <1>20, <2>1, <3>2
    <2>2. CASE ~Has(g, "LEADING")
      <3>1. 1 \notin Silent(times)
        BY <1>7, <2>2 DEF InnerGaps
      <3>2. ~(B(1) - B(1 - 1) > GAP_THRESHOLD)
        BY <1>1, <3>1 DEF Silent
      <3>3. B(1) \in 0..Window /\ B(1 - 1) = 0
        BY <1>1, <1>2
      <3>4. B(1) <= GAP_THRESHOLD
        BY <1>1, <3>2, <3>3
      <3> QED
        BY <1>20, <2>2, <3>4
    <2> QED
      BY <2>1, <2>2
  <1>22. IF Has(g, "TRAILING") THEN g[m].from = s[c + 1].to /\ g[m].to = Window
                               ELSE Window - s[c + 1].to <= GAP_THRESHOLD
    <2>1. (n + 1) - 1 = n
      BY <1>1
    <2>2. CASE Has(g, "TRAILING")
      <3>1. m \in 1..m /\ idx[m] = n + 1
        BY <1>7, <2>2 DEF InnerGaps
      <3>2. g[m].from = B(idx[m] - 1) /\ g[m].to = B(idx[m])
        BY <1>8, <3>1
      <3>3. g[m].from = B(n) /\ g[m].to = B(n + 1)
        BY <2>1, <3>1, <3>2
      <3> QED
        BY <1>2, <1>20, <2>2, <3>3
    <2>3. CASE ~Has(g, "TRAILING")
      <3>1. n + 1 \notin Silent(times)
        BY <1>7, <2>3 DEF InnerGaps
      <3>2. ~(B(n + 1) - B((n + 1) - 1) > GAP_THRESHOLD)
        BY <1>1, <3>1 DEF Silent
      <3>3. B(n) \in 0..Window /\ B(n + 1) = Window
        BY <1>1, <1>2
      <3>4. Window - B(n) <= GAP_THRESHOLD
        BY <1>1, <2>1, <3>2, <3>3
      <3> QED
        BY <1>20, <2>3, <3>4
    <2> QED
      BY <2>2, <2>3
  <1>23. ASSUME NEW k \in 1..c
         PROVE  g[lead + k].from = s[k].to /\ g[lead + k].to = s[k + 1].from
    <2> DEFINE i == idx[lead + k]
    <2>1. lead + k \in 1..m /\ i \in 2..n
      BY <1>7 DEF InnerGaps
    <2>2. g[lead + k].from = B(i - 1) /\ g[lead + k].to = B(i)
      BY <1>8, <2>1
    <2>3. firsts[k + 1] = i /\ lasts[k] = i - 1
      BY <1>16
    <2>4. k \in 1..(c + 1) /\ k + 1 \in 1..(c + 1)
      BY <1>7
    <2> HIDE DEF i, c, s
    <2>5. s[k].to = times[i - 1] /\ s[k + 1].from = times[i]
      BY <1>18, <2>3, <2>4
    <2>6. i \in 1..n /\ i - 1 \in 1..n
      BY <1>1, <2>1
    <2>7. B(i - 1) = times[i - 1] /\ B(i) = times[i]
      BY <1>2, <2>6
    <2> QED
      BY <2>2, <2>5, <2>7
  <1>24. ASSUME NEW k \in 1..(c + 1) PROVE Possible(s[k])
    <2> DEFINE f == first[k]
               l == last[k]
    <2>1. /\ s[k] = Segment(times, f, l) /\ f \in 1..Len(times) /\ l \in 1..Len(times)
          /\ f <= l /\ Together(times, valid, f, l)
      BY <1>17
    <2> HIDE DEF f, l, s
    <2>2. Possible(Segment(times, f, l))
      BY <2>1, RunIsPossible
    <2> QED
      BY <2>1, <2>2
  <1>25. \A k \in 1..c : g[lead + k].from = s[k].to /\ g[lead + k].to = s[k + 1].from
    BY <1>23
  <1>26. \A k \in 1..(c + 1) : Possible(s[k])
    BY <1>24
  <1> DEFINE l == Len(s)
  <1>27. /\ l = c + 1
         /\ IF Has(g, "LEADING") THEN g[1].from = 0 /\ g[1].to = s[1].from
                                 ELSE s[1].from <= GAP_THRESHOLD
         /\ IF Has(g, "TRAILING") THEN g[m].from = s[l].to /\ g[m].to = Window
                                  ELSE Window - s[l].to <= GAP_THRESHOLD
         /\ \A k \in 1..c : g[lead + k].from = s[k].to /\ g[lead + k].to = s[k + 1].from
         /\ \A k \in 1..l : Possible(s[k])
    <2>1. l = c + 1
      BY <1>19
    <2> HIDE DEF l, c, m, g, s, lead
    <2> QED
      BY <1>21, <1>22, <1>25, <1>26, <2>1
  <1> QED
    BY <1>27 DEF Joined, Internal, Before, Has

-----------------------------------------------------------------------------
(* Coverage: what is printed of a source.                                  *)

LEMMA SourceReport ==
  ASSUME NEW s \in Exports, NEW report \in analyze(s)
  PROVE  /\ Series(Times(s)) /\ Reports(report, Times(s), Valid(s)) /\ Aligned(s)
         /\ Len(Times(s)) = Len(s["mode_bootstrap"])
         /\ report \in CoverageReport
         /\ Len(report.gaps) <= MAX_OUTPUT_ITEMS /\ Len(report.segments) <= MAX_OUTPUT_ITEMS
         /\ report.certain = (report.gaps = <<>> /\ report.invalid = 0)
  <1> DEFINE stream == s["mode_bootstrap"]
             n == Len(stream)
             times == Times(s)
             valid == Valid(s)
             gaps == Gaps(times)
             segments == Segments(times, valid)
             invalid == Cardinality({i \in 1..Len(times) : ~valid[i]})
             known == [rows |-> Len(times), invalid |-> invalid, gaps |-> gaps,
                       segments |-> segments, certain |-> gaps = <<>> /\ invalid = 0]
             bad == \/ \E x \in Names : ~Ordered(s[x])
                    \/ Len(s["mode_bootstrap"]) = 0
                    \/ ~Aligned(s) \/ ~Collected(s) \/ ~NoneAhead(s)
             many == Len(gaps) > MAX_OUTPUT_ITEMS \/ Len(segments) > MAX_OUTPUT_ITEMS
  <1>1. analyze(s) = IF bad THEN UNKNOWN ELSE IF many THEN UNKNOWN ELSE {known}
    BY Zenon DEF analyze
  <1>2. ~bad /\ ~many /\ report = known
    <2> HIDE DEF bad, many, known
    <2> QED
      BY <1>1 DEF UNKNOWN
  <1>3. stream \in Seq(Sample) /\ n \in Nat /\ "mode_bootstrap" \in Names
    BY CoverageAssumption
  <1>4. Ordered(stream) /\ Aligned(s) /\ n # 0
    BY <1>2, <1>3
  <1>5. \A i \in 1..n : stream[i].at \in 0..Window /\ stream[i].at \in Int
    BY <1>4 DEF Ordered
  <1>6. times = [i \in 1..n |-> stream[i].at]
    BY DEF Times
  <1>7. times \in Seq(Int) /\ Len(times) = n /\ \A i \in 1..n : times[i] = stream[i].at
    <2> HIDE DEF times, n, stream
    <2> QED
      BY <1>3, <1>5, <1>6
  <1>8. Series(times)
    <2>1. \A i \in 1..n : times[i] \in 0..Window /\ times[i] \in Int
      BY <1>5, <1>7
    <2>2. \A i \in 1..(n - 1) : times[i] < times[i + 1]
      <3>1. \A i \in 1..(n - 1) : i \in 1..n /\ i + 1 \in 1..n /\ stream[i].at < stream[i + 1].at
        BY <1>3, <1>4 DEF Ordered
      <3> QED
        BY <1>7, <3>1
    <2> HIDE DEF times, n
    <2>3. \A i, j \in 1..n : i < j => times[i] < times[j]
      BY <1>3, <2>1, <2>2, InOrder
    <2>4. n >= 1
      BY <1>3, <1>4
    <2> QED
      BY <1>7, <2>1, <2>3, <2>4 DEF Series
  <1> HIDE DEF times, valid, gaps, segments, invalid
  <1>9. Reports(report, times, valid)
    BY <1>2 DEF Reports, gaps, segments, invalid
  <1>10. Len(gaps) <= MAX_OUTPUT_ITEMS /\ Len(segments) <= MAX_OUTPUT_ITEMS
         /\ gaps \in Seq(AnyGap) /\ segments \in Seq(AnySegment)
    <2>1. gaps \in Seq(AnyGap) /\ segments \in Seq(AnySegment)
      BY <1>7, GapsListed, SegmentsListed DEF gaps, segments, FoundHolds
    <2>2. Len(gaps) \in Nat /\ Len(segments) \in Nat /\ MAX_OUTPUT_ITEMS \in Nat
      BY <2>1, CoverageAssumption
    <2> QED
      BY <1>2, <2>1, <2>2
  <1>11. invalid \in Int
    <2>1. n \in Nat /\ n = Len(times)
      BY <1>3, <1>7
    <2>2. invalid \in 0..n
      BY <2>1, InvalidCount DEF invalid
    <2> QED
      BY <2>1, <2>2
  <1>12. report \in CoverageReport
    <2> DEFINE sure == gaps = <<>> /\ invalid = 0
    <2>1. sure \in BOOLEAN
      OBVIOUS
    <2>2. Len(times) \in Int
      BY <1>3, <1>7
    <2>3. known = [rows |-> Len(times), invalid |-> invalid, gaps |-> gaps,
                   segments |-> segments, certain |-> sure]
      OBVIOUS
    <2> HIDE DEF sure, known
    <2> QED
      BY <1>2, <1>10, <1>11, <2>1, <2>2, <2>3 DEF CoverageReport, AnyGap, AnySegment
  <1>13. /\ report.gaps = gaps /\ report.segments = segments /\ report.invalid = invalid
         /\ report.certain = (gaps = <<>> /\ invalid = 0)
    <2>1. known.gaps = gaps /\ known.segments = segments /\ known.invalid = invalid
      OBVIOUS
    <2>2. known.certain = (gaps = <<>> /\ invalid = 0)
      BY Zenon
    <2> HIDE DEF known
    <2> QED
      BY <1>2, <2>1, <2>2
  <1>14. report.certain = (report.gaps = <<>> /\ report.invalid = 0)
    BY <1>13, Zenon
  <1>15. Len(report.gaps) <= MAX_OUTPUT_ITEMS /\ Len(report.segments) <= MAX_OUTPUT_ITEMS
    BY <1>10, <1>13
  <1> QED
    BY <1>4, <1>7, <1>8, <1>9, <1>12, <1>14, <1>15 DEF times, valid

\* What a report that adds up satisfies.
AddsUp(report) ==
  /\ report.rows >= 1 /\ report.invalid \in 0..report.rows
  /\ Len(report.gaps) <= MAX_OUTPUT_ITEMS /\ Len(report.segments) <= MAX_OUTPUT_ITEMS
  /\ GapsInOrder(report.gaps)
  /\ SegmentsInOrder(report)
  /\ report.certain = (report.gaps = <<>> /\ report.invalid = 0)
  /\ report.invalid = 0 => Joined(report)

LEMMA Projects ==
  ASSUME NEW report
  PROVE  _project(report) = IF AddsUp(report) THEN {report} ELSE {}
  BY Zenon DEF _project, AddsUp, UNKNOWN

\* The checks on the way pass a report of the source.
LEMMA SourceAddsUp ==
  ASSUME NEW s \in Exports, NEW report \in analyze(s)
  PROVE  AddsUp(report)
  <1> DEFINE times == Times(s)
             valid == Valid(s)
  <1>1. /\ Series(times) /\ Reports(report, times, valid)
        /\ Len(report.gaps) <= MAX_OUTPUT_ITEMS /\ Len(report.segments) <= MAX_OUTPUT_ITEMS
        /\ report.certain = (report.gaps = <<>> /\ report.invalid = 0)
    BY SourceReport
  <1> HIDE DEF times, valid
  <1>2. Len(times) \in Nat /\ Len(times) >= 1
    BY <1>1 DEF Series
  <1>3. report.rows >= 1 /\ report.invalid \in 0..report.rows
    <2>1. report.rows = Len(times)
      BY <1>1 DEF Reports
    <2>2. report.invalid = Cardinality({i \in 1..Len(times) : ~valid[i]})
      BY <1>1 DEF Reports
    <2>3. report.invalid \in 0..Len(times)
      BY <1>2, <2>2, InvalidCount
    <2> QED
      BY <1>2, <2>1, <2>3
  <1>4. GapsInOrder(report.gaps)
    BY <1>1, GapsAreInOrder DEF Reports
  <1>5. SegmentsInOrder(report)
    BY <1>1, SegmentsAreInOrder
  <1>6. report.invalid = 0 => Joined(report)
    BY <1>1, ReportIsJoined
  <1> QED
    BY <1>1, <1>3, <1>4, <1>5, <1>6, Zenon DEF AddsUp

\* Samples of one row that passed are of one collection.
LEMMA RowsAgree ==
  ASSUME NEW s \in Exports, NEW report \in analyze(s), NEW n \in Names,
         NEW i \in 1..Len(Times(s))
  PROVE  s[n][i].batch = s["mode_bootstrap"][i].batch
  <1> DEFINE a == s[n]
             b == s["mode_bootstrap"]
  <1>1. "mode_bootstrap" \in Names
    BY CoverageAssumption
  <1>2. Aligned(s) /\ Len(Times(s)) = Len(b)
    BY SourceReport
  <1>3. i \in 1..Len(a) /\ i \in 1..Len(b) /\ a[i].at - b[i].at \in -MAX_SKEW..MAX_SKEW
    BY <1>2 DEF Aligned
  <1>4. \/ a[i].at - b[i].at \in -MAX_SKEW..MAX_SKEW => a[i].batch = b[i].batch
        \/ a[i].batch = b[i].batch
    BY <1>1, <1>3, CollectionsAreApart
  <1> QED
    BY <1>3, <1>4

\* The report of a source says exactly what its samples cover.
LEMMA ReportExact ==
  ASSUME NEW s \in Exports, NEW report \in analyze(s)
  PROVE  LET times == Times(s)
             samples == DOMAIN times
             at == {times[i] : i \in samples} \cup {0, Window}
             empty(a, b) == \A i \in samples : times[i] <= a \/ times[i] >= b
             run(i, j) ==
               /\ i <= j /\ \A k \in i..j : Valid(s)[k]
               /\ \A k \in (i + 1)..j : times[k] - times[k - 1] <= GAP_THRESHOLD
             runs == {p \in samples \X samples : run(p[1], p[2])}
             longest == {p \in runs : \A q \in runs : q[1] <= p[1] /\ p[2] <= q[2] => q = p} IN
         /\ {<<report.gaps[k].from, report.gaps[k].to>> : k \in DOMAIN report.gaps} =
              {p \in at \X at : p[2] - p[1] > GAP_THRESHOLD /\ empty(p[1], p[2])}
         /\ {report.segments[k] : k \in DOMAIN report.segments} =
              {[from |-> times[p[1]], to |-> times[p[2]], rows |-> p[2] - p[1] + 1] :
                 p \in longest}
  <1> DEFINE times == Times(s)
             valid == Valid(s)
             n == Len(times)
             at == {times[i] : i \in 1..n} \cup {0, Window}
             empty(a, b) == \A i \in 1..n : times[i] <= a \/ times[i] >= b
             runs == {p \in (1..n) \X (1..n) :
                        p[1] <= p[2] /\ Together(times, valid, p[1], p[2])}
             longest == {p \in runs : \A q \in runs : q[1] <= p[1] /\ p[2] <= q[2] => q = p}
  <1>1. Series(times) /\ Reports(report, times, valid) /\ report \in CoverageReport
    BY SourceReport
  <1>2. report.gaps = Gaps(times) /\ report.segments = Segments(times, valid)
    BY <1>1 DEF Reports
  <1>3. times \in Seq(Int) /\ DOMAIN times = 1..n
    <2>1. times \in Seq(Int)
      BY <1>1 DEF Series
    <2> HIDE DEF times
    <2> QED
      BY <2>1
  <1>4. /\ DOMAIN report.gaps = 1..Len(report.gaps)
        /\ DOMAIN report.segments = 1..Len(report.segments)
    BY <1>1 DEF CoverageReport
  <1> HIDE DEF times, valid
  <1>5. {<<report.gaps[k].from, report.gaps[k].to>> : k \in 1..Len(report.gaps)} =
          {p \in at \X at : p[2] - p[1] > GAP_THRESHOLD /\ empty(p[1], p[2])}
    BY <1>1, <1>2, GapsAreExact
  <1>6. {report.segments[k] : k \in 1..Len(report.segments)} =
          {Segment(times, p[1], p[2]) : p \in longest}
    <2>1. {Segments(times, valid)[k] : k \in 1..Len(Segments(times, valid))} =
            {Segment(times, p[1], p[2]) : p \in longest}
      BY <1>3, SegmentsAreExact, Zenon
    <2> DEFINE x == report.segments
               y == Segments(times, valid)
    <2>2. x = y
      BY <1>2
    <2> HIDE DEF x, y, longest
    <2>3. {x[k] : k \in 1..Len(x)} = {y[k] : k \in 1..Len(y)}
      BY <2>2
    <2> QED
      BY <2>1, <2>3, Zenon DEF x, y
  <1> DEFINE samples == DOMAIN times
             around == {times[i] : i \in samples} \cup {0, Window}
             silent(a, b) == \A i \in samples : times[i] <= a \/ times[i] >= b
             joined(i, j) ==
               /\ i <= j /\ \A k \in i..j : valid[k]
               /\ \A k \in (i + 1)..j : times[k] - times[k - 1] <= GAP_THRESHOLD
             all == {p \in samples \X samples : joined(p[1], p[2])}
             most == {p \in all : \A q \in all : q[1] <= p[1] /\ p[2] <= q[2] => q = p}
  <1>7. {<<report.gaps[k].from, report.gaps[k].to>> : k \in DOMAIN report.gaps} =
          {p \in around \X around : p[2] - p[1] > GAP_THRESHOLD /\ silent(p[1], p[2])}
    <2>1. at = around /\ \A a, b : empty(a, b) <=> silent(a, b)
      BY <1>3
    <2> HIDE DEF at, around, empty, silent
    <2> QED
      BY <1>4, <1>5, <2>1
  <1>8. {report.segments[k] : k \in DOMAIN report.segments} =
          {[from |-> times[p[1]], to |-> times[p[2]], rows |-> p[2] - p[1] + 1] : p \in most}
    <2>1. runs = all
      BY <1>3 DEF Together
    <2> HIDE DEF runs, all
    <2>2. longest = most
      BY <2>1
    <2> HIDE DEF longest, most
    <2> QED
      BY <1>4, <1>6, <2>2 DEF Segment
  <1> QED
    BY <1>7, <1>8, Zenon DEF times, valid

-----------------------------------------------------------------------------
(* Coverage: the samples that a report may be of.                          *)

\* What rises step by step from 0 has each number up to its last between two steps.
LEMMA Slots ==
  ASSUME NEW l \in Nat, NEW o \in [0..l -> Int], o[0] = 0, \A k \in 1..l : o[k - 1] < o[k]
  PROVE  /\ \A i, j \in 0..l : i < j => o[i] < o[j]
         /\ \A j \in 1..o[l] : \E k \in 1..l : o[k - 1] < j /\ j <= o[k]
  <1>1. \A k \in 0..l : o[k] \in Int
    OBVIOUS
  <1>2. ASSUME NEW i \in 0..l PROVE \A j \in 0..l : i < j => o[i] < o[j]
    <2> DEFINE P == {j \in 0..l : i < j => o[i] < o[j]}
    <2>1. 0 \in P
      OBVIOUS
    <2>2. ASSUME NEW j \in 1..l, j - 1 \in P PROVE j \in P
      <3>1. j \in 0..l /\ j - 1 \in 0..l /\ o[j - 1] < o[j]
        OBVIOUS
      <3>2. CASE i < j - 1
        <4>1. o[i] < o[j - 1]
          BY <2>2, <3>2
        <4>2. o[i] < o[j]
          BY <1>1, <3>1, <4>1
        <4> QED
          BY <3>1, <4>2
      <3>3. CASE i = j - 1
        BY <3>1, <3>3
      <3>4. CASE i > j - 1
        BY <3>1, <3>4
      <3> QED
        BY <3>2, <3>3, <3>4
    <2>3. \A j \in 0..l : j \in P
      <3> HIDE DEF P
      <3> QED
        BY <2>1, <2>2, CountingUp
    <2> QED
      BY <2>3
  <1> DEFINE Found(j, k) == \E i \in 1..k : o[i - 1] < j /\ j <= o[i]
             P == {k \in 0..l : \A j \in 1..o[k] : Found(j, k)}
  <1>3. 0 \in P
    OBVIOUS
  <1>4. ASSUME NEW k \in 1..l, k - 1 \in P PROVE k \in P
    <2>1. k \in 0..l /\ k - 1 \in 0..l /\ o[k] \in Int /\ o[k - 1] \in Int
      BY <1>1
    <2>2. ASSUME NEW j \in 1..o[k] PROVE Found(j, k)
      <3>1. CASE j <= o[k - 1]
        <4>1. j \in 1..o[k - 1]
          BY <2>1, <3>1
        <4>2. Found(j, k - 1)
          BY <1>4, <4>1
        <4>3. \A i \in 1..(k - 1) : i \in 1..k
          OBVIOUS
        <4> QED
          BY <4>2, <4>3
      <3>2. CASE ~(j <= o[k - 1])
        <4>1. k \in 1..k /\ o[k - 1] < j /\ j <= o[k]
          BY <2>1, <3>2
        <4> QED
          BY <4>1
      <3> QED
        BY <3>1, <3>2
    <2> HIDE DEF Found
    <2> QED
      BY <2>1, <2>2
  <1>5. \A k \in 0..l : k \in P
    <2> HIDE DEF P
    <2> QED
      BY <1>3, <1>4, CountingUp
  <1>6. l \in P
    BY <1>5
  <1>7. \A j \in 1..o[l] : Found(j, l)
    <2> HIDE DEF Found
    <2> QED
      BY <1>6
  <1> QED
    BY <1>2, <1>7

\* A time for each row of a segment: as late as the threshold lets it be, but early
\* enough to leave time to the rows after it.
RowTime(segment, p) ==
  LET late == segment.from + (p - 1) * GAP_THRESHOLD
      early == segment.to - (segment.rows - p) IN
  IF late <= early THEN late ELSE early

LEMMA RowTimes ==
  ASSUME NEW segment \in AnySegment, segment.rows >= 1, Possible(segment)
  PROVE  /\ \A p \in 1..segment.rows : RowTime(segment, p) \in segment.from..segment.to
         /\ RowTime(segment, 1) = segment.from
         /\ RowTime(segment, segment.rows) = segment.to
         /\ \A p \in 1..(segment.rows - 1) :
              RowTime(segment, p + 1) - RowTime(segment, p) \in 1..GAP_THRESHOLD
  <1> DEFINE a == segment.from
             b == segment.to
             r == segment.rows
             T == GAP_THRESHOLD
  <1>1. a \in Int /\ b \in Int /\ r \in Int /\ r >= 1 /\ T \in Nat /\ T >= 1
    BY CoverageAssumption DEF AnySegment
  <1>2. b - a \in (r - 1)..((r - 1) * T)
    BY DEF Possible
  <1>3. \A p : RowTime(segment, p) = IF a + (p - 1) * T <= b - (r - p) THEN a + (p - 1) * T
                                                                     ELSE b - (r - p)
    BY DEF RowTime
  <1> HIDE DEF a, b, r, T
  <1>4. (r - 1) * T \in Int
    BY <1>1
  <1>5. r - 1 <= b - a /\ b - a <= (r - 1) * T
    BY <1>1, <1>2, <1>4
  <1>6. ASSUME NEW p \in 1..r PROVE RowTime(segment, p) \in a..b
    <2> DEFINE x == (p - 1) * T
    <2>1. x \in Int /\ x >= 0
      <3>1. p - 1 \in Nat
        BY <1>1
      <3> QED
        BY <1>1, <3>1
    <2>2. RowTime(segment, p) = IF a + x <= b - (r - p) THEN a + x ELSE b - (r - p)
      BY <1>3
    <2> HIDE DEF x
    <2> QED
      BY <1>1, <1>5, <2>1, <2>2
  <1>7. RowTime(segment, 1) = a
    <2>1. (1 - 1) * T = 0
      BY <1>1
    <2> QED
      BY <1>1, <1>3, <1>5, <2>1
  <1>8. RowTime(segment, r) = b
    <2> DEFINE x == (r - 1) * T
    <2>1. x \in Int /\ b - a <= x
      BY <1>4, <1>5
    <2>2. RowTime(segment, r) = IF a + x <= b - (r - r) THEN a + x ELSE b - (r - r)
      BY <1>3
    <2> HIDE DEF x
    <2> QED
      BY <1>1, <2>1, <2>2
  <1>9. ASSUME NEW p \in 1..(r - 1)
        PROVE  RowTime(segment, p + 1) - RowTime(segment, p) \in 1..T
    <2> DEFINE x == (p - 1) * T
               y == ((p + 1) - 1) * T
    <2>1. x \in Int /\ y = x + T
      BY <1>1
    <2>2. RowTime(segment, p) = IF a + x <= b - (r - p) THEN a + x ELSE b - (r - p)
      BY <1>3
    <2>3. RowTime(segment, p + 1)
            = IF a + y <= b - (r - (p + 1)) THEN a + y ELSE b - (r - (p + 1))
      BY <1>3
    <2> HIDE DEF x, y
    <2> QED
      BY <1>1, <2>1, <2>2, <2>3
  <1> QED
    BY <1>6, <1>7, <1>8, <1>9 DEF a, b, r, T

\* times are those of the rows of segments, of which the first k have o[k] rows.
Layout(times, o, segments) ==
  LET l == Len(segments) IN
  /\ o \in [0..l -> Int] /\ o[0] = 0 /\ o[l] = valid_sum(segments)[l]
  /\ \A k \in 1..l : o[k] = o[k - 1] + segments[k].rows
  /\ \A i, j \in 0..l : i < j => o[i] < o[j]
  /\ times \in [1..o[l] -> 0..Window]
  /\ \A k \in 1..l : times[o[k - 1] + 1] = segments[k].from /\ times[o[k]] = segments[k].to
  /\ \A j \in 2..o[l] : \/ \E k \in 1..(l - 1) : j = o[k] + 1
                        \/ times[j] - times[j - 1] \in 1..GAP_THRESHOLD

LEMMA LayoutExists ==
  ASSUME NEW s \in Seq(AnySegment),
         \A k \in 1..Len(s) : /\ s[k].from >= 0 /\ s[k].to <= Window
                              /\ s[k].rows >= 1 /\ Possible(s[k])
  PROVE  \E times, o : Layout(times, o, s)
  <1> DEFINE l == Len(s)
             o == [k \in 0..l |-> valid_sum(s)[k]]
             n == o[l]
  <1>1. l \in Nat /\ Window \in Nat /\ GAP_THRESHOLD \in Nat
    BY CoverageAssumption
  <1>2. /\ valid_sum(s)[0] = 0 /\ \A k \in 0..l : valid_sum(s)[k] \in Int
        /\ \A k \in 1..l : valid_sum(s)[k] = valid_sum(s)[k - 1] + s[k].rows
    BY SumSteps
  <1>3. \A k \in 1..l : /\ s[k].from \in Int /\ s[k].to \in Int /\ s[k].rows \in Int
                        /\ s[k].rows >= 1
    <2>1. \A k \in 1..l : s[k] \in AnySegment
      OBVIOUS
    <2> HIDE DEF o
    <2> QED
      BY <2>1 DEF AnySegment
  <1>4. /\ o \in [0..l -> Int] /\ o[0] = 0 /\ o[l] = valid_sum(s)[l]
        /\ \A k \in 1..l : o[k] = o[k - 1] + s[k].rows
    <2>1. \A k \in 1..l : k \in 0..l /\ k - 1 \in 0..l
      BY <1>1
    <2>2. 0 \in 0..l /\ l \in 0..l
      BY <1>1
    <2> HIDE DEF l
    <2> QED
      BY <1>2, <2>1, <2>2
  <1> HIDE DEF o, l
  <1>5. \A k \in 1..l : k \in 0..l /\ k - 1 \in 0..l /\ o[k] \in Int /\ o[k - 1] \in Int
    <2> HIDE DEF n
    <2> SUFFICES ASSUME NEW k \in 1..l
                 PROVE  k \in 0..l /\ k - 1 \in 0..l /\ o[k] \in Int /\ o[k - 1] \in Int
      OBVIOUS
    <2>1. k \in 0..l /\ k - 1 \in 0..l
      BY <1>1
    <2>2. o \in [0..l -> Int]
      BY <1>4
    <2> QED
      BY <2>1, <2>2
  <1>6. \A k \in 1..l : o[k - 1] < o[k]
    <2> SUFFICES ASSUME NEW k \in 1..l PROVE o[k - 1] < o[k]
      OBVIOUS
    <2>1. o[k] = o[k - 1] + s[k].rows /\ o[k - 1] \in Int
      BY <1>4, <1>5
    <2>2. s[k].rows \in Int /\ s[k].rows >= 1
      BY <1>3
    <2> QED
      BY <2>1, <2>2
  <1>7. /\ \A i, j \in 0..l : i < j => o[i] < o[j]
        /\ \A j \in 1..o[l] : \E k \in 1..l : o[k - 1] < j /\ j <= o[k]
    BY <1>1, <1>4, <1>6, Slots
  <1> DEFINE slot == [j \in 1..n |-> CHOOSE k \in 1..l : o[k - 1] < j /\ j <= o[k]]
             at(j) == RowTime(s[slot[j]], j - o[slot[j] - 1])
             times == [j \in 1..n |-> at(j)]
  <1>8. \A j \in 1..n : slot[j] \in 1..l /\ o[slot[j] - 1] < j /\ j <= o[slot[j]]
    BY <1>7
  <1>9. n \in Int /\ \A k \in 1..l : o[k] <= n /\ o[k - 1] >= 0
    <2>1. l \in 0..l /\ 0 \in 0..l /\ n \in Int
      BY <1>1, <1>4
    <2>2. ASSUME NEW k \in 1..l PROVE o[k] <= n /\ o[k - 1] >= 0
      <3>1. k \in 0..l /\ k - 1 \in 0..l /\ (k < l \/ k = l) /\ (0 < k - 1 \/ k - 1 = 0)
        BY <1>1
      <3>2. (k < l => o[k] < o[l]) /\ (0 < k - 1 => o[0] < o[k - 1])
        BY <1>7, <2>1, <3>1
      <3> DEFINE x == o[k - 1]
                 y == o[k]
      <3>3. x \in Int /\ y \in Int /\ o[l] = n
        BY <1>4, <1>5
      <3>4. (y < n \/ y = n) /\ (0 < x \/ x = 0)
        BY <1>4, <3>1, <3>2, <3>3
      <3> HIDE DEF x, y, n
      <3>5. y <= n /\ x >= 0
        BY <2>1, <3>3, <3>4
      <3> QED
        BY <3>5 DEF x, y
    <2> QED
      BY <2>1, <2>2
  <1>10. ASSUME NEW k \in 1..l, NEW j \in Int, o[k - 1] < j, j <= o[k]
         PROVE  j \in 1..n /\ slot[j] = k
    <2>1. j \in 1..n
      BY <1>5, <1>9, <1>10
    <2> DEFINE i == slot[j]
    <2>2. i \in 1..l /\ o[i - 1] < j /\ j <= o[i]
      BY <1>8, <2>1
    <2> HIDE DEF i, slot
    <2>3. /\ i \in 0..l /\ i - 1 \in 0..l /\ k \in 0..l /\ k - 1 \in 0..l
          /\ o[i] \in Int /\ o[i - 1] \in Int /\ o[k] \in Int /\ o[k - 1] \in Int
      BY <1>5, <2>2
    <2>4. ~(i < k)
      <3>1. ASSUME i < k PROVE FALSE
        <4>1. i < k - 1 \/ i = k - 1
          BY <1>1, <2>2, <3>1
        <4>2. o[i] <= o[k - 1]
          BY <1>7, <2>3, <4>1
        <4> QED
          BY <1>10, <2>2, <2>3, <4>2
      <3> QED
        BY <3>1
    <2>5. ~(k < i)
      <3>1. ASSUME k < i PROVE FALSE
        <4>1. k < i - 1 \/ k = i - 1
          BY <1>1, <2>2, <3>1
        <4>2. o[k] <= o[i - 1]
          BY <1>7, <2>3, <4>1
        <4> QED
          BY <1>10, <2>2, <2>3, <4>2
      <3> QED
        BY <3>1
    <2>6. i = k
      BY <1>1, <2>2, <2>4, <2>5
    <2> QED
      BY <2>1, <2>6 DEF i
  <1>11. ASSUME NEW k \in 1..l
         PROVE  /\ \A p \in 1..s[k].rows : RowTime(s[k], p) \in s[k].from..s[k].to
                /\ RowTime(s[k], 1) = s[k].from
                /\ RowTime(s[k], s[k].rows) = s[k].to
                /\ \A p \in 1..(s[k].rows - 1) :
                     RowTime(s[k], p + 1) - RowTime(s[k], p) \in 1..GAP_THRESHOLD
    <2> DEFINE e == s[k]
    <2>1. e \in AnySegment /\ e.rows >= 1 /\ Possible(e)
      BY DEF l
    <2> HIDE DEF e
    <2>2. /\ \A p \in 1..e.rows : RowTime(e, p) \in e.from..e.to
          /\ RowTime(e, 1) = e.from
          /\ RowTime(e, e.rows) = e.to
          /\ \A p \in 1..(e.rows - 1) : RowTime(e, p + 1) - RowTime(e, p) \in 1..GAP_THRESHOLD
      BY <2>1, RowTimes
    <2> QED
      BY <2>2 DEF e
  <1>12. ASSUME NEW k \in 1..l, NEW j \in Int, o[k - 1] < j, j <= o[k]
         PROVE  j \in 1..n /\ times[j] = RowTime(s[k], j - o[k - 1])
    <2>1. j \in 1..n /\ slot[j] = k
      BY <1>10, <1>12
    <2> HIDE DEF slot
    <2> QED
      BY <2>1
  <1>13. times \in [1..n -> 0..Window]
    <2> SUFFICES ASSUME NEW j \in 1..n PROVE at(j) \in 0..Window
      OBVIOUS
    <2> DEFINE k == slot[j]
               p == j - o[k - 1]
    <2>1. k \in 1..l /\ o[k - 1] < j /\ j <= o[k]
      BY <1>8
    <2> HIDE DEF k, slot
    <2>2. p \in 1..s[k].rows
      <3>1. o[k] = o[k - 1] + s[k].rows /\ o[k - 1] \in Int /\ s[k].rows \in Int
        BY <1>3, <1>4, <1>5, <2>1 DEF l
      <3> QED
        BY <1>9, <2>1, <3>1
    <2>3. RowTime(s[k], p) \in s[k].from..s[k].to
      BY <1>11, <2>1, <2>2
    <2>4. s[k].from >= 0 /\ s[k].to <= Window /\ s[k].from \in Int /\ s[k].to \in Int
      BY <1>3, <2>1 DEF l
    <2>5. RowTime(s[k], p) \in 0..Window
      <3> DEFINE x == RowTime(s[k], p)
      <3>1. x \in s[k].from..s[k].to
        BY <2>3
      <3> HIDE DEF x
      <3>2. x \in 0..Window
        BY <1>1, <2>4, <3>1
      <3> QED
        BY <3>2 DEF x
    <2> QED
      BY <2>5 DEF k
  <1> HIDE DEF slot
  <1>14. ASSUME NEW k \in 1..l
         PROVE  times[o[k - 1] + 1] = s[k].from /\ times[o[k]] = s[k].to
    <2>1. /\ o[k - 1] \in Int /\ o[k] \in Int /\ o[k - 1] < o[k] /\ o[k] = o[k - 1] + s[k].rows
          /\ s[k].rows \in Int
      BY <1>3, <1>4, <1>5, <1>6 DEF l
    <2>2. /\ o[k - 1] + 1 \in Int /\ o[k - 1] < o[k - 1] + 1 /\ o[k - 1] + 1 <= o[k]
          /\ (o[k - 1] + 1) - o[k - 1] = 1 /\ o[k] - o[k - 1] = s[k].rows /\ o[k] <= o[k]
      <3> DEFINE x == o[k - 1]
                 y == o[k]
                 z == s[k].rows
      <3>1. x \in Int /\ y \in Int /\ z \in Int /\ x < y /\ y = x + z
        BY <2>1
      <3> HIDE DEF x, y, z
      <3>2. x + 1 \in Int /\ x < x + 1 /\ x + 1 <= y /\ (x + 1) - x = 1 /\ y - x = z /\ y <= y
        BY <3>1
      <3> QED
        BY <3>2 DEF x, y, z
    <2> HIDE DEF times
    <2>3. times[o[k - 1] + 1] = RowTime(s[k], (o[k - 1] + 1) - o[k - 1])
      BY <1>12, <2>2
    <2>4. times[o[k]] = RowTime(s[k], o[k] - o[k - 1])
      BY <1>12, <2>1, <2>2
    <2> QED
      BY <1>11, <2>2, <2>3, <2>4
  <1>15. ASSUME NEW j \in 2..n
         PROVE  \/ \E k \in 1..(l - 1) : j = o[k] + 1
                \/ times[j] - times[j - 1] \in 1..GAP_THRESHOLD
    <2>1. j \in 1..n
      BY <1>9
    <2>2. PICK k \in 1..l : o[k - 1] < j /\ j <= o[k]
      BY <1>7, <2>1
    <2>3. /\ o[k - 1] \in Int /\ o[k] \in Int /\ o[k] = o[k - 1] + s[k].rows
          /\ s[k].rows \in Int /\ k - 1 \in 0..l
      BY <1>3, <1>4, <1>5 DEF l
    <2> HIDE DEF times
    <2>4. CASE j - 1 = o[k - 1]
      <3>1. k # 1
        BY <1>4, <2>4
      <3>2. k - 1 \in 1..(l - 1) /\ j = o[k - 1] + 1
        BY <1>1, <2>3, <2>4, <3>1
      <3> QED
        BY <3>2
    <2>5. CASE j - 1 # o[k - 1]
      <3> DEFINE p == (j - 1) - o[k - 1]
      <3>1. /\ j - 1 \in Int /\ o[k - 1] < j - 1 /\ j - 1 <= o[k] /\ j \in Int
            /\ p \in 1..(s[k].rows - 1) /\ j - o[k - 1] = p + 1
        <4> DEFINE x == o[k - 1]
                   y == o[k]
                   r == s[k].rows
        <4>1. /\ x \in Int /\ y \in Int /\ y = x + r /\ r \in Int /\ j \in Int
              /\ x < j /\ j <= y /\ j - 1 # x /\ p = (j - 1) - x
          BY <1>9, <2>2, <2>3, <2>5
        <4> HIDE DEF x, y, r, p
        <4>2. j - 1 \in Int /\ x < j - 1 /\ j - 1 <= y /\ p \in 1..(r - 1) /\ j - x = p + 1
          BY <4>1
        <4> QED
          BY <4>1, <4>2 DEF x, y, r
      <3> HIDE DEF p
      <3>2. times[j - 1] = RowTime(s[k], (j - 1) - o[k - 1])
        BY <1>12, <3>1
      <3>3. times[j] = RowTime(s[k], j - o[k - 1])
        BY <1>12, <2>2, <3>1
      <3>4. times[j - 1] = RowTime(s[k], p) /\ times[j] = RowTime(s[k], p + 1)
        BY <3>1, <3>2, <3>3 DEF p
      <3> QED
        BY <1>11, <3>1, <3>4
    <2> QED
      BY <2>4, <2>5
  <1> HIDE DEF times
  <1>16. Layout(times, o, s)
    BY <1>4, <1>7, <1>13, <1>14, <1>15 DEF Layout, l
  <1> QED
    BY <1>16

\* The samples laid out so are a series with the gaps where the report has them.
LEMMA LayoutIsSeries ==
  ASSUME NEW g \in Seq(AnyGap), NEW s \in Seq(AnySegment), GapsInOrder(g),
         Len(s) = Cardinality(Internal(g)) + 1,
         \A k \in 1..Cardinality(Internal(g)) :
           /\ g[Before(g) + k].from = s[k].to /\ g[Before(g) + k].to = s[k + 1].from,
         NEW times, NEW o, Layout(times, o, s), o[Len(s)] >= 1
  PROVE  /\ Series(times) /\ Len(times) = o[Len(s)]
         /\ times[1] = s[1].from /\ times[Len(times)] = s[Len(s)].to
         /\ \A k \in 1..Cardinality(Internal(g)) : o[k] + 1 \in 2..Len(times)
         /\ \A i \in 2..Len(times) :
              i \in Silent(times) <=> \E k \in 1..Cardinality(Internal(g)) : i = o[k] + 1
  <1> DEFINE l == Len(s)
             c == Cardinality(Internal(g))
             lead == Before(g)
             m == Len(g)
             n == o[l]
             After1(i) == \E k \in 1..c : i = o[k] + 1
  <1>1. /\ c \in Nat /\ c = m - lead - After(g) /\ lead \in 0..1 /\ After(g) \in 0..1
        /\ m \in Nat
    BY Arranged
  <1>2. l = c + 1 /\ \A k \in 1..c : g[lead + k].from = s[k].to /\ g[lead + k].to = s[k + 1].from
    OBVIOUS
  <1>3. \A k \in 1..m : g[k].to - g[k].from > GAP_THRESHOLD
    BY DEF GapsInOrder
  <1> HIDE DEF c, lead, m, l
  <1>4. /\ o \in [0..l -> Int] /\ o[0] = 0 /\ n \in Int /\ n >= 1
        /\ \A i, j \in 0..l : i < j => o[i] < o[j]
        /\ times \in [1..n -> 0..Window]
        /\ \A k \in 1..l : times[o[k - 1] + 1] = s[k].from /\ times[o[k]] = s[k].to
        /\ \A j \in 2..n : \/ \E k \in 1..(l - 1) : j = o[k] + 1
                           \/ times[j] - times[j - 1] \in 1..GAP_THRESHOLD
    <2>1. l \in 0..l
      BY <1>1, <1>2
    <2>2. o \in [0..l -> Int]
      BY DEF Layout, l
    <2>3. n \in Int
      BY <2>1, <2>2
    <2> QED
      BY <2>2, <2>3 DEF Layout, l
  <1>5. Window \in Nat /\ GAP_THRESHOLD \in Nat /\ GAP_THRESHOLD >= 1
    BY CoverageAssumption
  <1> HIDE DEF n
  <1>6. times \in Seq(Int) /\ Len(times) = n
    BY <1>4, <1>5
  <1>7. ASSUME NEW k \in 1..c PROVE o[k] + 1 \in 2..n /\ o[k] \in Int
    <2>1. 0 \in 0..l /\ k \in 0..l /\ l \in 0..l /\ 0 < k /\ k < l
      BY <1>1, <1>2
    <2>2. o[0] < o[k] /\ o[k] < n
      BY <1>4, <2>1 DEF n
    <2>3. o[k] \in Int
      BY <1>4, <2>1
    <2> QED
      BY <1>4, <2>2, <2>3
  <1>8. ASSUME NEW k \in 1..c PROVE times[o[k] + 1] - times[(o[k] + 1) - 1] > GAP_THRESHOLD
    <2>1. k \in 1..l /\ k + 1 \in 1..l /\ (k + 1) - 1 = k /\ (o[k] + 1) - 1 = o[k]
      <3>1. c \in Nat /\ l = c + 1
        BY <1>1, <1>2
      <3>2. k \in 1..l /\ k + 1 \in 1..l /\ (k + 1) - 1 = k
        BY <3>1
      <3>3. (o[k] + 1) - 1 = o[k]
        BY <1>7
      <3> QED
        BY <3>2, <3>3
    <2>2. times[o[k]] = s[k].to /\ times[o[(k + 1) - 1] + 1] = s[k + 1].from
      BY <1>4, <2>1
    <2>3. lead + k \in 1..m
      BY <1>1
    <2>4. g[lead + k].to - g[lead + k].from > GAP_THRESHOLD
      BY <1>3, <2>3
    <2>5. times[o[k] + 1] = g[lead + k].to /\ times[(o[k] + 1) - 1] = g[lead + k].from
      BY <1>2, <2>1, <2>2
    <2> QED
      BY <2>4, <2>5
  <1>9. ASSUME NEW i \in 2..n
        PROVE  /\ times[i] \in Int /\ times[i - 1] \in Int /\ times[i - 1] < times[i]
               /\ times[i] - times[i - 1] > GAP_THRESHOLD <=> After1(i)
    <2>1. i \in 1..n /\ i - 1 \in 1..n
      BY <1>4
    <2>2. times[i] \in Int /\ times[i - 1] \in Int
      BY <1>4, <2>1
    <2>3. CASE After1(i)
      <3>1. times[i] - times[i - 1] > GAP_THRESHOLD
        BY <1>8, <2>3
      <3> HIDE DEF After1
      <3> QED
        BY <1>5, <2>2, <2>3, <3>1
    <2>4. CASE ~After1(i)
      <3>1. l - 1 = c
        BY <1>1, <1>2
      <3>2. times[i] - times[i - 1] \in 1..GAP_THRESHOLD
        BY <1>4, <2>4, <3>1
      <3> HIDE DEF After1
      <3> QED
        BY <1>5, <2>2, <2>4, <3>2
    <2> QED
      BY <2>3, <2>4
  <1>10. Series(times)
    <2>1. \A i \in 1..n : times[i] \in Int /\ times[i] \in 0..Window
      BY <1>4
    <2>2. \A i \in 1..(n - 1) : times[i] < times[i + 1]
      <3>1. \A i \in 1..(n - 1) : i + 1 \in 2..n /\ (i + 1) - 1 = i
        BY <1>4
      <3> QED
        BY <1>9, <3>1
    <2>3. n \in Nat
      BY <1>4
    <2>4. \A i, j \in 1..n : i < j => times[i] < times[j]
      BY <2>1, <2>2, <2>3, InOrder
    <2> QED
      BY <1>4, <1>6, <2>1, <2>4 DEF Series
  <1>11. times[1] = s[1].from /\ times[n] = s[l].to
    <2>1. 1 \in 1..l /\ l \in 1..l /\ 1 - 1 = 0
      BY <1>1, <1>2
    <2>2. o[1 - 1] + 1 = 1
      BY <1>4, <2>1
    <2> QED
      BY <1>4, <2>1, <2>2 DEF n
  <1>12. ASSUME NEW i \in 2..n PROVE i \in Silent(times) <=> After1(i)
    <2>1. i \in 1..n /\ i - 1 \in 1..n /\ i \in 1..(n + 1)
      BY <1>4
    <2>2. Bound(times, i) = times[i] /\ Bound(times, i - 1) = times[i - 1]
      BY <1>6, <1>10, <2>1, BoundsInOrder
    <2>3. i \in Silent(times) <=> times[i] - times[i - 1] > GAP_THRESHOLD
      BY <1>6, <2>1, <2>2 DEF Silent
    <2> HIDE DEF After1
    <2> QED
      BY <1>9, <2>3
  <1>13. Len(times) = o[Len(s)]
    BY <1>6 DEF n, l
  <1>14. \A k \in 1..c : o[k] + 1 \in 2..n
    BY <1>7
  <1>15. \A i \in 2..n : i \in Silent(times) <=> After1(i)
    BY <1>12
  <1> QED
    BY <1>6, <1>10, <1>11, <1>13, <1>14, <1>15 DEF l, c

\* Its gaps are those of the report.
LEMMA LayoutGaps ==
  ASSUME NEW g \in Seq(AnyGap), GapsInOrder(g), NEW times, Series(times), NEW w,
         NEW c, c = Cardinality(Internal(g)),
         IF Has(g, "LEADING") THEN g[1].from = 0 /\ g[1].to = times[1]
                              ELSE times[1] <= GAP_THRESHOLD,
         IF Has(g, "TRAILING") THEN g[Len(g)].from = times[Len(times)] /\ g[Len(g)].to = Window
                               ELSE Window - times[Len(times)] <= GAP_THRESHOLD,
         Lists(w, c, {i \in Silent(times) : i \in 2..Len(times)}),
         \A k \in 1..c : /\ g[Before(g) + k].from = times[w[k] - 1]
                         /\ g[Before(g) + k].to = times[w[k]]
  PROVE  Gaps(times) = g
  <1> DEFINE n == Len(times)
             m == Len(g)
             lead == Before(g)
             trail == After(g)
             B(i) == Bound(times, i)
             I == {i \in Silent(times) : i \in 2..n}
             idx == [k \in 1..m |-> IF k <= lead THEN 1
                                    ELSE IF k > m - trail THEN n + 1 ELSE w[k - lead]]
  <1>1. /\ c \in Nat /\ c = m - lead - trail /\ lead \in 0..1 /\ trail \in 0..1 /\ m \in Nat
        /\ (Has(g, "LEADING") => g[1].position = "LEADING")
        /\ (Has(g, "TRAILING") => g[m].position = "TRAILING")
        /\ \A k \in 1..m : lead < k /\ k <= m - trail => g[k].position = "INTERNAL"
    BY Arranged
  <1>2. /\ n \in Nat /\ n >= 1 /\ GAP_THRESHOLD \in Nat /\ Window \in Nat /\ times \in Seq(Int)
        /\ \A i \in 1..n : times[i] \in 0..Window
    BY CoverageAssumption DEF Series
  <1>3. B(0) = 0 /\ B(n + 1) = Window /\ \A i \in 1..n : B(i) = times[i]
    BY BoundsInOrder
  <1>4. \A k \in 1..m : /\ g[k].to - g[k].from > GAP_THRESHOLD
                        /\ g[k] = [position |-> g[k].position, from |-> g[k].from, to |-> g[k].to]
    <2>1. \A k \in 1..m : g[k].to - g[k].from > GAP_THRESHOLD
      BY DEF GapsInOrder
    <2>2. \A k \in 1..m : g[k] \in AnyGap
      OBVIOUS
    <2> QED
      BY <2>1, <2>2 DEF AnyGap
  <1>5. /\ \A k \in 1..c : w[k] \in Silent(times) /\ w[k] \in 2..n
        /\ \A k, j \in 1..c : k < j => w[k] < w[j]
        /\ \A i \in I : \E k \in 1..c : w[k] = i
    BY DEF Lists
  <1>6. /\ lead = 1 <=> Has(g, "LEADING")
        /\ trail = 1 <=> Has(g, "TRAILING")
        /\ Has(g, "LEADING") => 1 \in 1..m
        /\ Has(g, "TRAILING") => m \in 1..m
    <2>1. \A k \in 1..m : 1 \in 1..m /\ m \in 1..m
      BY <1>1
    <2> QED
      BY <2>1 DEF Before, After, Has
  <1> HIDE DEF lead, trail, B
  <1>7. 1 \in Silent(times) <=> lead = 1
    <2>1. 1 \in 1..n /\ 1 \in 1..(n + 1) /\ 1 - 1 = 0
      BY <1>2
    <2>2. 1 \in Silent(times) <=> times[1] - 0 > GAP_THRESHOLD
      BY <1>3, <2>1 DEF Silent, B
    <2>3. times[1] \in Int
      BY <1>2, <2>1
    <2>4. CASE Has(g, "LEADING")
      <3>1. g[1].to - g[1].from > GAP_THRESHOLD /\ g[1].from = 0 /\ g[1].to = times[1]
        BY <1>4, <1>6, <2>4
      <3> QED
        BY <1>6, <2>2, <2>4, <3>1
    <2>5. CASE ~Has(g, "LEADING")
      <3>1. times[1] <= GAP_THRESHOLD
        BY <2>5
      <3> QED
        BY <1>2, <1>6, <2>2, <2>3, <2>5, <3>1
    <2> QED
      BY <2>4, <2>5
  <1>8. n + 1 \in Silent(times) <=> trail = 1
    <2>1. n \in 1..n /\ n + 1 \in 1..(n + 1) /\ (n + 1) - 1 = n
      BY <1>2
    <2>2. n + 1 \in Silent(times) <=> Window - times[n] > GAP_THRESHOLD
      BY <1>3, <2>1 DEF Silent, B
    <2>3. times[n] \in Int
      BY <1>2, <2>1
    <2>4. CASE Has(g, "TRAILING")
      <3>1. g[m].to - g[m].from > GAP_THRESHOLD /\ g[m].from = times[n] /\ g[m].to = Window
        BY <1>4, <1>6, <2>4
      <3> QED
        BY <1>6, <2>2, <2>4, <3>1
    <2>5. CASE ~Has(g, "TRAILING")
      <3>1. Window - times[n] <= GAP_THRESHOLD
        BY <2>5
      <3> QED
        BY <1>2, <1>6, <2>2, <2>3, <2>5, <3>1
    <2> QED
      BY <2>4, <2>5
  <1>9. ASSUME NEW k \in 1..m
        PROVE  \/ k = 1 /\ lead = 1 /\ idx[k] = 1
               \/ k = m /\ trail = 1 /\ k > lead /\ idx[k] = n + 1
               \/ k - lead \in 1..c /\ k > lead /\ k <= m - trail /\ idx[k] = w[k - lead]
    <2>1. idx[k] = IF k <= lead THEN 1 ELSE IF k > m - trail THEN n + 1 ELSE w[k - lead]
      OBVIOUS
    <2> HIDE DEF idx, m
    <2>2. CASE k <= lead
      BY <1>1, <2>1, <2>2
    <2>3. CASE k > lead /\ k > m - trail
      BY <1>1, <2>1, <2>3
    <2>4. CASE k > lead /\ k <= m - trail
      <3>1. k - lead \in 1..c
        BY <1>1, <2>4
      <3> QED
        BY <1>1, <2>1, <2>4, <3>1
    <2> QED
      BY <1>1, <2>2, <2>3, <2>4
  <1>10. idx \in [1..m -> Silent(times)]
    <2>1. \A k \in 1..m : idx[k] \in Silent(times)
      BY <1>5, <1>7, <1>8, <1>9
    <2>2. idx = [k \in 1..m |-> idx[k]]
      OBVIOUS
    <2> HIDE DEF idx
    <2> QED
      BY <2>1, <2>2
  <1> HIDE DEF idx, m
  <1>11. ASSUME NEW k \in 1..m, NEW j \in 1..m, k < j PROVE idx[k] < idx[j]
    <2> DEFINE x == idx[k]
               y == idx[j]
    <2>1. \/ k = 1 /\ lead = 1 /\ x = 1
          \/ k - lead \in 1..c /\ k > lead /\ x = w[k - lead]
      <3>1. ~(k = m)
        BY <1>1, <1>11
      <3> QED
        BY <1>9, <3>1
    <2>2. \/ j = m /\ y = n + 1
          \/ j - lead \in 1..c /\ j > lead /\ y = w[j - lead]
      <3>1. ~(j = 1)
        BY <1>11
      <3> QED
        BY <1>9, <3>1
    <2> SUFFICES x < y
      OBVIOUS
    <2> HIDE DEF x, y, I, n
    <2>3. CASE k = 1 /\ x = 1
      <3>1. CASE y = n + 1
        BY <1>2, <2>3, <3>1
      <3>2. CASE j - lead \in 1..c /\ y = w[j - lead]
        <4>1. y \in 2..n
          BY <1>5, <3>2
        <4> QED
          BY <1>2, <2>3, <4>1
      <3> QED
        BY <2>2, <3>1, <3>2
    <2>4. CASE k - lead \in 1..c /\ x = w[k - lead]
      <3>1. x \in 2..n
        BY <1>5, <2>4
      <3>2. CASE y = n + 1
        BY <1>2, <3>1, <3>2
      <3>3. CASE j - lead \in 1..c /\ y = w[j - lead]
        <4>1. k - lead < j - lead
          BY <1>1, <1>11
        <4> DEFINE a == k - lead
                   b == j - lead
        <4>2. a \in 1..c /\ b \in 1..c /\ a < b /\ x = w[a] /\ y = w[b]
          BY <2>4, <3>3, <4>1
        <4> HIDE DEF a, b
        <4> QED
          BY <1>5, <4>2
      <3> QED
        BY <2>2, <3>2, <3>3
    <2> QED
      BY <2>1, <2>3, <2>4
  <1>12. ASSUME NEW i \in Silent(times) PROVE \E k \in 1..m : idx[k] = i
    <2>1. i \in 1..(n + 1)
      BY DEF Silent
    <2>2. CASE i = 1
      <3>1. lead = 1 /\ 1 \in 1..m
        BY <1>6, <1>7, <2>2 DEF m
      <3>2. idx[1] = 1
        <4>1. 1 \in 1..m /\ 1 <= lead
          BY <3>1
        <4> QED
          BY <4>1 DEF idx
      <3> QED
        BY <2>2, <3>1, <3>2
    <2>3. CASE i = n + 1
      <3>1. trail = 1 /\ m \in 1..m
        BY <1>6, <1>8, <2>3 DEF m
      <3>2. idx[m] = n + 1
        <4>1. ~(m <= lead) /\ m > m - trail
          BY <1>1, <3>1
        <4> QED
          BY <3>1, <4>1 DEF idx
      <3> QED
        BY <2>3, <3>1, <3>2
    <2>4. CASE i # 1 /\ i # n + 1
      <3>1. i \in I
        BY <1>2, <2>1, <2>4
      <3>2. PICK k \in 1..c : w[k] = i
        BY <1>5, <3>1
      <3> DEFINE j == lead + k
      <3>3. j \in 1..m /\ ~(j <= lead) /\ ~(j > m - trail) /\ j - lead = k
        BY <1>1
      <3>4. idx[j] = w[j - lead]
        <4> HIDE DEF j
        <4> QED
          BY <3>3 DEF idx
      <3> QED
        BY <3>2, <3>3, <3>4
    <2> QED
      BY <2>2, <2>3, <2>4
  <1>13. Lists(idx, m, Silent(times))
    BY <1>10, <1>11, <1>12 DEF Lists
  <1>14. ASSUME NEW k \in 1..m PROVE g[k] = GapAt(times, idx[k])
    <2>1. g[k] = [position |-> g[k].position, from |-> g[k].from, to |-> g[k].to]
      BY <1>4 DEF m
    <2>2. CASE k = 1 /\ lead = 1 /\ idx[k] = 1
      <3>1. g[k].position = "LEADING" /\ g[k].from = 0 /\ g[k].to = times[1]
        BY <1>1, <1>6, <2>2
      <3>2. B(1 - 1) = 0 /\ B(1) = times[1] /\ Position(times, 1) = "LEADING"
        BY <1>2, <1>3 DEF Position
      <3> QED
        BY <2>1, <2>2, <3>1, <3>2 DEF GapAt, B
    <2>3. CASE k = m /\ trail = 1 /\ idx[k] = n + 1
      <3>1. g[k].position = "TRAILING" /\ g[k].from = times[n] /\ g[k].to = Window
        BY <1>1, <1>6, <2>3 DEF m
      <3>2. /\ B((n + 1) - 1) = times[n] /\ B(n + 1) = Window
            /\ Position(times, n + 1) = "TRAILING"
        <4>1. (n + 1) - 1 = n /\ n \in 1..n /\ n + 1 # 1
          BY <1>2
        <4> QED
          BY <1>3, <4>1 DEF Position
      <3> QED
        BY <2>1, <2>3, <3>1, <3>2 DEF GapAt, B
    <2>4. CASE k - lead \in 1..c /\ k > lead /\ k <= m - trail /\ idx[k] = w[k - lead]
      <3> DEFINE j == k - lead
                 e == idx[k]
      <3>1. j \in 1..c /\ lead + j = k /\ e = w[j]
        BY <1>1, <2>4
      <3> HIDE DEF I
      <3>2. e \in 2..n
        BY <1>5, <3>1
      <3>3. e \in 1..n /\ e - 1 \in 1..n /\ e # 1 /\ e # n + 1
        <4> HIDE DEF e, n
        <4> QED
          BY <1>2, <3>2
      <3> HIDE DEF e, j
      <3>4. g[k].from = times[e - 1] /\ g[k].to = times[e]
        BY <3>1 DEF lead
      <3>5. g[k].position = "INTERNAL" /\ Position(times, e) = "INTERNAL"
        BY <1>1, <2>4, <3>3 DEF Position
      <3>6. B(e - 1) = times[e - 1] /\ B(e) = times[e]
        BY <1>3, <3>3
      <3>7. g[k] = GapAt(times, e)
        BY <2>1, <3>4, <3>5, <3>6 DEF GapAt, B
      <3> QED
        BY <3>7 DEF e
    <2> QED
      BY <1>9, <2>2, <2>3, <2>4
  <1> DEFINE h == Gaps(times)
             q == Len(h)
  <1>15. h \in Seq(AnyGap) /\ \E x : Lists(x, q, Silent(times)) /\ GapsOf(h, times, x)
    BY <1>2, GapsListed
  <1>16. PICK x : Lists(x, q, Silent(times)) /\ GapsOf(h, times, x)
    BY <1>15
  <1>17. SameLists(x, q, idx, m)
    <2> DEFINE S == Silent(times)
    <2>1. S \subseteq Int
      BY <1>2 DEF Silent
    <2>2. q \in Nat /\ m \in Nat /\ Lists(x, q, S) /\ Lists(idx, m, S)
      BY <1>1, <1>13, <1>15, <1>16
    <2> HIDE DEF S, q
    <2> QED
      BY <2>1, <2>2, ListsAgree
  <1>18. h = [k \in 1..m |-> GapAt(times, idx[k])]
    <2>1. h = [k \in 1..q |-> GapAt(times, x[k])]
      BY <1>16 DEF GapsOf
    <2>2. q = m /\ \A k \in 1..m : x[k] = idx[k]
      BY <1>17 DEF SameLists
    <2> HIDE DEF h, q
    <2> QED
      BY <2>1, <2>2
  <1>19. g = [k \in 1..m |-> g[k]]
    BY DEF m
  <1>20. g = [k \in 1..m |-> GapAt(times, idx[k])]
    BY <1>14, <1>19
  <1> QED
    BY <1>18, <1>20

\* A report that adds up and has no invalid rows is the report of some samples.
LEMMA ReportIsPossible ==
  ASSUME NEW report \in CoverageReport, AddsUp(report), report.invalid = 0
  PROVE  \E times \in [1..report.rows -> 0..Window] :
           /\ \A i \in 1..(report.rows - 1) : times[i] < times[i + 1]
           /\ Gaps(times) = report.gaps
           /\ Segments(times, [i \in 1..report.rows |-> TRUE]) = report.segments
  <1> DEFINE g == report.gaps
             s == report.segments
             n == report.rows
             l == Len(s)
             c == Cardinality(Internal(g))
             lead == Before(g)
  <1>1. g \in Seq(AnyGap) /\ s \in Seq(AnySegment) /\ n \in Int /\ n >= 1
    BY DEF CoverageReport, AnyGap, AnySegment, AddsUp
  <1>2. GapsInOrder(g) /\ SegmentsInOrder(report) /\ Joined(report)
    BY DEF AddsUp
  <1>3. /\ \A k \in 1..l : s[k].from >= 0 /\ s[k].to <= Window /\ s[k].rows \in 1..n
        /\ valid_sum(s)[l] = n - report.invalid
    BY <1>2 DEF SegmentsInOrder
  <1>4. /\ l = c + 1
        /\ IF Has(g, "LEADING") THEN g[1].from = 0 /\ g[1].to = s[1].from
                                ELSE s[1].from <= GAP_THRESHOLD
        /\ IF Has(g, "TRAILING") THEN g[Len(g)].from = s[l].to /\ g[Len(g)].to = Window
                                 ELSE Window - s[l].to <= GAP_THRESHOLD
        /\ \A k \in 1..c : g[lead + k].from = s[k].to /\ g[lead + k].to = s[k + 1].from
        /\ \A k \in 1..l : Possible(s[k])
    BY <1>2 DEF Joined, Has, Before, Internal
  <1> HIDE DEF g, s
  <1>5. \E times, o : Layout(times, o, s)
    <2>1. \A k \in 1..Len(s) : /\ s[k].from >= 0 /\ s[k].to <= Window
                               /\ s[k].rows >= 1 /\ Possible(s[k])
      BY <1>3, <1>4
    <2> QED
      BY <1>1, <2>1, LayoutExists
  <1>6. PICK times, o : Layout(times, o, s)
    BY <1>5
  <1>7. o[l] = n
    <2>1. o[l] = valid_sum(s)[l]
      BY <1>6 DEF Layout
    <2> QED
      BY <1>1, <1>3, <2>1
  <1>8. /\ Series(times) /\ Len(times) = o[l]
        /\ times[1] = s[1].from /\ times[Len(times)] = s[l].to
        /\ \A k \in 1..c : o[k] + 1 \in 2..Len(times)
        /\ \A i \in 2..Len(times) : i \in Silent(times) <=> \E k \in 1..c : i = o[k] + 1
    <2>1. o[Len(s)] >= 1
      BY <1>1, <1>7
    <2> QED
      BY <1>1, <1>2, <1>4, <1>6, <2>1, LayoutIsSeries
  <1>9. /\ c \in Nat /\ o[0] = 0 /\ \A i, j \in 0..l : i < j => o[i] < o[j]
        /\ times \in [1..n -> 0..Window]
        /\ \A k \in 1..l : times[o[k - 1] + 1] = s[k].from /\ times[o[k]] = s[k].to
        /\ \A k \in 1..l : o[k] = o[k - 1] + s[k].rows
        /\ \A k \in 0..l : o[k] \in Int
    <2>1. c \in Nat
      BY <1>1, <1>2, Arranged
    <2> QED
      BY <1>6, <1>7, <2>1 DEF Layout
  <1> HIDE DEF l, c, lead, n
  <1>10. Len(times) = n
    BY <1>7, <1>8
  <1> DEFINE I == {i \in Silent(times) : i \in 2..Len(times)}
             w == [k \in 1..c |-> o[k] + 1]
  <1>11. Lists(w, c, I)
    <2>1. \A k \in 1..c : k \in 0..l
      BY <1>4, <1>9
    <2>2. \A k \in 1..c : o[k] + 1 \in I
      BY <1>8
    <2>3. \A i \in I : \E k \in 1..c : o[k] + 1 = i
      BY <1>8
    <2>4. \A k, j \in 1..c : k < j => o[k] + 1 < o[j] + 1
      <3> SUFFICES ASSUME NEW k \in 1..c, NEW j \in 1..c, k < j PROVE o[k] + 1 < o[j] + 1
        OBVIOUS
      <3>1. o[k] \in Int /\ o[j] \in Int /\ o[k] < o[j]
        BY <1>9, <2>1
      <3> QED
        BY <3>1
    <2> HIDE DEF I
    <2> QED
      BY <2>2, <2>3, <2>4 DEF Lists
  <1>12. Gaps(times) = g
    <2>1. \A k \in 1..c : /\ g[Before(g) + k].from = times[w[k] - 1]
                          /\ g[Before(g) + k].to = times[w[k]]
      <3> SUFFICES ASSUME NEW k \in 1..c
                   PROVE  /\ g[lead + k].from = times[w[k] - 1]
                          /\ g[lead + k].to = times[w[k]]
        BY DEF lead
      <3>1. k \in 1..l /\ k + 1 \in 1..l /\ (k + 1) - 1 = k /\ k \in 0..l
        BY <1>4, <1>9
      <3>2. w[k] = o[k] + 1 /\ w[k] - 1 = o[k]
        BY <1>9, <3>1
      <3>3. times[o[k]] = s[k].to /\ times[o[(k + 1) - 1] + 1] = s[k + 1].from
        BY <1>9, <3>1
      <3>4. g[lead + k].from = s[k].to /\ g[lead + k].to = s[k + 1].from
        BY <1>4
      <3> QED
        BY <3>1, <3>2, <3>3, <3>4
    <2>2. IF Has(g, "LEADING") THEN g[1].from = 0 /\ g[1].to = times[1]
                               ELSE times[1] <= GAP_THRESHOLD
      BY <1>4, <1>8
    <2>3. IF Has(g, "TRAILING") THEN g[Len(g)].from = times[Len(times)] /\ g[Len(g)].to = Window
                                ELSE Window - times[Len(times)] <= GAP_THRESHOLD
      BY <1>4, <1>8
    <2>4. c = Cardinality(Internal(g))
      BY DEF c
    <2> HIDE DEF w
    <2> QED
      BY <1>1, <1>2, <1>8, <1>11, <2>1, <2>2, <2>3, <2>4, LayoutGaps
  <1> DEFINE valid == [i \in 1..n |-> TRUE]
             S == Starts(times, valid)
             E == Ends(times, valid)
             firsts == [k \in 1..(c + 1) |-> IF k = 1 THEN 1 ELSE w[k - 1]]
             lasts == [k \in 1..(c + 1) |-> IF k = c + 1 THEN Len(times) ELSE w[k] - 1]
             found == Segments(times, valid)
             m == Len(found)
  <1>13. Lists(firsts, c + 1, S) /\ Lists(lasts, c + 1, E)
    <2>1. \A i \in 1..Len(times) : valid[i]
      BY <1>10
    <2> HIDE DEF w, valid
    <2> QED
      BY <1>8, <1>9, <1>11, <2>1, RunsBetweenGaps
  <1>14. /\ \A k \in 1..l : firsts[k] = o[k - 1] + 1 /\ lasts[k] = o[k]
    <2> SUFFICES ASSUME NEW k \in 1..l PROVE firsts[k] = o[k - 1] + 1 /\ lasts[k] = o[k]
      OBVIOUS
    <2>1. k \in 1..(c + 1) /\ k \in 0..l /\ k - 1 \in 0..l
      BY <1>4, <1>9
    <2>2. firsts[k] = IF k = 1 THEN 1 ELSE w[k - 1]
      BY <2>1
    <2>3. lasts[k] = IF k = c + 1 THEN Len(times) ELSE w[k] - 1
      BY <2>1
    <2>4. firsts[k] = o[k - 1] + 1
      <3>1. CASE k = 1
        <4>1. k - 1 = 0 /\ o[k - 1] + 1 = 1
          BY <1>9, <3>1
        <4> HIDE DEF firsts
        <4> QED
          BY <2>2, <3>1, <4>1
      <3>2. CASE k # 1
        <4>1. k - 1 \in 1..c
          BY <1>9, <2>1, <3>2
        <4>2. w[k - 1] = o[k - 1] + 1
          BY <4>1
        <4> HIDE DEF firsts, w
        <4> QED
          BY <2>2, <3>2, <4>2
      <3> QED
        BY <3>1, <3>2
    <2>5. lasts[k] = o[k]
      <3>1. CASE k = c + 1
        <4>1. k = l
          BY <1>4, <3>1
        <4> HIDE DEF lasts
        <4> QED
          BY <1>8, <2>3, <3>1, <4>1
      <3>2. CASE k # c + 1
        <4>1. k \in 1..c
          BY <1>9, <2>1, <3>2
        <4>2. w[k] = o[k] + 1 /\ o[k] \in Int
          BY <1>9, <2>1, <4>1
        <4>3. w[k] - 1 = o[k]
          <5> HIDE DEF w
          <5> QED
            BY <4>2
        <4> HIDE DEF lasts, w
        <4> QED
          BY <2>3, <3>2, <4>3
      <3> QED
        BY <3>1, <3>2
    <2> QED
      BY <2>4, <2>5
  <1> HIDE DEF valid, w, firsts, lasts
  <1>15. times \in Seq(Int) /\ n \in Nat
    BY <1>1, <1>8 DEF Series
  <1>16. FoundHolds(found, times, valid, n)
    BY <1>10, <1>15, SegmentsListed
  <1>17. PICK first, last : SegmentsOf(found, times, valid, first, last, n)
    BY <1>16 DEF FoundHolds
  <1>18. S \subseteq 1..n /\ E \subseteq 1..n
    BY <1>10 DEF Starts, Ends
  <1>19. found \in Seq(AnySegment) /\ m \in Nat
    BY <1>16 DEF FoundHolds
  <1>20. SameLists(first, m, firsts, l) /\ SameLists(last, m, lasts, l)
    <2>1. UpTo(S, n) = S /\ UpTo(E, n) = E
      BY <1>18 DEF UpTo
    <2>2. Lists(first, m, S) /\ Lists(last, m, E)
      BY <1>17, <2>1 DEF SegmentsOf
    <2>3. S \subseteq Int /\ E \subseteq Int /\ l \in Nat
      BY <1>4, <1>9, <1>18
    <2>4. Lists(firsts, l, S) /\ Lists(lasts, l, E)
      BY <1>4, <1>13
    <2> HIDE DEF S, E, m
    <2> QED
      BY <1>19, <2>2, <2>3, <2>4, ListsAgree
  <1>21. m = l /\ \A k \in 1..l : first[k] = o[k - 1] + 1 /\ last[k] = o[k]
    <2> HIDE DEF m
    <2> QED
      BY <1>14, <1>20 DEF SameLists
  <1>22. \A k \in 1..l : s[k] = Segment(times, o[k - 1] + 1, o[k])
    <2> SUFFICES ASSUME NEW k \in 1..l PROVE s[k] = Segment(times, o[k - 1] + 1, o[k])
      OBVIOUS
    <2>1. s[k] \in AnySegment
      BY <1>1 DEF l
    <2>2. s[k] = [from |-> s[k].from, to |-> s[k].to, rows |-> s[k].rows] /\ s[k].rows \in Int
      BY <2>1 DEF AnySegment
    <2>3. k - 1 \in 0..l
      BY <1>4, <1>9
    <2>4. o[k] - (o[k - 1] + 1) + 1 = s[k].rows
      BY <1>9, <2>2, <2>3
    <2> QED
      BY <1>9, <2>2, <2>4 DEF Segment
  <1>23. found = [k \in 1..l |-> Segment(times, o[k - 1] + 1, o[k])]
    <2>1. found = [k \in 1..m |-> Segment(times, first[k], last[k])]
      BY <1>17 DEF SegmentsOf
    <2> HIDE DEF found, m
    <2> QED
      BY <1>21, <2>1
  <1>24. s = [k \in 1..l |-> s[k]]
    BY <1>1 DEF l
  <1>25. found = s
    <2> HIDE DEF found
    <2> QED
      BY <1>22, <1>23, <1>24
  <1>26. \A i \in 1..(n - 1) : times[i] < times[i + 1]
    <2>1. \A i \in 1..(n - 1) : i \in 1..n /\ i + 1 \in 1..n /\ i < i + 1
      BY <1>1
    <2> QED
      BY <1>8, <1>10, <2>1 DEF Series
  <1>27. /\ times \in [1..n -> 0..Window] /\ (\A i \in 1..(n - 1) : times[i] < times[i + 1])
         /\ Gaps(times) = g /\ Segments(times, [i \in 1..n |-> TRUE]) = s
    BY <1>9, <1>12, <1>25, <1>26 DEF valid
  <1> QED
    BY <1>27 DEF n, g, s

-----------------------------------------------------------------------------
(* Coverage: the way of a report.                                          *)

\* What is printed of a source is what analyze makes of it, and what is answered
\* has passed the checks.
WayInv ==
  /\ stage \in {"read", "printed", "accepted", "answered"}
  /\ streams \in Exports \/ (streams = NoStreams /\ printed \in {{f} : f \in Forgeries})
  /\ stage = "read" => streams \in Exports /\ printed = UNKNOWN
  /\ FromSource => \A report \in printed : report \in analyze(streams)
  /\ \A report \in printed : report \in CoverageReport
  /\ stage \in {"accepted", "answered"} =>
       /\ \A report \in answer : report \in printed /\ AddsUp(report)
       /\ FromSource => answer = printed

LEMMA WayInit ==
  CoverageInit => WayInv
  <1> SUFFICES ASSUME CoverageInit PROVE WayInv
    OBVIOUS
  <1>1. CASE stage = "read" /\ streams \in Exports /\ printed = UNKNOWN
    BY <1>1 DEF WayInv, UNKNOWN
  <1>2. CASE stage = "printed" /\ streams = NoStreams /\ printed \in {{f} : f \in Forgeries}
    <2>1. \A f \in Forgeries : f \in CoverageReport
      BY CoverageAssumption
    <2> QED
      BY <1>2, <2>1 DEF WayInv, FromSource
  <1> QED
    BY <1>1, <1>2 DEF CoverageInit

\* The checks keep of a set of reports those that add up.
LEMMA Passed ==
  ASSUME NEW reports
  PROVE  UNION {_project(r) : r \in reports} = {r \in reports : AddsUp(r)}
  <1>1. \A r \in reports : \A x : x \in _project(r) <=> x = r /\ AddsUp(r)
    <2> SUFFICES ASSUME NEW r \in reports, NEW x
                 PROVE  x \in _project(r) <=> x = r /\ AddsUp(r)
      OBVIOUS
    <2>1. _project(r) = IF AddsUp(r) THEN {r} ELSE {}
      BY Projects
    <2> DEFINE kept == _project(r)
    <2> HIDE DEF kept
    <2>2. CASE AddsUp(r)
      <3>1. kept = {r}
        BY <2>1, <2>2 DEF kept
      <3> QED
        BY <2>2, <3>1 DEF kept
    <2>3. CASE ~AddsUp(r)
      <3>1. kept = {}
        BY <2>1, <2>3 DEF kept
      <3> QED
        BY <2>3, <3>1 DEF kept
    <2> QED
      BY <2>2, <2>3
  <1> DEFINE all == UNION {_project(r) : r \in reports}
             good == {r \in reports : AddsUp(r)}
  <1>2. \A x : x \in all <=> \E r \in reports : x \in _project(r)
    BY Zenon
  <1>3. \A x : x \in good <=> x \in reports /\ AddsUp(x)
    BY Zenon
  <1>4. \A x : x \in all <=> x \in good
    <2> SUFFICES ASSUME NEW x PROVE x \in all <=> x \in good
      OBVIOUS
    <2>1. ASSUME x \in all PROVE x \in good
      <3>1. PICK r \in reports : x \in _project(r)
        BY <1>2, <2>1, Zenon
      <3>2. x = r /\ AddsUp(r)
        BY <1>1, <3>1, Zenon
      <3>3. x \in reports /\ AddsUp(x)
        BY <3>2
      <3> QED
        BY <1>3, <3>3, Zenon
    <2>2. ASSUME x \in good PROVE x \in all
      <3>1. x \in reports /\ AddsUp(x)
        BY <1>3, <2>2, Zenon
      <3>2. x \in _project(x)
        BY <1>1, <3>1, Zenon
      <3> QED
        BY <1>2, <3>1, <3>2, Zenon
    <2> QED
      BY <2>1, <2>2
  <1> HIDE DEF all, good
  <1>5. all = good
    BY <1>4
  <1> QED
    BY <1>5 DEF all, good

LEMMA WayNext ==
  WayInv /\ [CoverageNext]_cvars => WayInv'
  <1> SUFFICES ASSUME WayInv, [CoverageNext]_cvars PROVE WayInv'
    OBVIOUS
  <1>1. CASE read_local
    <2>1. /\ streams \in Exports /\ streams' = streams /\ printed' = analyze(streams)
          /\ stage' = "printed"
      BY <1>1 DEF read_local, WayInv
    <2>2. \A report \in analyze(streams) : report \in CoverageReport
      BY <2>1, SourceReport
    <2> QED
      BY <2>1, <2>2 DEF WayInv
  <1>2. CASE Accept
    <2>1. /\ stage = "printed" /\ stage' = "accepted" /\ streams' = streams /\ printed' = printed
          /\ answer' = UNION {_project(report) : report \in printed}
      BY <1>2 DEF Accept
    <2>2. answer' = {report \in printed : AddsUp(report)}
      BY <2>1, Passed, Zenon
    <2>3. FromSource => \A report \in printed : AddsUp(report)
      <3> SUFFICES ASSUME FromSource, NEW report \in printed PROVE AddsUp(report)
        OBVIOUS
      <3>1. streams \in Exports /\ report \in analyze(streams)
        BY DEF WayInv, FromSource
      <3> QED
        BY <3>1, SourceAddsUp
    <2>4. FromSource => answer' = printed
      BY <2>2, <2>3
    <2> QED
      BY <2>1, <2>2, <2>4 DEF WayInv, FromSource
  <1>3. CASE sanitize_result
    <2>1. /\ stage = "accepted" /\ stage' = "answered" /\ streams' = streams
          /\ printed' = printed /\ answer' = UNION {_project(report) : report \in answer}
      BY <1>3 DEF sanitize_result
    <2>2. answer' = {report \in answer : AddsUp(report)}
      BY <2>1, Passed, Zenon
    <2>3. answer' = answer
      BY <2>1, <2>2 DEF WayInv
    <2> QED
      BY <2>1, <2>3 DEF WayInv, FromSource
  <1>4. CASE UNCHANGED cvars
    BY <1>4 DEF WayInv, cvars, FromSource
  <1> QED
    BY <1>1, <1>2, <1>3, <1>4 DEF CoverageNext

THEOREM CoverageInvariant == CoverageSpec => []WayInv
  <1> QED
    BY WayInit, WayNext, PTL DEF CoverageSpec

\* A report of the source says exactly what its samples cover, and its rows are
\* each of one collection.
THEOREM ReportSound == CoverageSpec => []ReportIsSound
  <1>1. WayInv => ReportIsSound
    <2> SUFFICES ASSUME WayInv, FromSource, NEW report \in printed
                 PROVE  /\ ReportIsExact
                        /\ \A i \in DOMAIN Times(streams) : \A n \in Names :
                             streams[n][i].batch = streams["mode_bootstrap"][i].batch
      BY DEF ReportIsSound, RowsAreOneCollection, ReportIsExact
    <2>1. streams \in Exports /\ \A r \in printed : r \in analyze(streams)
      BY DEF WayInv, FromSource
    <2>2. ReportIsExact
      BY <2>1, ReportExact, Zenon DEF ReportIsExact
    <2>3. DOMAIN Times(streams) = 1..Len(Times(streams))
      <3>1. Series(Times(streams))
        BY <2>1, SourceReport
      <3>2. Times(streams) \in Seq(Int)
        BY <3>1 DEF Series
      <3> QED
        BY <3>2
    <2>4. \A i \in DOMAIN Times(streams) : \A n \in Names :
            streams[n][i].batch = streams["mode_bootstrap"][i].batch
      BY <2>1, <2>3, RowsAgree
    <2> QED
      BY <2>2, <2>4
  <1> QED
    BY <1>1, CoverageInvariant, PTL

\* Whatever the reader prints of the source is answered: the checks that do not
\* see the samples never refuse it.
THEOREM SourceAnswered == CoverageSpec => []ReportsAreAnswered
  <1>1. WayInv => ReportsAreAnswered
    BY DEF WayInv, ReportsAreAnswered
  <1> QED
    BY <1>1, CoverageInvariant, PTL

\* A report without invalid rows that is answered is the report of some samples.
THEOREM AnswerPossible == CoverageSpec => []AnsweredIsPossible
  <1>1. WayInv => AnsweredIsPossible
    <2> SUFFICES ASSUME WayInv, stage = "answered", NEW report \in answer, report.invalid = 0
                 PROVE  \E times \in [1..report.rows -> 0..Window] :
                          /\ \A i \in 1..(report.rows - 1) : times[i] < times[i + 1]
                          /\ Gaps(times) = report.gaps
                          /\ Segments(times, [i \in 1..report.rows |-> TRUE]) = report.segments
      BY DEF AnsweredIsPossible
    <2>1. report \in CoverageReport /\ AddsUp(report)
      BY DEF WayInv
    <2> QED
      BY <2>1, ReportIsPossible
  <1> QED
    BY <1>1, CoverageInvariant, PTL

=============================================================================
