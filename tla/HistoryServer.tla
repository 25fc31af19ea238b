--------------------------- MODULE HistoryServer ---------------------------
(***************************************************************************)
(* The manual history server of the HomeLab Control Center experiment:     *)
(* v06_b3b2b_manual_http.py on the bounded listener of v06_b3b_mock_http.  *)
(* Each connection gets a thread while there are slots; one request at a   *)
(* time, the holder of history_lock, reads the source through a child      *)
(* process of its own, watched by read_b2_with_peer for the loss of the    *)
(* client, a deadline, and the size of what the child prints.              *)
(***************************************************************************)
EXTENDS Naturals, FiniteSets

CONSTANTS
  Requests,     \* the connections, one request each (Connection: close)
  Senders,      \* those whose clients send something
  MAX_HANDLERS, \* threads at a time
  MAX_BLOCKS,   \* MAX_STDOUT_BYTES in blocks of READ_BLOCK_BYTES
  NoOne         \* history_lock is free

ASSUME HistoryAssumption ==
  /\ IsFiniteSet(Requests) /\ Senders \subseteq Requests
  /\ NoOne \notin Requests
  /\ MAX_HANDLERS \in Nat \ {0}
  /\ MAX_BLOCKS \in Nat \ {0}

VARIABLES
  up,      \* the process runs
  slots,   \* request_slots: threads that may still start
  lock,    \* history_lock: its holder
  pc,      \* where the thread of a request is
  lost,    \* the client has closed its end, or its sending half
  sent,    \* what the client has sent
  child,   \* the child process of a request
  pipe,    \* blocks in the child's stdout
  got,     \* blocks read from it
  doc,     \* the document to answer
  reply,   \* what was written to the client
  reads    \* history: blocks read after the client had gone

client == <<lost, sent>>
work == <<child, pipe, got, doc, reads>>
hvars == <<up, slots, lock, pc, lost, sent, child, pipe, got, doc, reply, reads>>

\* Holding history_lock, before and while there is a child, and after it.
Watching == {"select", "ready", "read", "wait", "project", "kill"}
Holding == {"locked", "spawn", "answer", "write", "unlock"} \cup Watching
Threads == {"reading", "lock", "release"} \cup Holding

Live(r) == pc[r] \in Threads

HistoryInit ==
  /\ up = TRUE
  /\ slots = MAX_HANDLERS
  /\ lock = NoOne
  /\ pc = [r \in Requests |-> "queued"]
  /\ lost = [r \in Requests |-> FALSE]
  /\ sent = [r \in Requests |-> "nothing"]
  /\ child = [r \in Requests |-> "none"]
  /\ pipe = [r \in Requests |-> 0]
  /\ got = [r \in Requests |-> 0]
  /\ doc = [r \in Requests |-> "none"]
  /\ reply = [r \in Requests |-> "none"]
  /\ reads = [r \in Requests |-> 0]

Goto(r, label) == pc' = [pc EXCEPT ![r] = label]
Reply(r, what) == reply' = [reply EXCEPT ![r] = what]

\* Mutant: POLLRDHUP is not asked for, and POLLHUP alone waits for both ends.
disconnected_NoRdHup(r) == FALSE

disconnected(r) == lost[r]

\* The child has not ended; it may have closed its stdout.
Running(r) == child[r] \in {"running", "silent"}

\* Connections are closed, and what their threads had goes with them.
Forget(gone) ==
  LET Clear(f, none) == [r \in Requests |-> IF r \in gone THEN none ELSE f[r]] IN
  /\ lost' = Clear(lost, FALSE)
  /\ sent' = Clear(sent, "nothing")
  /\ child' = [r \in Requests |-> IF r \in gone /\ ~Running(r) THEN "none" ELSE child[r]]
  /\ pipe' = Clear(pipe, 0)
  /\ got' = Clear(got, 0)
  /\ doc' = Clear(doc, "none")
  /\ reply' = Clear(reply, "none")
  /\ reads' = Clear(reads, 0)

-----------------------------------------------------------------------------
(* The client: it may send a request or rubbish, and go.                   *)

Send(r) ==
  /\ r \in Senders
  /\ pc[r] = "reading" /\ ~lost[r] /\ sent[r] = "nothing"
  /\ \E what \in {"good", "bad"} : sent' = [sent EXCEPT ![r] = what]
  /\ UNCHANGED <<up, slots, lock, pc, lost, work, reply>>

\* It goes before something that can notice.
Leave(r) ==
  /\ ~lost[r]
  /\ \/ pc[r] = "reading" /\ sent[r] = "nothing"
     \/ pc[r] \in {"locked", "spawn", "answer"} \cup (Watching \ {"kill"})
  /\ lost' = [lost EXCEPT ![r] = TRUE]
  /\ UNCHANGED <<up, slots, lock, pc, sent, work, reply>>

-----------------------------------------------------------------------------
(* The listener: BoundedServer.process_request, at any time.               *)

Admit(r) ==
  /\ pc[r] = "queued" /\ slots > 0
  /\ slots' = slots - 1
  /\ Goto(r, "reading")
  /\ UNCHANGED <<up, lock, client, work, reply>>

\* Mutant: its slot is not given back.
AdmitFails_KeepsSlot(r) ==
  /\ pc[r] = "queued" /\ slots > 0
  /\ slots' = slots - 1
  /\ Goto(r, "done")
  /\ Forget({r})
  /\ UNCHANGED <<up, lock>>

\* No thread could be started: the slot is given back.
AdmitFails(r) ==
  /\ pc[r] = "queued" /\ slots > 0
  /\ Goto(r, "done")
  /\ Forget({r})
  /\ UNCHANGED <<up, slots, lock>>

Overload(r) ==
  /\ pc[r] = "queued" /\ slots = 0
  /\ Goto(r, "done")
  /\ Forget({r})
  /\ UNCHANGED <<up, slots, lock>>

-----------------------------------------------------------------------------
(* HistoryHandler.do_GET, up to the read.                                  *)

\* The request line has no timeout: only the client ends the wait for it.
validate_request(r) ==
  /\ pc[r] = "reading"
  /\ \/ sent[r] = "good" /\ Goto(r, "lock") /\ UNCHANGED reply
     \/ sent[r] = "bad" /\ Goto(r, "release") /\ Reply(r, "403")
     \/ sent[r] = "nothing" /\ disconnected(r) /\ Goto(r, "release") /\ UNCHANGED reply
  /\ UNCHANGED <<up, slots, lock, client, work>>

TryLock(r) ==
  /\ pc[r] = "lock" /\ lock = NoOne
  /\ lock' = r
  /\ Goto(r, "locked")
  /\ UNCHANGED <<up, slots, client, work, reply>>

Busy(r) ==
  /\ pc[r] = "lock" /\ lock # NoOne
  /\ Goto(r, "release") /\ Reply(r, "503")
  /\ UNCHANGED <<up, slots, lock, client, work>>

NoAnswerFrom(r) == doc' = [doc EXCEPT ![r] = "unknown"]

\* do_GET asks, and read_b2_with_peer once more, before there is a child.
AskPeer(r) ==
  /\ pc[r] = "locked"
  /\ Goto(r, IF disconnected(r) THEN "unlock" ELSE "spawn")
  /\ UNCHANGED <<up, slots, lock, client, work, reply>>

Spawn(r) ==
  /\ pc[r] = "spawn"
  /\ child' = [child EXCEPT ![r] = "running"]
  /\ Goto(r, "select")
  /\ UNCHANGED <<up, slots, lock, client, pipe, got, doc, reply, reads>>

SpawnFails(r) ==
  /\ pc[r] = "spawn"
  /\ Goto(r, "answer") /\ NoAnswerFrom(r)
  /\ UNCHANGED <<up, slots, lock, client, child, pipe, got, reply, reads>>

-----------------------------------------------------------------------------
(* The read: read_b2_with_peer once the child is there.                    *)

Step(r, from, to) ==
  /\ pc[r] = from
  /\ Goto(r, to)
  /\ UNCHANGED <<up, slots, lock, client, work, reply>>

\* What select waits for: a block, or the end of the child's stdout.
Readable(r) == pipe[r] > 0 \/ child[r] # "running"

\* A deadline may have passed at any check of it, so giving up is always
\* possible there, and necessary when the client has gone.
Select(r) == ~disconnected(r) /\ Readable(r) /\ Step(r, "select", "ready")
SelectGivesUp(r) == Step(r, "select", "kill")

\* Asked again: bytes at hand do not come before a client that went.
Ready(r) == ~disconnected(r) /\ Step(r, "ready", "read")
ReadyGivesUp(r) == disconnected(r) /\ Step(r, "ready", "kill")

ReadBlock(r) ==
  /\ pc[r] = "read" /\ pipe[r] > 0 /\ got[r] < MAX_BLOCKS
  /\ pipe' = [pipe EXCEPT ![r] = 0]
  /\ got' = [got EXCEPT ![r] = @ + 1]
  /\ reads' = [reads EXCEPT ![r] = IF lost[r] THEN @ + 1 ELSE @]
  /\ Goto(r, "select")
  /\ UNCHANGED <<up, slots, lock, client, child, doc, reply>>

ReadTooMuch(r) == pipe[r] > 0 /\ got[r] = MAX_BLOCKS /\ Step(r, "read", "kill")

\* The end of stdout: the client and the deadline once more.
ReadEnd(r) == pipe[r] = 0 /\ ~disconnected(r) /\ Step(r, "read", "wait")
ReadEndGivesUp(r) == pipe[r] = 0 /\ Step(r, "read", "kill")

\* Mutant: the exit status is not looked at.
Exited_AnyStatus(r) == ~Running(r) /\ Step(r, "wait", "project")

Exited(r) == child[r] = "exited" /\ Step(r, "wait", "project")
ExitedBadly(r) == child[r] = "failed" /\ Step(r, "wait", "kill")

\* Mutant: after its output the child may take its time.
WaitGivesUp_NoDeadline(r) == Running(r) /\ disconnected(r) /\ Step(r, "wait", "kill")

WaitGivesUp(r) == Running(r) /\ Step(r, "wait", "kill")

\* _project accepts a report, which has at least a block, or raises.
Project(r) ==
  /\ pc[r] = "project" /\ got[r] > 0 /\ ~disconnected(r)
  /\ Goto(r, "answer")
  /\ doc' = [doc EXCEPT ![r] = "evidence"]
  /\ UNCHANGED <<up, slots, lock, client, child, pipe, got, reply, reads>>

ProjectRaises(r) == Step(r, "project", "kill")

\* Mutant: the group is killed only when the client has gone.
TerminateGroup_LostOnly(r) ==
  /\ pc[r] = "kill"
  /\ child' = [child EXCEPT ![r] = IF Running(r) /\ lost[r] THEN "killed" ELSE @]
  /\ Goto(r, "answer") /\ NoAnswerFrom(r)
  /\ UNCHANGED <<up, slots, lock, client, pipe, got, reply, reads>>

\* SIGKILL to the group; whether the wait of a second sees its end is ignored.
TerminateGroup(r) ==
  /\ pc[r] = "kill"
  /\ child' = [child EXCEPT ![r] = IF Running(r) THEN "killed" ELSE @]
  /\ Goto(r, "answer") /\ NoAnswerFrom(r)
  /\ UNCHANGED <<up, slots, lock, client, pipe, got, reply, reads>>

-----------------------------------------------------------------------------
(* The answer, and the two finally clauses.                                *)

\* sanitize_result leaves an accepted report as it is.
Answer(r) ==
  /\ pc[r] = "answer"
  /\ Goto(r, IF disconnected(r) THEN "unlock" ELSE "write")
  /\ UNCHANGED <<up, slots, lock, client, work, reply>>

Write(r) ==
  /\ pc[r] = "write"
  /\ Goto(r, "unlock") /\ Reply(r, doc[r])
  /\ UNCHANGED <<up, slots, lock, client, work>>

\* OSError: the client has gone or lets the two seconds pass.
WriteFails(r) == Step(r, "write", "unlock")

Unlock(r) ==
  /\ pc[r] = "unlock"
  /\ lock' = NoOne
  /\ Goto(r, "release")
  /\ UNCHANGED <<up, slots, client, work, reply>>

Release(r) ==
  /\ pc[r] = "release"
  /\ slots' = slots + 1
  /\ Goto(r, "done")
  /\ Forget({r})
  /\ UNCHANGED <<up, lock>>

-----------------------------------------------------------------------------
(* What no thread decides: the child and Ctrl+C.                           *)

Emit(r) ==
  /\ up /\ child[r] = "running" /\ pipe[r] = 0
  /\ pipe' = [pipe EXCEPT ![r] = 1]
  /\ UNCHANGED <<up, slots, lock, pc, client, child, got, doc, reply, reads>>

\* It closes its stdout and stays, or it ends.
EndOfChild(r) ==
  /\ Running(r)
  /\ \E how \in {"silent", "exited", "failed"} :
       /\ how # child[r]
       /\ child' = [child EXCEPT ![r] = how]
  /\ UNCHANGED <<up, slots, lock, pc, client, pipe, got, doc, reply, reads>>

\* serve_forever ends, server_close waits for no thread (block_on_close is
\* off, the threads are daemons), and the process goes.  The child, in a
\* session of its own, does not.
Interrupt ==
  /\ up
  /\ up' = FALSE
  /\ pc' = [r \in Requests |-> "gone"]
  /\ Forget(Requests)
  /\ UNCHANGED <<slots, lock>>

ServerStep(r) ==
  \/ Admit(r) \/ AdmitFails(r) \/ Overload(r)
  \/ validate_request(r) \/ TryLock(r) \/ Busy(r)
  \/ AskPeer(r) \/ Spawn(r) \/ SpawnFails(r)
  \/ Select(r) \/ SelectGivesUp(r) \/ Ready(r) \/ ReadyGivesUp(r)
  \/ ReadBlock(r) \/ ReadTooMuch(r) \/ ReadEnd(r) \/ ReadEndGivesUp(r)
  \/ Exited(r) \/ ExitedBadly(r) \/ WaitGivesUp(r)
  \/ Project(r) \/ ProjectRaises(r)
  \/ TerminateGroup(r)
  \/ Answer(r) \/ Write(r) \/ WriteFails(r) \/ Unlock(r) \/ Release(r)

OtherStep(r) ==
  \/ Send(r) \/ Leave(r)
  \/ Emit(r) \/ EndOfChild(r)

HistoryNext == Interrupt \/ \E r \in Requests : ServerStep(r) \/ OtherStep(r)

\* Threads are scheduled and deadlines pass; a client or a child need not do
\* anything, and nothing is asked of the connections that send nothing.
HistoryFairness == \A r \in Senders : WF_hvars(ServerStep(r))

HistorySpec == HistoryInit /\ [][HistoryNext]_hvars /\ HistoryFairness

-----------------------------------------------------------------------------
HistoryTypeOK ==
  /\ up \in BOOLEAN
  /\ slots \in 0..MAX_HANDLERS
  /\ lock \in Requests \cup {NoOne}
  /\ pc \in [Requests -> Threads \cup {"queued", "done", "gone"}]
  /\ lost \in [Requests -> BOOLEAN]
  /\ sent \in [Requests -> {"nothing", "good", "bad"}]
  /\ child \in [Requests -> {"none", "running", "silent", "exited", "failed", "killed"}]
  /\ pipe \in [Requests -> 0..1]
  /\ got \in [Requests -> 0..MAX_BLOCKS]
  /\ doc \in [Requests -> {"none", "unknown", "evidence"}]
  /\ reply \in [Requests -> {"none", "403", "503", "unknown", "evidence"}]
  /\ reads \in [Requests -> Nat]

\* Every thread has one slot and every slot is free or has one thread: none
\* is lost on an early return, none given back twice (ValueError).
SlotsAccounted ==
  up => slots + Cardinality({r \in Requests : Live(r)}) = MAX_HANDLERS

\* While the server runs, a child that has not ended and was not killed is
\* the one child of the holder of history_lock, and its thread watches it.
OnlyTheHolderReads ==
  up => \A r \in Requests : Running(r) => lock = r /\ pc[r] \in Watching

\* Evidence is the output, to its end and within the cap, of the request's
\* own child, which exited by itself with status 0.
EvidenceIsWhole ==
  \A r \in Requests :
    doc[r] = "evidence" \/ reply[r] = "evidence" =>
      child[r] = "exited" /\ pipe[r] = 0 /\ got[r] \in 1..MAX_BLOCKS

\* After its client went, even by closing only one half, a read takes at most
\* the block it had already turned to.
LossEndsTheRead == \A r \in Requests : reads[r] <= 1

\* A request that was sent ends, though its child may print for ever, close
\* its stdout and stay, or its client may stop reading.
EveryRequestEnds ==
  \A r \in Senders : sent[r] # "nothing" ~> pc[r] \in {"done", "gone"}

\* Of the documentation: "The supervisor independently bounds child lifetime
\* to a provisional 12 seconds".  A child is bounded by the thread that
\* watches it.
ChildIsBounded == \A r \in Requests : Running(r) => pc[r] \in Watching

=============================================================================
