----------------------------- MODULE Collector -----------------------------
(***************************************************************************)
(* monitoring/pihole-dns-collector.py: a timer runs it every minute.  A    *)
(* run first ends a batch that an earlier run left in the journal, then    *)
(* reads the new queries page by page from Pi-hole's database on disk and  *)
(* from its memory, writes them to a prepared file, notes the batch in the *)
(* journal, appends it to queries.ndjson and advances the checkpoint.  The *)
(* process may end anywhere, by a kill, an I/O error or the loss of power. *)
(*                                                                         *)
(* The line of query i is the two bytes 2i - 1 and 2i, so that a file can  *)
(* end in half a line; a digest is the bytes themselves.                   *)
(***************************************************************************)
EXTENDS Naturals, Sequences, FiniteSetsExt

CONSTANTS
  MaxQueries, \* bound: queries Pi-hole answers in one behaviour
  PageSize,   \* PIHOLE_PAGE_SIZE
  MaxPages    \* PIHOLE_MAX_PAGES

ASSUME CollectorAssumption ==
  /\ MaxQueries \in Nat
  /\ PageSize \in Nat \ {0}
  /\ MaxPages \in Nat \ {0}

VARIABLES
  answered, \* Pi-hole's memory holds the queries kept..answered ...
  kept,
  flushed,  \* ... and its database on disk 1..flushed
  last_id,  \* the checkpoint in the state database
  journal,  \* prepared_start, _len, _sha256 and _max_id, or NoBatch
  pending,  \* the table of that name
  prepared, \* prepared.ndjson, or NoFile
  output,   \* queries.ndjson
  run       \* the state of the process

pihole == <<answered, kept, flushed>>
db     == <<last_id, journal, pending>>
cvars  == <<pihole, db, prepared, output, run>>

NoFile  == <<0>>
NoBatch == [start |-> 0, data |-> <<>>, max |-> 0]

\* The bytes of a set of queries, ORDER BY id ASC: the nth line is the one of the
\* query with n ids up to its own.
NthId(ids, n) == CHOOSE id \in ids : Cardinality({k \in ids : k <= id}) = n

Bytes(ids) == [j \in 1..(2 * Cardinality(ids)) |->
                 IF j % 2 = 1 THEN 2 * NthId(ids, (j + 1) \div 2) - 1
                              ELSE 2 * NthId(ids, j \div 2)]

\* disk is the source being read, head its frozen cursor; recovering tells the
\* two callers of append_prepared apart.
Stopped == [pc |-> "stopped", disk |-> TRUE, head |-> 0, start |-> 0, pages |-> 0,
            copied |-> 0, recovering |-> FALSE]

On(label) == run.pc = label

Goto(label) == run' = [run EXCEPT !.pc = label]

Fail == run' = Stopped /\ UNCHANGED <<pihole, db, prepared, output>>

CollectorInit ==
  /\ answered = 0 /\ kept = 1 /\ flushed = 0
  /\ last_id = 0 /\ journal = NoBatch /\ pending = {}
  /\ prepared = NoFile /\ output = <<>>
  /\ run = Stopped

-----------------------------------------------------------------------------
(* A run.                                                                  *)

Begin ==
  /\ On("stopped")
  /\ Goto("recover")
  /\ UNCHANGED <<pihole, db, prepared, output>>

\* A prepared file without a journal entry is a leftover.
recover_prepared ==
  /\ On("recover")
  /\ IF journal = NoBatch
       THEN Goto("fresh") /\ prepared' = NoFile
       ELSE run' = [run EXCEPT !.pc = "append", !.recovering = TRUE] /\ UNCHANGED prepared
  /\ UNCHANGED <<pihole, db, output>>

ClearPending ==
  /\ On("fresh")
  /\ pending' = {}
  /\ run' = [Stopped EXCEPT !.pc = "head"]
  /\ UNCHANGED <<pihole, last_id, journal, prepared, output>>

Newest(disk) == IF disk THEN flushed ELSE answered
Oldest(disk) == IF disk THEN 1 ELSE kept

\* Mutant: what Pi-hole has not written to disk yet is left for later.
NextSource_DiskOnly == [run EXCEPT !.pc = "prepare"]

NextSource == IF run.disk THEN [run EXCEPT !.pc = "head", !.disk = FALSE]
                          ELSE [run EXCEPT !.pc = "prepare"]

\* collect_source: the newest query of the source becomes its cursor.
FreezeHead ==
  /\ On("head")
  /\ run' = IF Newest(run.disk) > last_id /\ Newest(run.disk) >= Oldest(run.disk)
              THEN [run EXCEPT !.pc = "page", !.head = Newest(run.disk), !.start = 0,
                               !.pages = 0]
              ELSE NextSource
  /\ UNCHANGED <<pihole, db, prepared, output>>

\* A page runs from the newest to the oldest query not yet seen.
Rows == {i \in Oldest(run.disk)..(run.head - run.start) : i > run.head - run.start - PageSize}

collect_source ==
  /\ On("page") /\ run.pages < MaxPages
  /\ pending' = pending \cup {i \in Rows : i > last_id}
  /\ run' = IF Cardinality(Rows) < PageSize \/ (\E i \in Rows : i <= last_id)
              THEN NextSource
              ELSE [run EXCEPT !.start = @ + PageSize, !.pages = @ + 1]
  /\ UNCHANGED <<pihole, last_id, journal, prepared, output>>

TooManyPages ==
  /\ On("page") /\ run.pages = MaxPages
  /\ Fail

\* The file is written aside, synced and renamed.
prepare_batch ==
  /\ On("prepare")
  /\ IF pending = {}
       THEN run' = Stopped /\ UNCHANGED prepared
       ELSE Goto("journal") /\ prepared' = Bytes(pending)
  /\ UNCHANGED <<pihole, db, output>>

\* Mutant: the checkpoint advances with the journal, before the append.
CommitJournal_Early ==
  /\ On("journal")
  /\ journal' = [start |-> Len(output), data |-> prepared, max |-> Max(pending)]
  /\ last_id' = Max(pending)
  /\ Goto("append")
  /\ UNCHANGED <<pihole, pending, prepared, output>>

CommitJournal ==
  /\ On("journal")
  /\ journal' = [start |-> Len(output), data |-> prepared, max |-> Max(pending)]
  /\ Goto("append")
  /\ UNCHANGED <<pihole, last_id, pending, prepared, output>>

-----------------------------------------------------------------------------
(* append_prepared.                                                        *)

BatchEnd == journal.start + Len(journal.data)

\* Mutant: half a batch is not cut off before it is appended again.
append_prepared_KeepsHalf ==
  /\ On("append") /\ prepared = journal.data
  /\ IF Len(output) = BatchEnd THEN Goto("checkpoint")
                               ELSE run' = [run EXCEPT !.pc = "write", !.copied = 0]
  /\ UNCHANGED <<pihole, db, prepared, output>>

\* The prepared file has to be the one of the journal; where the output ends
\* says how far an earlier run came.  Half a batch is cut off and written again.
append_prepared ==
  /\ On("append") /\ prepared = journal.data
  /\ \/ /\ Len(output) = BatchEnd
        /\ SubSeq(output, journal.start + 1, BatchEnd) = journal.data
        /\ Goto("checkpoint")
        /\ UNCHANGED output
     \/ /\ journal.start <= Len(output) /\ Len(output) < BatchEnd
        /\ run' = [run EXCEPT !.pc = "write", !.copied = 0]
        /\ output' = SubSeq(output, 1, journal.start)
  /\ UNCHANGED <<pihole, db, prepared>>

Refused ==
  /\ On("append")
  /\ \/ prepared # journal.data
     \/ Len(output) < journal.start \/ Len(output) > BatchEnd
     \/ /\ Len(output) = BatchEnd
        /\ SubSeq(output, journal.start + 1, BatchEnd) # journal.data
  /\ Fail

\* copyfileobj, a byte at a time.
CopyByte ==
  /\ On("write")
  /\ output' = Append(output, prepared[run.copied + 1])
  /\ IF run.copied + 1 = Len(prepared) THEN Goto("checkpoint")
                                       ELSE run' = [run EXCEPT !.copied = @ + 1]
  /\ UNCHANGED <<pihole, db, prepared>>

Checkpoint ==
  /\ On("checkpoint")
  /\ last_id' = journal.max /\ journal' = NoBatch /\ pending' = {}
  /\ Goto("unlink")
  /\ UNCHANGED <<pihole, prepared, output>>

Unlink ==
  /\ On("unlink")
  /\ prepared' = NoFile
  /\ run' = IF run.recovering THEN [run EXCEPT !.pc = "fresh"] ELSE Stopped
  /\ UNCHANGED <<pihole, db, output>>

-----------------------------------------------------------------------------
(* Around the process.                                                     *)

\* A kill, a failed API call, a full disk: the uncommitted rest is lost.
Aborts ==
  /\ ~On("stopped")
  /\ Fail

\* The directory is not synced: the rename of the prepared file may be undone.
PowerFails ==
  /\ run' = Stopped
  /\ prepared' \in {prepared, NoFile}
  /\ UNCHANGED <<pihole, db, output>>

QueryAnswered ==
  /\ answered < MaxQueries
  /\ answered' = answered + 1
  /\ UNCHANGED <<kept, flushed, db, prepared, output, run>>

Flush ==
  /\ flushed < answered
  /\ flushed' = answered
  /\ UNCHANGED <<answered, kept, db, prepared, output, run>>

\* Memory loses its oldest queries after a day, which a run does not last.
Forget ==
  /\ On("stopped")
  /\ kept <= flushed
  /\ kept' = kept + 1
  /\ UNCHANGED <<answered, flushed, db, prepared, output, run>>
Run ==
  \/ recover_prepared \/ ClearPending \/ FreezeHead \/ collect_source \/ TooManyPages
  \/ prepare_batch \/ CommitJournal \/ append_prepared \/ Refused \/ CopyByte
  \/ Checkpoint \/ Unlink

CollectorNext ==
  \/ Begin \/ Run \/ Aborts \/ PowerFails
  \/ QueryAnswered \/ Flush \/ Forget

CollectorSpec == CollectorInit /\ [][CollectorNext]_cvars

-----------------------------------------------------------------------------
(* Properties.                                                             *)

AllBytes == 1..(2 * MaxQueries)

RunState == [pc : {"stopped", "recover", "fresh", "head", "page", "prepare", "journal",
                   "append", "write", "checkpoint", "unlink"},
             disk : BOOLEAN, head : 0..MaxQueries, start : 0..MaxQueries,
             pages : 0..MaxPages, copied : 0..(2 * MaxQueries), recovering : BOOLEAN]

CollectorTypeOK ==
  /\ answered \in 0..MaxQueries /\ flushed \in 0..MaxQueries
  /\ kept \in 1..(MaxQueries + 1)
  /\ last_id \in 0..MaxQueries /\ pending \subseteq 1..MaxQueries
  /\ journal \in [start : 0..(2 * MaxQueries), data : Seq(AllBytes), max : 0..MaxQueries]
  /\ prepared = NoFile \/ prepared \in Seq(AllBytes)
  /\ output \in Seq(AllBytes)
  /\ run \in RunState

\* queries.ndjson holds, at every moment, the lines of the queries in order, each
\* once and none left out, but for half a line at its end: whatever was cut off
\* and appended again (append_prepared, recover_prepared).
OutputInOrder == \A j \in DOMAIN output : output[j] = j

\* The ids up to the checkpoint that the output really has.
Collected ==
  [i \in 1..last_id |-> IF 2 * i <= Len(output) THEN output[2 * i] \div 2 ELSE 0]

Log == INSTANCE QueryLog WITH known <- answered, log <- Collected

\* The checkpoint advances over a whole batch at once, only when its lines are in
\* the output, and never past a query that is not (Checkpoint after the append).
ImplementsLog == Log!LogSpec

\* What an operator has to put right: the prepared file of a journal entry is lost,
\* or more queries have gathered than a run may read.
Stuck == \/ journal # NoBatch /\ prepared # journal.data
         \/ answered - last_id >= PageSize * MaxPages

\* After the last failure every query is collected, also one that Pi-hole has not
\* yet written to disk, unless the collector fails closed.
CatchesUp == <>[](~Stuck) => <>[](last_id = answered /\ Len(output) = 2 * answered)
=============================================================================
