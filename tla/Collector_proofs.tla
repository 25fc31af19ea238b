-------------------------- MODULE Collector_proofs --------------------------
(***************************************************************************)
(* The proofs about Collector: its types, the order of queries.ndjson and  *)
(* the abstract log it implements, for every number of queries, every page *)
(* size and every limit of pages.                                          *)
(***************************************************************************)
EXTENDS Collector, FiniteSetTheorems, TLAPS

\* The bytes of the queries after a up to m.
Lines(a, m) == [j \in 1..(2 * (m - a)) |-> 2 * a + j]

-----------------------------------------------------------------------------
(* The inductive invariant.                                                *)

\* Pi-hole forgets no query before it is on disk, and none that was collected is
\* still unanswered.
PiholeInv == flushed <= answered /\ kept <= flushed + 1 /\ last_id <= answered

\* Without a journal entry the output ends at the checkpoint.  A journal entry
\* describes the lines after it, and the output ends somewhere in them.
BatchInv ==
  /\ journal = NoBatch => Len(output) = 2 * last_id
  /\ journal # NoBatch =>
       /\ journal.start = 2 * last_id
       /\ last_id < journal.max /\ journal.max <= answered
       /\ journal.data = Lines(last_id, journal.max)
       /\ 2 * last_id <= Len(output) /\ Len(output) <= 2 * journal.max

\* Before a source is read, pending has the queries up to some d without a gap,
\* and the source reaches back to it.
HeadInv ==
  On("head") => \E d \in last_id..answered :
    /\ pending = (last_id + 1)..d
    /\ Oldest(run.disk) <= d + 1

\* While it is read from its newest query down, the gap lies between the two.
PageInv ==
  On("page") =>
    /\ last_id < run.head /\ run.head <= answered
    /\ Oldest(run.disk) <= run.head - run.start + 1
    /\ run.disk => kept <= run.head + 1
    /\ \E d \in last_id..answered :
         /\ pending = (last_id + 1)..d
                        \cup {i \in (run.head - run.start + 1)..run.head : i > last_id}
         /\ Oldest(run.disk) <= d + 1

\* When both are read there is none.
PrepareInv ==
  /\ On("prepare") => \E d \in last_id..answered : pending = (last_id + 1)..d
  /\ On("journal") => \E d \in last_id..answered :
       d > last_id /\ pending = (last_id + 1)..d /\ prepared = Lines(last_id, d)

\* A batch is collected without a journal entry and written with one.
RunInv ==
  /\ run.pc \in {"fresh", "head", "page", "prepare", "journal", "unlink"} => journal = NoBatch
  /\ run.pc \in {"append", "write", "checkpoint"} => journal # NoBatch
  /\ On("write") => /\ prepared = journal.data
                    /\ run.copied < Len(prepared)
                    /\ Len(output) = journal.start + run.copied
  /\ On("checkpoint") => Len(output) = 2 * journal.max

CollectorInv ==
  CollectorTypeOK /\ PiholeInv /\ BatchInv /\ OutputInOrder
    /\ HeadInv /\ PageInv /\ PrepareInv /\ RunInv
-----------------------------------------------------------------------------
(* The operators.                                                          *)

\* An interval of queries has as many of them as its ends say (Rows, Bytes).
LEMMA IntervalSize ==
  ASSUME NEW a \in Nat, NEW b \in Nat
  PROVE  Cardinality((a + 1)..b) = (IF a < b THEN b - a ELSE 0)
  BY FS_Interval

\* Among the queries after a, the nth is a + n (ORDER BY id ASC).
LEMMA NthOfInterval ==
  ASSUME NEW a \in Nat, NEW m \in Nat, NEW n \in 1..(m - a)
  PROVE  NthId((a + 1)..m, n) = a + n
  <1> DEFINE ids == (a + 1)..m
  <1>1. ASSUME NEW id \in ids
        PROVE  Cardinality({k \in ids : k <= id}) = id - a
    <2>1. {k \in ids : k <= id} = (a + 1)..id
      OBVIOUS
    <2>2. id \in Nat /\ a < id
      OBVIOUS
    <2>3. Cardinality((a + 1)..id) = id - a
      BY <2>2, IntervalSize
    <2> QED
      BY <2>1, <2>3, Zenon
  <1>2. /\ a + n \in ids
        /\ \A id \in ids : Cardinality({k \in ids : k <= id}) = n <=> id = a + n
    BY <1>1
  <1> HIDE DEF ids
  <1>3. (CHOOSE id \in ids : Cardinality({k \in ids : k <= id}) = n) = a + n
    BY <1>2
  <1> QED
    BY <1>3 DEF NthId, ids

\* The prepared file of the queries after a up to m has their lines in order.
LEMMA BytesOfInterval ==
  ASSUME NEW a \in Nat, NEW m \in Nat, a <= m
  PROVE  Bytes((a + 1)..m) = Lines(a, m)
  <1> DEFINE ids == (a + 1)..m
  <1>1. Cardinality(ids) = m - a
    BY IntervalSize
  <1>2. ASSUME NEW j \in 1..(2 * (m - a))
        PROVE  (IF j % 2 = 1 THEN 2 * NthId(ids, (j + 1) \div 2) - 1
                             ELSE 2 * NthId(ids, j \div 2)) = 2 * a + j
    <2>1. CASE j % 2 = 1
      <3>1. (j + 1) \div 2 \in 1..(m - a) /\ 2 * ((j + 1) \div 2) = j + 1
        BY <2>1
      <3>2. NthId(ids, (j + 1) \div 2) = a + (j + 1) \div 2
        BY <3>1, NthOfInterval
      <3> QED
        BY <2>1, <3>1, <3>2
    <2>2. CASE j % 2 # 1
      <3>1. j \div 2 \in 1..(m - a) /\ 2 * (j \div 2) = j
        BY <2>2
      <3>2. NthId(ids, j \div 2) = a + j \div 2
        BY <3>1, NthOfInterval
      <3> QED
        BY <2>2, <3>1, <3>2
    <2> QED
      BY <2>1, <2>2
  <1> HIDE DEF ids
  <1>3. Bytes(ids) = Lines(a, m)
    BY <1>1, <1>2 DEF Bytes, Lines
  <1> QED
    BY <1>3 DEF ids

\* The newest query of a batch (SELECT MAX(id)).
LEMMA MaxOfInterval ==
  ASSUME NEW a \in Nat, NEW m \in Nat, a < m
  PROVE  Max((a + 1)..m) = m
  <1>1. m \in (a + 1)..m /\ \A y \in (a + 1)..m : m >= y
    OBVIOUS
  <1>2. \A x \in (a + 1)..m : (\A y \in (a + 1)..m : x >= y) => x = m
    BY <1>1
  <1> QED
    BY <1>1, <1>2 DEF Max

\* A batch is a sequence, its length is even and its bytes are those of the queries.
LEMMA LinesSeq ==
  ASSUME NEW a \in Nat, NEW m \in Nat, a <= m
  PROVE  /\ Lines(a, m) \in Seq(1..(2 * m))
         /\ Len(Lines(a, m)) = 2 * (m - a)
         /\ \A j \in 1..(2 * (m - a)) : Lines(a, m)[j] = 2 * a + j
  BY DEF Lines
-----------------------------------------------------------------------------
(* Every step keeps the invariant.                                         *)

\* The end of a process, expected or not, leaves the files and the database as they
\* are (Fail, Aborts, PowerFails).
LEMMA StopKeepsInv ==
  ASSUME CollectorInv, run' = Stopped, UNCHANGED <<pihole, db, output>>,
         prepared' \in {prepared, NoFile}
  PROVE  CollectorInv'
  <1>1. CollectorTypeOK'
    <2>1. Stopped \in RunState
      BY CollectorAssumption DEF Stopped, RunState
    <2> QED
      BY <2>1 DEF CollectorInv, CollectorTypeOK, pihole, db
  <1>2. PiholeInv' /\ BatchInv' /\ OutputInOrder'
    BY DEF CollectorInv, PiholeInv, BatchInv, OutputInOrder, pihole, db
  <1>3. run'.pc = "stopped"
    BY DEF Stopped
  <1>4. HeadInv' /\ PageInv' /\ PrepareInv' /\ RunInv'
    BY <1>3, Zenon DEF HeadInv, PageInv, PrepareInv, RunInv, On
  <1> QED
    BY <1>1, <1>2, <1>4 DEF CollectorInv

\* A step of the process to another label that leaves everything else alone needs
\* only the facts of that label.
LEMMA GotoKeepsTypes ==
  ASSUME CollectorInv, UNCHANGED <<pihole, db, output>>,
         prepared' = NoFile \/ prepared' \in Seq(AllBytes), run' \in RunState
  PROVE  CollectorTypeOK' /\ PiholeInv' /\ BatchInv' /\ OutputInOrder'
  BY DEF CollectorInv, CollectorTypeOK, PiholeInv, BatchInv, OutputInOrder, pihole, db

LEMMA BeginKeepsInv ==
  ASSUME CollectorInv, Begin
  PROVE  CollectorInv'
  <1>1. run' \in RunState /\ run'.pc = "recover"
    BY DEF CollectorInv, CollectorTypeOK, Begin, Goto, RunState
  <1>2. CollectorTypeOK' /\ PiholeInv' /\ BatchInv' /\ OutputInOrder'
    BY <1>1, GotoKeepsTypes DEF Begin, CollectorInv, CollectorTypeOK
  <1>3. HeadInv' /\ PageInv' /\ PrepareInv' /\ RunInv'
    BY <1>1, Zenon DEF HeadInv, PageInv, PrepareInv, RunInv, On
  <1> QED
    BY <1>2, <1>3 DEF CollectorInv

LEMMA RecoverKeepsInv ==
  ASSUME CollectorInv, recover_prepared
  PROVE  CollectorInv'
  <1>1. /\ run' \in RunState
        /\ run'.pc = IF journal = NoBatch THEN "fresh" ELSE "append"
        /\ prepared' = NoFile \/ prepared' = prepared
        /\ UNCHANGED <<pihole, db, output>>
    BY DEF CollectorInv, CollectorTypeOK, recover_prepared, Goto, RunState
  <1>2. CollectorTypeOK' /\ PiholeInv' /\ BatchInv' /\ OutputInOrder'
    BY <1>1, GotoKeepsTypes DEF CollectorInv, CollectorTypeOK
  <1>3. HeadInv' /\ PageInv' /\ PrepareInv'
    BY <1>1 DEF HeadInv, PageInv, PrepareInv, On
  <1>4. RunInv'
    BY <1>1 DEF RunInv, On, db
  <1> QED
    BY <1>2, <1>3, <1>4 DEF CollectorInv

LEMMA ClearPendingKeepsInv ==
  ASSUME CollectorInv, ClearPending
  PROVE  CollectorInv'
  <1>1. /\ run' \in RunState /\ run'.pc = "head" /\ run'.disk
        /\ journal' = NoBatch /\ pending' = {}
        /\ UNCHANGED <<pihole, last_id, journal, prepared, output>>
    <2>1. journal = NoBatch /\ UNCHANGED journal
      BY DEF CollectorInv, RunInv, ClearPending, On
    <2>2. Stopped \in RunState /\ Stopped.disk
      BY CollectorAssumption DEF Stopped, RunState
    <2>3. run' \in RunState /\ run'.pc = "head" /\ run'.disk
      BY <2>2 DEF ClearPending, RunState
    <2> QED
      BY <2>1, <2>3 DEF ClearPending
  <1>2. CollectorTypeOK' /\ PiholeInv' /\ BatchInv' /\ OutputInOrder'
    BY <1>1 DEF CollectorInv, CollectorTypeOK, PiholeInv, BatchInv, OutputInOrder, pihole
  <1>3. HeadInv'
    <2>1. last_id' \in Nat /\ answered' \in Nat /\ last_id' <= answered'
      BY <1>1 DEF CollectorInv, CollectorTypeOK, PiholeInv, pihole
    <2>2. last_id' \in last_id'..answered' /\ pending' = (last_id' + 1)..last_id'
      BY <1>1, <2>1
    <2>3. Oldest(run.disk)' = 1
      BY <1>1, Zenon DEF Oldest
    <2> QED
      BY <2>1, <2>2, <2>3 DEF HeadInv
  <1>4. PageInv' /\ PrepareInv' /\ RunInv'
    BY <1>1 DEF PageInv, PrepareInv, RunInv, On
  <1> QED
    BY <1>2, <1>3, <1>4 DEF CollectorInv

-----------------------------------------------------------------------------
(* The two sources.                                                        *)

\* Once a source is read pending has no gap, and what is read next reaches back to
\* it: after the disk that is memory, which kept all that the disk had not.
LEMMA NextSourceKeepsInv ==
  ASSUME CollectorInv, run' = NextSource, journal = NoBatch,
         UNCHANGED <<pihole, last_id, journal, prepared, output>>,
         NEW d \in last_id..answered, pending' = (last_id + 1)..d,
         run.disk => kept <= d + 1
  PROVE  CollectorInv'
  <1>1. /\ answered \in Nat /\ last_id \in Nat /\ answered <= MaxQueries
        /\ last_id' = last_id /\ answered' = answered /\ kept' = kept
        /\ last_id <= d /\ d <= answered /\ MaxQueries \in Nat
    BY CollectorAssumption DEF CollectorInv, CollectorTypeOK, pihole
  <1>2. run' \in RunState
    <2>1. run \in RunState
      BY DEF CollectorInv, CollectorTypeOK
    <2>2. [run EXCEPT !.pc = "head", !.disk = FALSE] \in RunState
      BY <2>1 DEF RunState
    <2>3. [run EXCEPT !.pc = "prepare"] \in RunState
      BY <2>1 DEF RunState
    <2> QED
      BY <2>2, <2>3, Zenon DEF NextSource
  <1>3. CollectorTypeOK' /\ PiholeInv' /\ BatchInv' /\ OutputInOrder'
    <2>1. pending' \subseteq 1..MaxQueries
      BY <1>1
    <2> QED
      BY <1>2, <2>1 DEF CollectorInv, CollectorTypeOK, PiholeInv, BatchInv, OutputInOrder, pihole
  <1>4. CASE run.disk
    <2>1. run' = [run EXCEPT !.pc = "head", !.disk = FALSE] /\ run \in RunState
      BY <1>4, Zenon DEF NextSource, CollectorInv, CollectorTypeOK
    <2>2. run'.pc = "head" /\ ~run'.disk
      BY <2>1 DEF RunState
    <2>3. Oldest(run.disk)' = kept'
      BY <2>2, Zenon DEF Oldest
    <2>4. d \in last_id'..answered' /\ Oldest(run.disk)' <= d + 1
      BY <1>1, <1>4, <2>3
    <2>5. HeadInv'
      BY <1>1, <2>4 DEF HeadInv
    <2>6. PageInv' /\ PrepareInv' /\ RunInv'
      BY <2>2 DEF PageInv, PrepareInv, RunInv, On
    <2> QED
      BY <1>3, <2>5, <2>6 DEF CollectorInv
  <1>5. CASE ~run.disk
    <2>1. run' = [run EXCEPT !.pc = "prepare"] /\ run \in RunState
      BY <1>5, Zenon DEF NextSource, CollectorInv, CollectorTypeOK
    <2>2. run'.pc = "prepare"
      BY <2>1 DEF RunState
    <2>3. d \in last_id'..answered'
      BY <1>1
    <2>4. PrepareInv'
      BY <1>1, <2>2, <2>3 DEF PrepareInv, On
    <2>5. HeadInv' /\ PageInv' /\ RunInv'
      BY <2>2 DEF HeadInv, PageInv, RunInv, On
    <2> QED
      BY <1>3, <2>4, <2>5 DEF CollectorInv
  <1> QED
    BY <1>4, <1>5

LEMMA FreezeHeadKeepsInv ==
  ASSUME CollectorInv, FreezeHead
  PROVE  CollectorInv'
  <1>1. /\ answered \in Nat /\ last_id \in Nat /\ flushed \in Nat /\ kept \in Nat \ {0}
        /\ flushed <= answered /\ answered <= MaxQueries /\ kept <= flushed + 1
        /\ last_id <= answered /\ MaxQueries \in Nat /\ run \in RunState
        /\ run.pc = "head" /\ journal = NoBatch
        /\ UNCHANGED <<pihole, db, prepared, output>>
    BY CollectorAssumption
    DEF CollectorInv, CollectorTypeOK, PiholeInv, RunInv, FreezeHead, On
  <1>2. PICK d \in last_id..answered :
          pending = (last_id + 1)..d /\ Oldest(run.disk) <= d + 1
    BY <1>1 DEF CollectorInv, HeadInv, On
  <1>3. /\ run.disk => Newest(run.disk) = flushed /\ Oldest(run.disk) = 1
        /\ ~run.disk => Newest(run.disk) = answered /\ Oldest(run.disk) = kept
    BY Zenon DEF Newest, Oldest
  <1>4. /\ Newest(run.disk) \in 0..answered /\ Oldest(run.disk) \in Nat \ {0}
        /\ run.disk => kept <= Newest(run.disk) + 1
    BY <1>1, <1>3
  <1>5. CASE Newest(run.disk) > last_id /\ Newest(run.disk) >= Oldest(run.disk)
    <2> DEFINE h == Newest(run.disk)
    <2>1. run' = [run EXCEPT !.pc = "page", !.head = h, !.start = 0, !.pages = 0]
      BY <1>5, Zenon DEF FreezeHead
    <2>2. h \in 0..MaxQueries
      BY <1>1, <1>4
    <2>3. /\ run' \in RunState /\ run'.pc = "page" /\ run'.head = h /\ run'.start = 0
          /\ run'.disk = run.disk
      <3> HIDE DEF h
      <3>1. 0 \in 0..MaxQueries /\ 0 \in 0..MaxPages
        BY <1>1, CollectorAssumption
      <3>2. run.disk \in BOOLEAN /\ run \in RunState
        BY <1>1 DEF RunState
      <3> QED
        BY <2>1, <2>2, <3>1, <3>2 DEF RunState
    <2>4. CollectorTypeOK' /\ PiholeInv' /\ BatchInv' /\ OutputInOrder'
      BY <1>1, <2>3, GotoKeepsTypes DEF CollectorInv, CollectorTypeOK
    <2>5. Oldest(run.disk)' = Oldest(run.disk)
      BY <1>1, <2>3 DEF Oldest, pihole
    <2>6. /\ run'.head - run'.start + 1 = h + 1 /\ last_id' = last_id /\ answered' = answered
          /\ kept' = kept /\ pending' = pending
      BY <1>1, <1>4, <2>3 DEF pihole, db
    <2>7. {i \in (h + 1)..h : i > last_id} = {}
      BY <1>4
    <2>8. /\ last_id < h /\ h <= answered /\ Oldest(run.disk) <= h + 1
          /\ run.disk => kept <= h + 1
      BY <1>1, <1>4, <1>5
    <2> HIDE DEF h
    <2>9. PageInv'
      <3>1. last_id' < run'.head /\ run'.head <= answered'
        BY <2>3, <2>6, <2>8
      <3>2. Oldest(run.disk)' <= run'.head - run'.start + 1
        BY <2>5, <2>6, <2>8
      <3>3. run'.disk => kept' <= run'.head + 1
        BY <2>3, <2>6, <2>8
      <3>4. pending' = (last_id' + 1)..d
              \cup {i \in (run'.head - run'.start + 1)..run'.head : i > last_id'}
        BY <1>2, <2>3, <2>6, <2>7
      <3>5. d \in last_id'..answered' /\ Oldest(run.disk)' <= d + 1
        BY <1>2, <2>5, <2>6
      <3> QED
        BY <3>1, <3>2, <3>3, <3>4, <3>5 DEF PageInv
    <2>10. HeadInv' /\ PrepareInv' /\ RunInv'
      BY <1>1, <2>3 DEF HeadInv, PrepareInv, RunInv, On, db
    <2> QED
      BY <2>4, <2>9, <2>10 DEF CollectorInv
  <1>6. CASE ~(Newest(run.disk) > last_id /\ Newest(run.disk) >= Oldest(run.disk))
    <2>1. run' = NextSource
      BY <1>6, Zenon DEF FreezeHead
    <2>2. ASSUME run.disk PROVE kept <= d + 1
      <3>1. Newest(run.disk) = flushed /\ Oldest(run.disk) = 1
        BY <1>3, <2>2, Zenon
      <3>2. flushed <= last_id
        BY <1>1, <1>6, <3>1
      <3> QED
        BY <1>1, <1>2, <3>2
    <2>3. pending' = (last_id + 1)..d
      BY <1>1, <1>2 DEF db
    <2>4. UNCHANGED <<pihole, last_id, journal, prepared, output>>
      BY <1>1 DEF db
    <2> QED
      BY <1>1, <2>1, <2>2, <2>3, <2>4, NextSourceKeepsInv
  <1> QED
    BY <1>5, <1>6

\* A page is an interval that ends where the last one began, and reaches a page
\* further down unless the source ends first.
LEMMA RowsInterval ==
  ASSUME NEW o \in Nat \ {0}, Oldest(run.disk) = o,
         run.head \in Nat, run.start \in Nat, o <= run.head - run.start + 1
  PROVE  \E a \in Nat :
           /\ Rows = (a + 1)..(run.head - run.start)
           /\ a + 1 = o \/ a = run.head - run.start - PageSize
           /\ o <= a + 1 /\ run.head - run.start - PageSize <= a
           /\ Cardinality(Rows) < PageSize => a + 1 = o
           /\ Cardinality(Rows) >= PageSize => a = run.head - run.start - PageSize
  <1> DEFINE e == run.head - run.start
             a == IF o > e - PageSize THEN o - 1 ELSE e - PageSize
  <1>1. e \in Nat /\ a \in Nat /\ PageSize \in Nat \ {0}
    BY CollectorAssumption
  <1>2. Rows = (a + 1)..e
    <2>1. Rows = {i \in o..e : i > e - PageSize}
      BY DEF Rows
    <2>2. {i \in o..e : i > e - PageSize} = (a + 1)..e
      BY <1>1
    <2> QED
      BY <2>1, <2>2
  <1>3. Cardinality(Rows) = IF a < e THEN e - a ELSE 0
    BY <1>1, <1>2, IntervalSize
  <1>4. /\ a + 1 = o \/ a = e - PageSize
        /\ o <= a + 1 /\ e - PageSize <= a
        /\ Cardinality(Rows) < PageSize => a + 1 = o
        /\ Cardinality(Rows) >= PageSize => a = e - PageSize
    BY <1>1, <1>3
  <1> QED
    BY <1>1, <1>2, <1>4

LEMMA CollectSourceKeepsInv ==
  ASSUME CollectorInv, collect_source
  PROVE  CollectorInv'
  <1> DEFINE h == run.head
             s == run.start
             o == Oldest(run.disk)
  <1>1. /\ answered \in Nat /\ last_id \in Nat /\ kept \in Nat \ {0}
        /\ answered <= MaxQueries /\ last_id <= answered
        /\ MaxQueries \in Nat /\ MaxPages \in Nat /\ PageSize \in Nat \ {0}
        /\ run \in RunState /\ h \in Nat /\ s \in Nat /\ run.pages \in Nat
        /\ run.pc = "page" /\ run.pages < MaxPages /\ journal = NoBatch
        /\ UNCHANGED <<pihole, last_id, journal, prepared, output>>
        /\ pending' = pending \cup {i \in Rows : i > last_id}
    BY CollectorAssumption
    DEF CollectorInv, CollectorTypeOK, PiholeInv, RunInv, collect_source, On, RunState
  <1>2. o \in Nat \ {0}
    <2>1. o = 1 \/ o = kept
      BY Zenon DEF Oldest
    <2> HIDE DEF o
    <2> QED
      BY <1>1, <2>1
  <1>3. /\ last_id < h /\ h <= answered /\ o <= h - s + 1
        /\ run.disk => kept <= h + 1
    BY <1>1 DEF CollectorInv, PageInv, On
  <1>4. PICK d \in last_id..answered :
          /\ pending = (last_id + 1)..d \cup {i \in (h - s + 1)..h : i > last_id}
          /\ o <= d + 1
    BY <1>1 DEF CollectorInv, PageInv, On
  <1>5. PICK a \in Nat :
          /\ Rows = (a + 1)..(h - s)
          /\ a + 1 = o \/ a = h - s - PageSize
          /\ o <= a + 1 /\ h - s - PageSize <= a
          /\ Cardinality(Rows) < PageSize => a + 1 = o
          /\ Cardinality(Rows) >= PageSize => a = h - s - PageSize
    BY <1>1, <1>2, <1>3, RowsInterval
  <1>6. Cardinality(Rows) \in Nat
    <2>1. h - s \in Nat
      BY <1>1, <1>2, <1>3
    <2> QED
      BY <1>5, <2>1, IntervalSize
  <1> HIDE DEF o
  <1>7. CASE Cardinality(Rows) < PageSize \/ (\E i \in Rows : i <= last_id)
    <2>1. run' = NextSource
      BY <1>7, Zenon DEF collect_source
    <2>2. a <= d
      <3>1. CASE Cardinality(Rows) < PageSize
        BY <1>4, <1>5, <3>1
      <3>2. CASE \E i \in Rows : i <= last_id
        BY <1>1, <1>4, <1>5, <3>2
      <3> QED
        BY <1>7, <3>1, <3>2
    <2> DEFINE e == IF d < h THEN h ELSE d
    <2>3. e \in last_id..answered /\ d <= e /\ h <= e
      BY <1>1, <1>3, <1>4
    <2>4. pending' = (last_id + 1)..e
      <3>1. pending' = (last_id + 1)..d \cup {i \in (h - s + 1)..h : i > last_id}
                         \cup {i \in (a + 1)..(h - s) : i > last_id}
        BY <1>1, <1>4, <1>5
      <3>2. \A i : i \in pending' => i \in (last_id + 1)..e
        BY <1>1, <1>3, <2>3, <3>1
      <3>3. \A i \in (last_id + 1)..e : i \in pending'
        BY <1>1, <1>3, <2>2, <3>1
      <3> QED
        BY <3>2, <3>3
    <2>5. ASSUME run.disk PROVE kept <= e + 1
      BY <1>1, <1>3, <2>3, <2>5
    <2> HIDE DEF e
    <2> QED
      BY <1>1, <2>1, <2>3, <2>4, <2>5, NextSourceKeepsInv
  <1>8. CASE ~(Cardinality(Rows) < PageSize \/ (\E i \in Rows : i <= last_id))
    <2>1. run' = [run EXCEPT !.start = s + PageSize, !.pages = run.pages + 1]
      BY <1>8, Zenon DEF collect_source
    <2>2. a = h - s - PageSize /\ o <= h - (s + PageSize) + 1
      BY <1>1, <1>2, <1>5, <1>6, <1>8
    <2>3. s + PageSize \in 0..MaxQueries /\ run.pages + 1 \in 0..MaxPages
      BY <1>1, <1>2, <1>3, <2>2
    <2>4. /\ run' \in RunState /\ run'.pc = "page" /\ run'.head = h
          /\ run'.start = s + PageSize /\ run'.disk = run.disk
      <3> HIDE DEF h, s
      <3>1. run.disk \in BOOLEAN
        BY <1>1 DEF RunState
      <3> QED
        BY <1>1, <2>1, <2>3, <3>1 DEF RunState, h
    <2>5. pending' = (last_id + 1)..d \cup {i \in (h - (s + PageSize) + 1)..h : i > last_id}
      <3>1. pending' = (last_id + 1)..d \cup {i \in (h - s + 1)..h : i > last_id}
                         \cup {i \in (h - s - PageSize + 1)..(h - s) : i > last_id}
        BY <1>1, <1>4, <1>5, <2>2
      <3>2. \A i : i \in pending' <=>
                     \/ i \in (last_id + 1)..d
                     \/ i \in (h - (s + PageSize) + 1)..h /\ i > last_id
        BY <1>1, <3>1
      <3> QED
        BY <3>2
    <2>6. CollectorTypeOK' /\ PiholeInv' /\ BatchInv' /\ OutputInOrder'
      <3>1. pending' \subseteq 1..MaxQueries
        BY <1>1, <1>3, <1>4, <2>5
      <3> QED
        BY <1>1, <2>4, <3>1
        DEF CollectorInv, CollectorTypeOK, PiholeInv, BatchInv, OutputInOrder, pihole
    <2>7. Oldest(run.disk)' = o
      BY <1>1, <2>4 DEF Oldest, pihole, o
    <2>8. PageInv'
      <3>1. last_id' = last_id /\ answered' = answered /\ kept' = kept
        BY <1>1 DEF pihole
      <3>2. /\ last_id' < run'.head /\ run'.head <= answered'
            /\ Oldest(run.disk)' <= run'.head - run'.start + 1
        BY <1>3, <2>2, <2>4, <2>7, <3>1
      <3>3. run'.disk => kept' <= run'.head + 1
        BY <1>3, <2>4, <3>1
      <3>4. pending' = (last_id' + 1)..d
              \cup {i \in (run'.head - run'.start + 1)..run'.head : i > last_id'}
        BY <2>4, <2>5, <3>1
      <3>5. d \in last_id'..answered' /\ Oldest(run.disk)' <= d + 1
        BY <1>4, <2>7, <3>1
      <3> QED
        BY <3>2, <3>3, <3>4, <3>5 DEF PageInv
    <2>9. HeadInv' /\ PrepareInv' /\ RunInv'
      BY <1>1, <2>4 DEF HeadInv, PrepareInv, RunInv, On
    <2> QED
      BY <2>6, <2>8, <2>9 DEF CollectorInv
  <1> QED
    BY <1>7, <1>8

-----------------------------------------------------------------------------
(* The batch.                                                              *)

LEMMA PrepareKeepsInv ==
  ASSUME CollectorInv, prepare_batch
  PROVE  CollectorInv'
  <1>1. /\ run.pc = "prepare" /\ journal = NoBatch /\ UNCHANGED <<pihole, db, output>>
        /\ last_id \in Nat /\ answered \in Nat /\ answered <= MaxQueries /\ MaxQueries \in Nat
    BY CollectorAssumption
    DEF CollectorInv, CollectorTypeOK, RunInv, prepare_batch, On
  <1>2. PICK d \in last_id..answered : pending = (last_id + 1)..d
    BY <1>1 DEF CollectorInv, PrepareInv, On
  <1>3. CASE pending = {}
    <2>1. run' = Stopped /\ prepared' = prepared
      BY <1>3 DEF prepare_batch
    <2> QED
      BY <1>1, <2>1, StopKeepsInv
  <1>4. CASE pending # {}
    <2>1. /\ run' \in RunState /\ run'.pc = "journal" /\ prepared' = Bytes(pending)
      BY <1>4 DEF CollectorInv, CollectorTypeOK, prepare_batch, Goto, RunState
    <2>2. d \in Nat /\ last_id < d /\ d <= answered
      BY <1>1, <1>2, <1>4
    <2>3. prepared' = Lines(last_id, d)
      BY <1>1, <1>2, <2>1, <2>2, BytesOfInterval
    <2>4. prepared' \in Seq(AllBytes)
      <3>1. Lines(last_id, d) \in Seq(1..(2 * d))
        BY <1>1, <2>2, LinesSeq
      <3>2. 1..(2 * d) \subseteq AllBytes
        BY <1>1, <2>2 DEF AllBytes
      <3> QED
        BY <2>3, <3>1, <3>2
    <2>5. CollectorTypeOK' /\ PiholeInv' /\ BatchInv' /\ OutputInOrder'
      BY <1>1, <2>1, <2>4, GotoKeepsTypes
    <2>6. PrepareInv'
      BY <1>1, <1>2, <2>1, <2>2, <2>3 DEF PrepareInv, On, pihole, db
    <2>7. HeadInv' /\ PageInv' /\ RunInv'
      BY <1>1, <2>1 DEF HeadInv, PageInv, RunInv, On, db
    <2> QED
      BY <2>5, <2>6, <2>7 DEF CollectorInv
  <1> QED
    BY <1>3, <1>4

\* The journal entry describes the lines that follow what the output has.
LEMMA CommitJournalKeepsInv ==
  ASSUME CollectorInv, CommitJournal
  PROVE  CollectorInv'
  <1>1. /\ run.pc = "journal" /\ journal = NoBatch
        /\ UNCHANGED <<pihole, last_id, pending, prepared, output>>
        /\ last_id \in Nat /\ answered \in Nat /\ answered <= MaxQueries /\ MaxQueries \in Nat
        /\ Len(output) = 2 * last_id
    BY CollectorAssumption
    DEF CollectorInv, CollectorTypeOK, BatchInv, RunInv, CommitJournal, On
  <1>2. PICK d \in last_id..answered :
          d > last_id /\ pending = (last_id + 1)..d /\ prepared = Lines(last_id, d)
    BY <1>1 DEF CollectorInv, PrepareInv, On
  <1>3. Max(pending) = d
    BY <1>1, <1>2, MaxOfInterval
  <1>4. journal' = [start |-> 2 * last_id, data |-> Lines(last_id, d), max |-> d]
    BY <1>1, <1>2, <1>3 DEF CommitJournal
  <1>5. run' \in RunState /\ run'.pc = "append"
    BY DEF CollectorInv, CollectorTypeOK, CommitJournal, Goto, RunState
  <1>6. Lines(last_id, d) \in Seq(AllBytes)
    <2>1. Lines(last_id, d) \in Seq(1..(2 * d))
      BY <1>1, <1>2, LinesSeq
    <2>2. 1..(2 * d) \subseteq AllBytes
      BY <1>1, <1>2 DEF AllBytes
    <2> QED
      BY <2>1, <2>2
  <1>7. journal' # NoBatch
    BY <1>1, <1>2, <1>4 DEF NoBatch
  <1>8. CollectorTypeOK'
    BY <1>1, <1>2, <1>4, <1>5, <1>6 DEF CollectorInv, CollectorTypeOK, pihole
  <1>9. PiholeInv' /\ OutputInOrder'
    BY <1>1 DEF CollectorInv, PiholeInv, OutputInOrder, pihole
  <1>10. BatchInv'
    BY <1>1, <1>2, <1>4, <1>7 DEF BatchInv, pihole
  <1>11. HeadInv' /\ PageInv' /\ PrepareInv' /\ RunInv'
    BY <1>5, <1>7 DEF HeadInv, PageInv, PrepareInv, RunInv, On
  <1> QED
    BY <1>8, <1>9, <1>10, <1>11 DEF CollectorInv

\* What a journal entry says, in numbers.
LEMMA BatchFacts ==
  ASSUME CollectorInv, journal # NoBatch
  PROVE  /\ last_id \in Nat /\ answered \in Nat /\ journal.max \in Nat
         /\ answered <= MaxQueries /\ MaxQueries \in Nat
         /\ last_id < journal.max /\ journal.max <= answered
         /\ journal.start = 2 * last_id /\ journal.data = Lines(last_id, journal.max)
         /\ BatchEnd = 2 * journal.max
         /\ Len(journal.data) = 2 * (journal.max - last_id)
         /\ output \in Seq(AllBytes)
         /\ 2 * last_id <= Len(output) /\ Len(output) <= 2 * journal.max
  <1>1. /\ last_id \in Nat /\ answered \in Nat /\ journal.max \in Nat
        /\ answered <= MaxQueries /\ MaxQueries \in Nat
        /\ last_id < journal.max /\ journal.max <= answered
        /\ journal.start = 2 * last_id /\ journal.data = Lines(last_id, journal.max)
        /\ output \in Seq(AllBytes)
        /\ 2 * last_id <= Len(output) /\ Len(output) <= 2 * journal.max
    BY CollectorAssumption DEF CollectorInv, CollectorTypeOK, BatchInv
  <1>2. Len(journal.data) = 2 * (journal.max - last_id)
    <2>1. last_id <= journal.max
      BY <1>1
    <2>2. Len(Lines(last_id, journal.max)) = 2 * (journal.max - last_id)
      BY <1>1, <2>1, LinesSeq, Zenon
    <2> QED
      BY <1>1, <2>2, Zenon
  <1>3. BatchEnd = 2 * journal.max
    BY <1>1, <1>2 DEF BatchEnd
  <1> QED
    BY <1>1, <1>2, <1>3

\* Half a batch is cut off where the journal says it begins.
LEMMA AppendKeepsInv ==
  ASSUME CollectorInv, append_prepared
  PROVE  CollectorInv'
  <1>1. /\ run.pc = "append" /\ journal # NoBatch /\ prepared = journal.data
        /\ UNCHANGED <<pihole, db, prepared>>
    BY DEF CollectorInv, RunInv, append_prepared, On
  <1>2. CASE /\ Len(output) = BatchEnd
             /\ Goto("checkpoint")
             /\ UNCHANGED output
    <2>1. run' \in RunState /\ run'.pc = "checkpoint"
      BY <1>2 DEF CollectorInv, CollectorTypeOK, Goto, RunState
    <2>2. CollectorTypeOK' /\ PiholeInv' /\ BatchInv' /\ OutputInOrder'
      BY <1>1, <1>2, <2>1, GotoKeepsTypes DEF CollectorInv, CollectorTypeOK
    <2>3. Len(output) = 2 * journal.max
      BY <1>1, <1>2, BatchFacts
    <2>4. HeadInv' /\ PageInv' /\ PrepareInv'
      BY <2>1 DEF HeadInv, PageInv, PrepareInv, On
    <2>5. RunInv'
      BY <1>1, <1>2, <2>1, <2>3 DEF RunInv, On, db
    <2> QED
      BY <2>2, <2>4, <2>5 DEF CollectorInv
  <1>3. CASE /\ run' = [run EXCEPT !.pc = "write", !.copied = 0]
             /\ output' = SubSeq(output, 1, journal.start)
    <2>1. run' \in RunState /\ run'.pc = "write" /\ run'.copied = 0
      <3>1. 0 \in 0..(2 * MaxQueries)
        BY CollectorAssumption
      <3> QED
        BY <1>3, <3>1 DEF CollectorInv, CollectorTypeOK, RunState
    <2>2. /\ output' \in Seq(AllBytes) /\ Len(output') = 2 * last_id
          /\ \A j \in 1..(2 * last_id) : output'[j] = output[j]
      BY <1>1, <1>3, BatchFacts
    <2>3. OutputInOrder'
      <3>1. \A j \in 1..Len(output) : output[j] = j
        BY <1>1, BatchFacts DEF CollectorInv, OutputInOrder
      <3>2. DOMAIN output' = 1..(2 * last_id)
        BY <2>2
      <3>3. \A j \in 1..(2 * last_id) : j \in 1..Len(output)
        BY <1>1, BatchFacts
      <3> QED
        BY <2>2, <3>1, <3>2, <3>3 DEF OutputInOrder
    <2>4. CollectorTypeOK' /\ PiholeInv'
      BY <1>1, <2>1, <2>2 DEF CollectorInv, CollectorTypeOK, PiholeInv, pihole, db
    <2>5. BatchInv'
      <3>1. 2 * last_id <= Len(output') /\ Len(output') <= 2 * journal.max
        BY <1>1, <2>2, BatchFacts
      <3> QED
        BY <1>1, <3>1 DEF CollectorInv, BatchInv, pihole, db
    <2>6. HeadInv' /\ PageInv' /\ PrepareInv'
      BY <2>1 DEF HeadInv, PageInv, PrepareInv, On
    <2>7. RunInv'
      <3>1. 0 < Len(prepared) /\ Len(output') = journal.start + 0
        BY <1>1, <2>2, BatchFacts
      <3> QED
        BY <1>1, <2>1, <3>1 DEF RunInv, On, db
    <2> QED
      BY <2>3, <2>4, <2>5, <2>6, <2>7 DEF CollectorInv
  <1> QED
    BY <1>2, <1>3 DEF append_prepared

\* A byte that is copied is the next one of the output.
LEMMA CopyByteKeepsInv ==
  ASSUME CollectorInv, CopyByte
  PROVE  CollectorInv'
  <1>1. /\ run.pc = "write" /\ journal # NoBatch /\ prepared = journal.data
        /\ run \in RunState /\ run.copied \in Nat
        /\ UNCHANGED <<pihole, db, prepared>>
        /\ Len(output) = journal.start + run.copied /\ run.copied < Len(prepared)
        /\ output' = Append(output, prepared[run.copied + 1])
    BY DEF CollectorInv, CollectorTypeOK, RunState, RunInv, CopyByte, On
  <1> DEFINE n == run.copied
             len == Len(prepared)
  <1>2. /\ last_id \in Nat /\ journal.max \in Nat /\ last_id < journal.max
        /\ journal.max <= MaxQueries /\ MaxQueries \in Nat
        /\ len = 2 * (journal.max - last_id) /\ n \in Nat /\ n < len
        /\ Len(output) = 2 * last_id + n /\ output \in Seq(AllBytes)
    BY <1>1, BatchFacts
  <1>3. prepared[n + 1] = 2 * last_id + n + 1
    <2>1. n + 1 \in 1..(2 * (journal.max - last_id))
      BY <1>2
    <2>2. prepared = Lines(last_id, journal.max)
      BY <1>1, BatchFacts
    <2> HIDE DEF n
    <2>3. Lines(last_id, journal.max)[n + 1] = 2 * last_id + (n + 1)
      BY <2>1, Zenon DEF Lines
    <2> QED
      BY <1>2, <2>2, <2>3
  <1>4. /\ output' \in Seq(AllBytes) /\ Len(output') = 2 * last_id + n + 1
        /\ \A j \in 1..(2 * last_id + n) : output'[j] = output[j]
        /\ output'[2 * last_id + n + 1] = 2 * last_id + n + 1
    <2>1. prepared[n + 1] \in AllBytes
      <3> HIDE DEF n
      <3>1. 2 * last_id + n + 1 \in AllBytes
        BY <1>2 DEF AllBytes
      <3> QED
        BY <1>3, <3>1, Zenon
    <2>2. output' = Append(output, prepared[n + 1])
      BY <1>1
    <2> HIDE DEF n
    <2> QED
      BY <1>2, <1>3, <2>1, <2>2
  <1>5. OutputInOrder'
    <2>1. \A j \in 1..(2 * last_id + n) : output[j] = j
      BY <1>2 DEF CollectorInv, OutputInOrder
    <2>2. DOMAIN output' = 1..(2 * last_id + n + 1)
      BY <1>2, <1>4
    <2>3. \A j \in 1..(2 * last_id + n + 1) :
            j \in 1..(2 * last_id + n) \/ j = 2 * last_id + n + 1
      BY <1>2
    <2> HIDE DEF n
    <2> QED
      BY <1>4, <2>1, <2>2, <2>3 DEF OutputInOrder
  <1>6. BatchInv' /\ PiholeInv'
    <2>1. 2 * last_id <= Len(output') /\ Len(output') <= 2 * journal.max
      BY <1>2, <1>4
    <2> QED
      BY <1>1, <2>1 DEF CollectorInv, BatchInv, PiholeInv, pihole, db
  <1>7. CASE n + 1 = len
    <2>1. run' \in RunState /\ run'.pc = "checkpoint"
      <3>1. Goto("checkpoint")
        BY <1>7, Zenon DEF CopyByte
      <3> QED
        BY <1>1, <3>1 DEF Goto, RunState
    <2>2. Len(output') = 2 * journal.max
      <3> HIDE DEF n, len
      <3>1. Len(output') = 2 * last_id + n + 1
        BY <1>4
      <3>2. \A l, m, k \in Nat : k + 1 = 2 * (m - l) => 2 * l + k + 1 = 2 * m
        OBVIOUS
      <3>3. n + 1 = 2 * (journal.max - last_id)
        BY <1>2, <1>7, Zenon
      <3> QED
        BY <1>2, <3>1, <3>2, <3>3, Zenon
    <2>3. CollectorTypeOK'
      BY <1>1, <1>4, <2>1 DEF CollectorInv, CollectorTypeOK, pihole, db
    <2>4. HeadInv' /\ PageInv' /\ PrepareInv'
      BY <2>1 DEF HeadInv, PageInv, PrepareInv, On
    <2>5. RunInv'
      BY <1>1, <2>1, <2>2 DEF RunInv, On, db
    <2> QED
      BY <1>5, <1>6, <2>3, <2>4, <2>5 DEF CollectorInv
  <1>8. CASE n + 1 # len
    <2>1. run' = [run EXCEPT !.copied = n + 1]
      BY <1>8 DEF CopyByte
    <2>2. n + 1 \in 0..(2 * MaxQueries) /\ n + 1 < len
      BY <1>2, <1>8
    <2>3. run' \in RunState /\ run'.pc = "write" /\ run'.copied = n + 1
      <3> HIDE DEF n
      <3> QED
        BY <1>1, <2>1, <2>2 DEF RunState
    <2>4. CollectorTypeOK'
      BY <1>1, <1>4, <2>3 DEF CollectorInv, CollectorTypeOK, pihole, db
    <2>5. HeadInv' /\ PageInv' /\ PrepareInv'
      BY <2>3 DEF HeadInv, PageInv, PrepareInv, On
    <2>6. Len(output') = journal.start + (n + 1)
      BY <1>1, <1>2, <1>4, BatchFacts
    <2>7. RunInv'
      BY <1>1, <2>2, <2>3, <2>6 DEF RunInv, On, db
    <2> QED
      BY <1>5, <1>6, <2>4, <2>5, <2>7 DEF CollectorInv
  <1> QED
    BY <1>7, <1>8

\* The checkpoint advances to where the output ends.
LEMMA CheckpointKeepsInv ==
  ASSUME CollectorInv, Checkpoint
  PROVE  CollectorInv'
  <1>1. /\ journal # NoBatch /\ Len(output) = 2 * journal.max
        /\ UNCHANGED <<pihole, prepared, output>>
        /\ last_id' = journal.max /\ journal' = NoBatch /\ pending' = {}
    BY DEF CollectorInv, RunInv, Checkpoint, On
  <1>2. run' \in RunState /\ run'.pc = "unlink"
    BY DEF CollectorInv, CollectorTypeOK, Checkpoint, Goto, RunState
  <1>3. journal.max \in 0..MaxQueries /\ journal.max <= answered
    BY <1>1, BatchFacts
  <1>4. CollectorTypeOK'
    <2>1. journal' \in [start : 0..(2 * MaxQueries), data : Seq(AllBytes), max : 0..MaxQueries]
      BY <1>1, CollectorAssumption DEF NoBatch
    <2> QED
      BY <1>1, <1>2, <1>3, <2>1 DEF CollectorInv, CollectorTypeOK, pihole
  <1>5. PiholeInv' /\ BatchInv' /\ OutputInOrder'
    BY <1>1, <1>3 DEF CollectorInv, PiholeInv, BatchInv, OutputInOrder, pihole
  <1>6. HeadInv' /\ PageInv' /\ PrepareInv' /\ RunInv'
    BY <1>1, <1>2 DEF HeadInv, PageInv, PrepareInv, RunInv, On
  <1> QED
    BY <1>4, <1>5, <1>6 DEF CollectorInv

LEMMA UnlinkKeepsInv ==
  ASSUME CollectorInv, Unlink
  PROVE  CollectorInv'
  <1>1. UNCHANGED <<pihole, db, output>> /\ prepared' = NoFile
    BY DEF Unlink
  <1>2. CASE run' = [run EXCEPT !.pc = "fresh"]
    <2>1. run' \in RunState /\ run'.pc = "fresh"
      BY <1>2 DEF CollectorInv, CollectorTypeOK, RunState
    <2>2. CollectorTypeOK' /\ PiholeInv' /\ BatchInv' /\ OutputInOrder'
      BY <1>1, <2>1, GotoKeepsTypes
    <2>3. HeadInv' /\ PageInv' /\ PrepareInv'
      BY <2>1 DEF HeadInv, PageInv, PrepareInv, On
    <2>4. RunInv'
      BY <1>1, <2>1 DEF CollectorInv, RunInv, Unlink, On, db
    <2> QED
      BY <2>2, <2>3, <2>4 DEF CollectorInv
  <1>3. CASE run' = Stopped
    BY <1>1, <1>3, StopKeepsInv
  <1> QED
    BY <1>2, <1>3, Zenon DEF Unlink

-----------------------------------------------------------------------------
(* Pi-hole.                                                                *)

\* What Pi-hole answers, and what it writes to disk, leaves the run's view of it.
LEMMA PiholeKeepsInv ==
  ASSUME CollectorInv, QueryAnswered \/ Flush
  PROVE  CollectorInv'
  <1>1. /\ answered \in Nat /\ answered <= MaxQueries /\ flushed \in Nat /\ last_id \in Nat
        /\ MaxQueries \in Nat /\ kept \in Nat /\ kept <= flushed + 1
        /\ flushed <= answered /\ last_id <= answered
    BY CollectorAssumption DEF CollectorInv, CollectorTypeOK, PiholeInv
  <1>2. /\ answered' \in Nat /\ answered <= answered' /\ answered' <= MaxQueries
        /\ flushed' \in Nat /\ flushed <= flushed' /\ flushed' <= answered'
        /\ UNCHANGED <<kept, db, prepared, output, run>>
    BY <1>1 DEF QueryAnswered, Flush
  <1>3. /\ UNCHANGED <<kept, last_id, journal, pending, prepared, output, run>>
    BY <1>2 DEF db
  <1>4. CollectorTypeOK' /\ PiholeInv' /\ OutputInOrder'
    <2>1. CollectorTypeOK'
      <3>1. answered' \in 0..MaxQueries /\ flushed' \in 0..MaxQueries
        BY <1>1, <1>2
      <3> QED
        BY <1>3, <3>1, Zenon DEF CollectorInv, CollectorTypeOK
    <2>2. PiholeInv'
      <3>1. kept' = kept /\ last_id' = last_id
        BY <1>3
      <3>2. /\ answered' \in Nat /\ answered <= answered'
            /\ flushed' \in Nat /\ flushed <= flushed' /\ flushed' <= answered'
        BY <1>2
      <3>3. \A k, f, g \in Nat : k <= f + 1 /\ f <= g => k <= g + 1
        OBVIOUS
      <3>4. kept <= flushed' + 1
        BY <1>1, <3>2, <3>3, Zenon
      <3>5. last_id <= answered'
        BY <1>1, <3>2
      <3> QED
        BY <3>1, <3>2, <3>4, <3>5 DEF PiholeInv
    <2>3. OutputInOrder'
      BY <1>3, Zenon DEF CollectorInv, OutputInOrder
    <2> QED
      BY <2>1, <2>2, <2>3
  <1>5. BatchInv'
    <2>1. journal # NoBatch => journal.max \in Nat
      BY BatchFacts
    <2> QED
      BY <1>1, <1>2, <1>3, <2>1 DEF CollectorInv, BatchInv
  <1>6. last_id..answered \subseteq last_id..answered'
    BY <1>1, <1>2
  <1>7. Oldest(run.disk)' = Oldest(run.disk)
    BY <1>3, Zenon DEF Oldest
  <1>8. HeadInv' /\ PrepareInv'
    BY <1>3, <1>6, <1>7 DEF CollectorInv, HeadInv, PrepareInv, On
  <1>9. PageInv'
    <2>1. SUFFICES ASSUME On("page") PROVE PageInv'
      BY <1>3 DEF PageInv, On
    <2>2. run.head \in Nat /\ (run.head <= answered => run.head <= answered')
      BY <1>1, <1>2 DEF CollectorInv, CollectorTypeOK, RunState
    <2> QED
      BY <1>3, <1>6, <1>7, <2>1, <2>2 DEF CollectorInv, PageInv, On
  <1>10. RunInv'
    BY <1>3 DEF CollectorInv, RunInv, On
  <1> QED
    BY <1>4, <1>5, <1>8, <1>9, <1>10 DEF CollectorInv

LEMMA ForgetKeepsInv ==
  ASSUME CollectorInv, Forget
  PROVE  CollectorInv'
  <1>1. /\ run.pc = "stopped" /\ kept' = kept + 1 /\ kept <= flushed
        /\ UNCHANGED <<answered, flushed, db, prepared, output, run>>
    BY DEF Forget, On
  <1>2. CollectorTypeOK' /\ PiholeInv' /\ BatchInv' /\ OutputInOrder'
    BY <1>1, CollectorAssumption
    DEF CollectorInv, CollectorTypeOK, PiholeInv, BatchInv, OutputInOrder, db
  <1>3. HeadInv' /\ PageInv' /\ PrepareInv' /\ RunInv'
    BY <1>1 DEF HeadInv, PageInv, PrepareInv, RunInv, On
  <1> QED
    BY <1>2, <1>3 DEF CollectorInv

-----------------------------------------------------------------------------
(* The theorems.                                                           *)

LEMMA InitInv == CollectorInit => CollectorInv
  <1> SUFFICES ASSUME CollectorInit PROVE CollectorInv
    OBVIOUS
  <1>1. CollectorTypeOK
    <2>1. run \in RunState
      BY CollectorAssumption DEF CollectorInit, Stopped, RunState
    <2>2. journal \in [start : 0..(2 * MaxQueries), data : Seq(AllBytes), max : 0..MaxQueries]
      BY CollectorAssumption DEF CollectorInit, NoBatch
    <2> QED
      BY <2>1, <2>2, CollectorAssumption DEF CollectorInit, CollectorTypeOK
  <1>2. PiholeInv /\ BatchInv /\ OutputInOrder
    BY DEF CollectorInit, PiholeInv, BatchInv, OutputInOrder
  <1>3. HeadInv /\ PageInv /\ PrepareInv /\ RunInv
    BY DEF CollectorInit, Stopped, HeadInv, PageInv, PrepareInv, RunInv, On
  <1> QED
    BY <1>1, <1>2, <1>3 DEF CollectorInv

LEMMA NextKeepsInv == CollectorInv /\ [CollectorNext]_cvars => CollectorInv'
  <1> SUFFICES ASSUME CollectorInv, [CollectorNext]_cvars PROVE CollectorInv'
    OBVIOUS
  <1>1. CASE Begin
    BY <1>1, BeginKeepsInv
  <1>2. CASE recover_prepared
    BY <1>2, RecoverKeepsInv
  <1>3. CASE ClearPending
    BY <1>3, ClearPendingKeepsInv
  <1>4. CASE FreezeHead
    BY <1>4, FreezeHeadKeepsInv
  <1>5. CASE collect_source
    BY <1>5, CollectSourceKeepsInv
  <1>6. CASE prepare_batch
    BY <1>6, PrepareKeepsInv
  <1>7. CASE CommitJournal
    BY <1>7, CommitJournalKeepsInv
  <1>8. CASE append_prepared
    BY <1>8, AppendKeepsInv
  <1>9. CASE CopyByte
    BY <1>9, CopyByteKeepsInv
  <1>10. CASE Checkpoint
    BY <1>10, CheckpointKeepsInv
  <1>11. CASE Unlink
    BY <1>11, UnlinkKeepsInv
  <1>12. CASE TooManyPages \/ Refused \/ Aborts \/ PowerFails
    <2>1. /\ run' = Stopped /\ UNCHANGED <<pihole, db, output>>
          /\ prepared' \in {prepared, NoFile}
      BY <1>12 DEF TooManyPages, Refused, Aborts, PowerFails, Fail
    <2> QED
      BY <2>1, StopKeepsInv
  <1>13. CASE QueryAnswered \/ Flush
    BY <1>13, PiholeKeepsInv
  <1>14. CASE Forget
    BY <1>14, ForgetKeepsInv
  <1>15. CASE UNCHANGED cvars
    <2>1. /\ UNCHANGED <<answered, kept, flushed, last_id, journal, pending>>
          /\ UNCHANGED <<prepared, output, run>>
      BY <1>15 DEF cvars, pihole, db
    <2>2. CollectorTypeOK' /\ PiholeInv' /\ BatchInv' /\ OutputInOrder'
      BY <2>1 DEF CollectorInv, CollectorTypeOK, PiholeInv, BatchInv, OutputInOrder
    <2>3. Oldest(run.disk)' = Oldest(run.disk)
      BY <2>1, Zenon DEF Oldest
    <2>4. HeadInv' /\ PageInv' /\ PrepareInv' /\ RunInv'
      BY <2>1, <2>3 DEF CollectorInv, HeadInv, PageInv, PrepareInv, RunInv, On
    <2> QED
      BY <2>2, <2>4 DEF CollectorInv
  <1> QED
    BY <1>1, <1>2, <1>3, <1>4, <1>5, <1>6, <1>7, <1>8, <1>9, <1>10, <1>11, <1>12,
       <1>13, <1>14, <1>15 DEF CollectorNext, Run

\* The inductive invariant holds in every behaviour of the collector.
THEOREM CollectorInvariant == CollectorSpec => []CollectorInv
  BY InitInv, NextKeepsInv, PTL DEF CollectorSpec

\* Every variable of the collector keeps to its type, among them the ids of a batch
\* and the bytes of the output.
THEOREM CollectorTypes == CollectorSpec => []CollectorTypeOK
  <1>1. CollectorInv => CollectorTypeOK
    BY DEF CollectorInv
  <1> QED
    BY <1>1, CollectorInvariant, PTL

\* queries.ndjson never has a line twice, out of order or after one that is missing,
\* wherever a run, Pi-hole or the power was stopped.
THEOREM OutputIsInOrder == CollectorSpec => []OutputInOrder
  <1>1. CollectorInv => OutputInOrder
    BY DEF CollectorInv
  <1> QED
    BY <1>1, CollectorInvariant, PTL

-----------------------------------------------------------------------------
(* The abstract log.                                                       *)

\* What is collected for good are the ids up to the checkpoint, in order.
LEMMA CollectedIds ==
  CollectorInv => last_id \in Nat /\ Collected = [i \in 1..last_id |-> i]
  <1> SUFFICES ASSUME CollectorInv
               PROVE  last_id \in Nat /\ Collected = [i \in 1..last_id |-> i]
    OBVIOUS
  <1>1. last_id \in Nat /\ output \in Seq(AllBytes) /\ 2 * last_id <= Len(output)
    BY BatchFacts DEF CollectorInv, CollectorTypeOK, BatchInv
  <1>2. ASSUME NEW i \in 1..last_id
        PROVE  2 * i <= Len(output) /\ output[2 * i] \div 2 = i
    <2>1. 2 * i \in 1..Len(output) /\ (2 * i) \div 2 = i
      BY <1>1
    <2>2. output[2 * i] = 2 * i
      BY <1>1, <2>1 DEF CollectorInv, OutputInOrder
    <2> QED
      BY <2>1, <2>2
  <1> QED
    BY <1>1, <1>2 DEF Collected

\* A checkpoint adds the batch of the journal, whole.
LEMMA CheckpointCollects ==
  ASSUME CollectorInv, CollectorInv', Checkpoint
  PROVE  Log!Collect
  <1>1. /\ journal # NoBatch /\ last_id' = journal.max /\ UNCHANGED answered
    BY DEF CollectorInv, RunInv, Checkpoint, On, pihole
  <1> DEFINE l == last_id
             m == journal.max
  <1>2. l \in Nat /\ m \in Nat /\ l < m /\ m <= answered /\ answered \in Nat
    BY <1>1, BatchFacts
  <1>3. Collected = [i \in 1..l |-> i] /\ Collected' = [i \in 1..m |-> i]
    <2>1. Collected = [i \in 1..l |-> i]
      BY CollectedIds
    <2>2. (Collected = [i \in 1..last_id |-> i])'
      BY CollectedIds, PTL
    <2> QED
      BY <1>1, <2>1, <2>2
  <1> HIDE DEF l, m
  <1>4. Len(Collected) = l /\ m \in Len(Collected)..answered
    BY <1>2, <1>3
  <1>5. Collected' = Collected \o [i \in 1..(m - Len(Collected)) |-> Len(Collected) + i]
    <2>1. [i \in 1..m |-> i] = [i \in 1..l |-> i] \o [i \in 1..(m - l) |-> l + i]
      BY <1>2
    <2> QED
      BY <1>3, <1>4, <2>1
  <1> QED
    BY <1>1, <1>4, <1>5 DEF Log!Collect

\* Every step of the collector is a step of the abstract log, or none.
LEMMA NextImplementsLog ==
  CollectorInv /\ CollectorInv' /\ [CollectorNext]_cvars
    => [Log!LogNext]_<<answered, Collected>>
  <1> SUFFICES ASSUME CollectorInv, CollectorInv', [CollectorNext]_cvars
               PROVE  [Log!LogNext]_<<answered, Collected>>
    OBVIOUS
  <1>1. CASE Checkpoint
    BY <1>1, CheckpointCollects DEF Log!LogNext
  <1>2. ASSUME last_id' = last_id
        PROVE  Collected' = Collected
    <2>1. Collected = [i \in 1..last_id |-> i]
      BY CollectedIds
    <2>2. (Collected = [i \in 1..last_id |-> i])'
      BY CollectedIds, PTL
    <2> QED
      BY <1>2, <2>1, <2>2
  <1>3. CASE QueryAnswered
    <2>1. answered' = answered + 1 /\ last_id' = last_id
      BY <1>3 DEF QueryAnswered, db
    <2> QED
      BY <1>2, <2>1 DEF Log!LogNext, Log!Answer
  <1>4. CASE \/ Begin \/ recover_prepared \/ ClearPending \/ FreezeHead \/ collect_source
             \/ TooManyPages \/ prepare_batch \/ CommitJournal \/ append_prepared \/ Refused
             \/ CopyByte \/ Unlink \/ Aborts \/ PowerFails \/ Flush \/ Forget
             \/ UNCHANGED cvars
    <2>1. answered' = answered /\ last_id' = last_id
      BY <1>4
      DEF Begin, recover_prepared, ClearPending, FreezeHead, collect_source, TooManyPages,
          prepare_batch, CommitJournal, append_prepared, Refused, CopyByte, Unlink, Aborts,
          PowerFails, Flush, Forget, Fail, pihole, db, cvars
    <2> QED
      BY <1>2, <2>1
  <1> QED
    BY <1>1, <1>3, <1>4 DEF CollectorNext, Run

\* The collector implements the abstract log: the collected queries only grow, by
\* whole batches, in order, and only with queries that Pi-hole has answered.
THEOREM CollectorImplementsLog == CollectorSpec => ImplementsLog
  <1>1. CollectorInit => Log!LogInit
    <2> SUFFICES ASSUME CollectorInit PROVE Log!LogInit
      OBVIOUS
    <2>1. Collected = [i \in 1..0 |-> i] /\ answered = 0
      BY InitInv, CollectedIds DEF CollectorInit
    <2> QED
      BY <2>1 DEF Log!LogInit
  <1> QED
    BY <1>1, NextImplementsLog, CollectorInvariant, PTL
    DEF CollectorSpec, ImplementsLog, Log!LogSpec
=============================================================================
