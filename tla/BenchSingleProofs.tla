------------------------- MODULE BenchSingleProofs --------------------------
(***************************************************************************)
(* Proofs about bench-single, for any servers and answers, any number of   *)
(* groups, runs, warmups and launches, and any number of faults.           *)
(*                                                                         *)
(* TakeInv says what has been read of the answer under way, by the way its *)
(* server reports ids; GroupInv that the groups in memory and in the file  *)
(* are full and hold what TakeInv made of them; WriteInv how the file      *)
(* stands to the groups and the exception, at each place the process can   *)
(* be in.  From the three follow what the runs check, and the refinement   *)
(* of the benchmark record.                                                *)
(***************************************************************************)
EXTENDS BenchSingle, SequenceTheorems, TLAPS

Pcs == AwaitPoints \cup {"save", "flush", "tell", "report", "closing", "finish", "final", "down"}

\* Where an answer is being read or is still to be recorded.
Reading == {"stream", "count", "rescrape"}

Take == [ids : Seq(Nat), arrivals : Nat, usage : Nat \cup {NoCount}, text : BOOLEAN,
         bad : BOOLEAN]

Obs == [ids : Seq(Nat), ready : BOOLEAN, rates : SUBSET {"ttft", "tpot", "throughput"},
        truth : Answers, clean : BOOLEAN]

Good(s, o) == /\ o.ready => o.ids = o.truth
              /\ o.clean /\ o.truth # <<>> /\ s \in Reporting => o.ready

\* A group as it is kept: one observation for each run.
Group == {g \in Seq(Obs) : Len(g) = Runs}

RecordFile == [kind : {"partial", "complete"}, setup : Setups, groups : Seq(Group),
               failed : BOOLEAN]

BenchState == [file : {File!Absent, File!Torn} \cup RecordFile, running : BOOLEAN,
               setup : Setups, groups : Seq(Group)]

TypeInv ==
  /\ pc \in Pcs
  /\ bench \in BenchState
  /\ group \in Seq(Obs) /\ nth \in 1..(WarmupRuns + Runs)
  /\ answer \in Seq(Nat) /\ sent \in 0..Len(answer)
  /\ take \in Take
  /\ launches \in Nat

\* What has been read of the answer: its ids up to where it was sent, none, or twice as
\* many, unless a line was garbled; and the usage only when all of it was sent.
TakeInv ==
  /\ pc \in Reading => answer \in Answers
  /\ pc \notin Reading => answer = <<>> /\ sent = 0 /\ take = EmptyTake
  /\ take.usage # NoCount => take.usage = Len(answer) /\ sent = Len(answer)
  /\ ~take.bad =>
       /\ ThisServer.dialect = "echo" => Len(take.ids) = 2 * sent
       /\ ThisServer.dialect = "silent" => take.ids = <<>>
       /\ ThisServer.dialect \notin {"echo", "silent"} => take.ids = SubSeq(answer, 1, sent)

\* The groups are full but for the one under way, and good.
GroupInv ==
  /\ pc \in AwaitPoints =>
       /\ Len(group) = IF nth <= WarmupRuns THEN 0 ELSE nth - WarmupRuns - 1
       /\ Len(bench.groups) < NumGroups
  /\ pc \notin AwaitPoints => group = <<>>
  /\ pc \in {"scrape", "rescrape"} => nth > WarmupRuns
  /\ Len(bench.groups) <= NumGroups
  /\ \A i \in DOMAIN group : Good(bench.setup, group[i])
  /\ ReadyIsWholeAnswer

WriteInv ==
  /\ bench.running <=> pc # "down"
  /\ pc \in AwaitPoints \cup {"save", "flush", "finish", "final"} => exc = "none"
  /\ pc \in {"tell", "report"} => exc = "request"
  /\ pc = "closing" => exc \in {"none", "request", "write", "cancelled"}
  /\ pc \notin {"closing", "down"} => unopened = "none"
  /\ pc = "closing" =>
       unopened = "none" \/ (unopened \in {"save", "tell"} /\ exc = "write")
  /\ pc \in {"flush", "report", "final"} => bench.file = File!Torn
  /\ pc \in AwaitPoints \cup {"tell"} /\ bench.groups # <<>> =>
       bench.file = File!Whole(bench, "partial", FALSE)
  /\ pc = "save" /\ Len(bench.groups) > 1 =>
       bench.file = File!Whole(BeforeLast(bench), "partial", FALSE)
  /\ pc = "finish" \/ (pc = "closing" /\ exc = "none") =>
       Len(bench.groups) = NumGroups /\ bench.file = File!Whole(bench, "partial", FALSE)
  /\ pc = "closing" => LeftBehind
  /\ pc = "final" => Len(bench.groups) = NumGroups
  /\ pc \in {"finish", "final"} => client = "closed"
  /\ EndMatchesFile

BenchInv == TypeInv /\ TakeInv /\ GroupInv /\ WriteInv

-----------------------------------------------------------------------------
(* One answer.                                                             *)

\* The ids of a chunk, by the way the server reports them.
LEMMA ChunkIds ==
  ASSUME NEW dialect \in Dialects, NEW t \in Seq(Nat)
  PROVE  StreamChunkTokenIds(ChunkOf(dialect, t)) =
           CASE dialect = "echo"                 -> t \o t
             [] dialect = "silent"               -> <<>>
             [] dialect \notin {"echo", "silent"} -> t
<1> DEFINE c == ChunkOf(dialect, t)
<1>0. /\ t \o <<>> = t /\ <<>> \o t = t /\ <<>> \in Seq(Nat)
      /\ (<<>> \o <<>>) = <<>>
  BY ConcatEmptySeq
<1>1. \A p \in Places : c[p] = IF p \in PlacesOf(dialect) THEN t ELSE <<>>
  BY DEF ChunkOf
<1>2. StreamChunkTokenIds(c) =
        LET choice == IF c["delta"] # <<>> THEN c["delta"] ELSE c["parts"] \o c["choice"]
        IN  IF choice # <<>> THEN choice ELSE c["payload"]
  BY DEF StreamChunkTokenIds
<1>3. "delta" \in Places /\ "parts" \in Places /\ "choice" \in Places /\ "payload" \in Places
  BY DEF Places
<1> HIDE DEF c
<1>4. CASE dialect = "delta"
  <2>1. PlacesOf(dialect) = {"delta"}
    BY <1>4 DEF PlacesOf, Places
  <2> QED BY <1>0, <1>1, <1>2, <1>3, <1>4, <2>1 DEF c
<1>5. CASE dialect = "parts"
  <2>1. PlacesOf(dialect) = {"parts"}
    BY <1>5 DEF PlacesOf, Places
  <2> QED BY <1>0, <1>1, <1>2, <1>3, <1>5, <2>1 DEF c
<1>6. CASE dialect = "choice"
  <2>1. PlacesOf(dialect) = {"choice"}
    BY <1>6 DEF PlacesOf, Places
  <2> QED BY <1>0, <1>1, <1>2, <1>3, <1>6, <2>1 DEF c
<1>7. CASE dialect = "payload"
  <2>1. PlacesOf(dialect) = {"payload"}
    BY <1>7 DEF PlacesOf, Places
  <2> QED BY <1>0, <1>1, <1>2, <1>3, <1>7, <2>1 DEF c
<1>8. CASE dialect = "both"
  <2>1. PlacesOf(dialect) = {"delta", "choice"}
    BY <1>8 DEF PlacesOf, Places
  <2> QED BY <1>0, <1>1, <1>2, <1>3, <1>8, <2>1 DEF c
<1>9. CASE dialect = "echo"
  <2>1. PlacesOf(dialect) = {"parts", "choice"}
    BY <1>9 DEF PlacesOf, Places
  <2>2. t \o t = <<>> => t = <<>>
    BY ConcatEqualIffEmpty
  <2> QED BY <1>0, <1>1, <1>2, <1>3, <1>9, <2>1, <2>2 DEF c
<1>10. CASE dialect = "silent"
  <2>1. PlacesOf(dialect) = {}
    BY <1>10 DEF PlacesOf, Places
  <2> QED BY <1>0, <1>1, <1>2, <1>3, <1>10, <2>1 DEF c
<1> QED BY <1>4, <1>5, <1>6, <1>7, <1>8, <1>9, <1>10 DEF Dialects, Places

\* What one more chunk makes of the ids that were read.
LEMMA ChunkTaken ==
  ASSUME NEW dialect \in Dialects, NEW a \in Seq(Nat), NEW t \in Take,
         NEW s \in 0..Len(a), NEW n \in (s + 1)..Len(a)
  PROVE  LET new == TakeChunk(t, ChunkOf(dialect, SubSeq(a, s + 1, n)))
         IN  /\ new \in Take /\ new.usage = t.usage /\ new.bad = t.bad
             /\ dialect = "echo" /\ Len(t.ids) = 2 * s => Len(new.ids) = 2 * n
             /\ dialect = "silent" => new.ids = t.ids
             /\ dialect \notin {"echo", "silent"} /\ t.ids = SubSeq(a, 1, s) =>
                  new.ids = SubSeq(a, 1, n)
<1> DEFINE part == SubSeq(a, s + 1, n)
           ids  == StreamChunkTokenIds(ChunkOf(dialect, part))
           new  == TakeChunk(t, ChunkOf(dialect, part))
<1>1. part \in Seq(Nat) /\ Len(part) = n - s
  <2>1. \A i \in (s + 1)..n : a[i] \in Nat
    BY ElementOfSeq
  <2>2. s + 1 \in Int /\ n \in Int /\ s + 1 <= n
    OBVIOUS
  <2>3. /\ SubSeq(a, s + 1, n) \in Seq(Nat)
        /\ Len(SubSeq(a, s + 1, n)) = IF s + 1 <= n THEN n - (s + 1) + 1 ELSE 0
    BY <2>1, <2>2, SubSeqProperties, SMTT(20)
  <2> QED BY <2>2, <2>3
<1> HIDE DEF part
<1>2. ids = CASE dialect = "echo"                 -> part \o part
              [] dialect = "silent"               -> <<>>
              [] dialect \notin {"echo", "silent"} -> part
  BY <1>1, ChunkIds
<1>3. /\ part \o part \in Seq(Nat) /\ Len(part \o part) = 2 * (n - s)
  <2>1. part \o part \in Seq(Nat) /\ Len(part \o part) = Len(part) + Len(part)
    BY <1>1, ConcatProperties
  <2>2. (n - s) + (n - s) = 2 * (n - s)
    OBVIOUS
  <2> QED BY <1>1, <2>1, <2>2
<1>4. ids \in Seq(Nat)
  BY <1>1, <1>2, <1>3
<1>6. /\ t.ids \in Seq(Nat) /\ t.arrivals \in Nat /\ t.usage \in Nat \cup {NoCount}
      /\ t.bad \in BOOLEAN
  BY DEF Take
<1>5. new = [ids |-> t.ids \o ids, arrivals |-> IF ids = <<>> THEN t.arrivals ELSE t.arrivals + 1,
             usage |-> t.usage, text |-> TRUE, bad |-> t.bad]
  <2> HIDE DEF ids
  <2>1. new = [t EXCEPT !.ids = @ \o ids, !.arrivals = IF ids = <<>> THEN @ ELSE @ + 1,
                        !.text = TRUE]
    BY DEF TakeChunk, ids
  <2>2. t = [ids |-> t.ids, arrivals |-> t.arrivals, usage |-> t.usage, text |-> t.text,
             bad |-> t.bad]
    BY DEF Take
  <2> HIDE DEF new
  <2> QED BY <2>1, <2>2
<1> HIDE DEF ids
<1>7. t.ids \o ids \in Seq(Nat) /\ Len(t.ids \o ids) = Len(t.ids) + Len(ids)
  BY <1>4, <1>6, ConcatProperties
<1> HIDE DEF new
<1>8. /\ new.ids = t.ids \o ids /\ new.usage = t.usage /\ new.bad = t.bad
      /\ new \in Take
  <2>1. new.ids = t.ids \o ids /\ new.usage = t.usage /\ new.bad = t.bad
    BY <1>5
  <2>2. (IF ids = <<>> THEN t.arrivals ELSE t.arrivals + 1) \in Nat
    BY <1>6
  <2>3. new \in Take
    BY <1>5, <1>6, <1>7, <2>2, Zenon DEF Take
  <2> QED BY <2>1, <2>3
<1>9. dialect = "echo" /\ Len(t.ids) = 2 * s => Len(new.ids) = 2 * n
  <2> SUFFICES ASSUME dialect = "echo", Len(t.ids) = 2 * s PROVE Len(new.ids) = 2 * n
    OBVIOUS
  <2>1. Len(new.ids) = Len(t.ids) + Len(part \o part)
    BY <1>2, <1>7, <1>8
  <2>2. 2 * s + 2 * (n - s) = 2 * n
    OBVIOUS
  <2> QED BY <1>3, <2>1, <2>2
<1>10. dialect = "silent" => new.ids = t.ids
  BY <1>2, <1>6, <1>8, ConcatEmptySeq
<1>11. dialect \notin {"echo", "silent"} /\ t.ids = SubSeq(a, 1, s) => new.ids = SubSeq(a, 1, n)
  <2>1. SubSeq(a, 1, s) \o part = SubSeq(a, 1, n)
    <3>1. 1 \in 1..(Len(a) + 1) /\ s \in (1 - 1)..Len(a) /\ n \in s..Len(a)
      BY LenProperties
    <3> QED BY <3>1, ConcatAdjacentSubSeq DEF part
  <2> QED BY <1>2, <1>8, <2>1
<1> QED BY <1>8, <1>9, <1>10, <1>11 DEF new, part

LEMMA EmptyIsTake == EmptyTake \in Take
BY DEF EmptyTake, Take

\* What is recorded of an answer that has been read is good.
LEMMA ObservedGood ==
  ASSUME TypeInv, TakeInv, pc \in Reading
  PROVE  Observed \in Obs /\ Good(bench.setup, Observed)
<1> DEFINE o == Observed
           status == TokenCountStatus(take)
           d == ThisServer.dialect
<1>1. /\ take.ids \in Seq(Nat) /\ take.usage \in Nat \cup {NoCount} /\ take.bad \in BOOLEAN
      /\ Len(take.ids) \in Nat
  BY DEF TypeInv, Take
<1>2. /\ answer \in Seq(Nat) /\ answer \in Answers /\ Len(answer) \in Nat /\ sent \in 0..Len(answer)
  BY DEF TypeInv, TakeInv
<1>3. /\ o.ids = take.ids /\ o.ready = (take.ids # <<>> /\ status = "matched")
      /\ o.rates = Rates(take, counted) /\ o.truth = answer
      /\ o.clean = (sent = Len(answer) /\ take.usage # NoCount /\ ~take.bad)
  BY DEF Observed, Observation, TimingEvidenceValid
<1>4. take.ids # <<>> => (status = "matched" <=> ~take.bad /\ take.usage = Len(take.ids))
  BY <1>1, NoCountAssumption DEF TokenCountStatus
<1>5. Observed \in Obs
  <2>1. Rates(take, counted) \in SUBSET {"ttft", "tpot", "throughput"}
    BY DEF Rates
  <2>2. o = [ids |-> take.ids, ready |-> o.ready, rates |-> o.rates, truth |-> answer,
             clean |-> o.clean]
    BY <1>3 DEF Observed
  <2>3. o.ready \in BOOLEAN /\ o.clean \in BOOLEAN
    BY <1>3
  <2> HIDE DEF o
  <2> QED BY <1>1, <1>2, <1>3, <2>1, <2>2, <2>3 DEF Obs, o
<1> HIDE DEF o, status
<1>6. /\ take.usage # NoCount => take.usage = Len(answer) /\ sent = Len(answer)
      /\ ~take.bad => /\ d = "echo" => Len(take.ids) = 2 * sent
                      /\ d = "silent" => take.ids = <<>>
                      /\ d \notin {"echo", "silent"} => take.ids = SubSeq(answer, 1, sent)
  BY DEF TakeInv
<1>7. SubSeq(answer, 1, Len(answer)) = answer
  BY <1>2, SubSeqFull
<1>8. ASSUME o.ready PROVE o.ids = o.truth
  <2>1. take.ids # <<>> /\ ~take.bad /\ take.usage = Len(take.ids)
    BY <1>3, <1>4, <1>8
  <2>2. take.usage # NoCount
    BY <1>1, <2>1, NoCountAssumption
  <2>3. take.usage = Len(answer) /\ sent = Len(answer)
    BY <1>6, <2>2
  <2>4. Len(take.ids) # 0
    BY <1>1, <2>1, EmptySeq
  <2>5. d # "echo"
    BY <1>1, <1>2, <1>6, <2>1, <2>3, <2>4
  <2>6. d # "silent"
    BY <1>6, <2>1
  <2>7. take.ids = answer
    BY <1>6, <1>7, <2>1, <2>3, <2>5, <2>6
  <2> QED BY <1>3, <2>7
<1>9. ASSUME o.clean, o.truth # <<>>, bench.setup \in Reporting PROVE o.ready
  <2>1. sent = Len(answer) /\ take.usage # NoCount /\ ~take.bad /\ answer # <<>>
    BY <1>3, <1>9
  <2>2. d \notin {"echo", "silent"}
    BY <1>9 DEF Reporting, ThisServer
  <2>3. take.ids = answer
    BY <1>6, <1>7, <2>1, <2>2
  <2>4. take.usage = Len(take.ids)
    BY <1>6, <2>1, <2>3
  <2> QED BY <1>3, <1>4, <2>1, <2>3, <2>4
<1> QED BY <1>5, <1>8, <1>9 DEF Good, o

-----------------------------------------------------------------------------
(* The file and the groups.                                                *)

LEMMA Counts ==
  /\ WarmupRuns \in Nat /\ Runs \in Nat /\ Runs >= 1 /\ NumGroups \in Nat /\ NumGroups >= 1
  /\ WarmupRuns + Runs \in Nat /\ 1 \in 1..(WarmupRuns + Runs)
BY CountsAssumption

\* The fields of a bench.
Is(c, file, running, setup, groups) ==
  c.file = file /\ c.running = running /\ c.setup = setup /\ c.groups = groups

\* What a step of the file is, field by field.
LEMMA FileSteps ==
  ASSUME NEW b \in BenchState, NEW c
  PROVE  /\ \A s : c = File!Launched(b, s) => Is(c, b.file, TRUE, s, <<>>)
         /\ \A g : c = File!Measured(b, g) =>
                    Is(c, b.file, b.running, b.setup, Append(b.groups, g))
         /\ c = File!Opened(b) => Is(c, File!Torn, b.running, b.setup, b.groups)
         /\ \A failed : c = File!Flushed(b, failed) =>
                    Is(c, File!Whole(b, "partial", failed), b.running, b.setup, b.groups)
         /\ c = File!Completed(b) =>
              Is(c, File!Whole(b, "complete", FALSE), FALSE, b.setup, b.groups)
         /\ c = File!Stopped(b) => Is(c, b.file, FALSE, b.setup, b.groups)
<1>1. /\ b = [file |-> b.file, running |-> b.running, setup |-> b.setup, groups |-> b.groups]
      /\ b.running \in BOOLEAN
  BY DEF BenchState
<1>2. ASSUME NEW s, c = File!Launched(b, s)
      PROVE  Is(c, b.file, TRUE, s, <<>>)
  BY <1>1, <1>2 DEF File!Launched, Is
<1>3. ASSUME NEW g, c = File!Measured(b, g)
      PROVE  Is(c, b.file, b.running, b.setup, Append(b.groups, g))
  BY <1>1, <1>3 DEF File!Measured, Is
<1>4. ASSUME c = File!Opened(b)
      PROVE  Is(c, File!Torn, b.running, b.setup, b.groups)
  BY <1>1, <1>4 DEF File!Opened, Is
<1>5. ASSUME NEW failed, c = File!Flushed(b, failed)
      PROVE  Is(c, File!Whole(b, "partial", failed), b.running, b.setup, b.groups)
  BY <1>1, <1>5 DEF File!Flushed, Is
<1>6. ASSUME c = File!Completed(b)
      PROVE  Is(c, File!Whole(b, "complete", FALSE), FALSE, b.setup, b.groups)
  BY <1>1, <1>6 DEF File!Completed, Is
<1>7. ASSUME c = File!Stopped(b)
      PROVE  Is(c, b.file, FALSE, b.setup, b.groups)
  BY <1>1, <1>7 DEF File!Stopped, Is
<1> QED BY <1>2, <1>3, <1>4, <1>5, <1>6, <1>7

LEMMA FileTypes ==
  ASSUME NEW b \in BenchState
  PROVE  /\ b.file \in {File!Absent, File!Torn} \cup RecordFile /\ b.running \in BOOLEAN
         /\ b.setup \in Setups /\ b.groups \in Seq(Group)
         /\ \A kind \in {"partial", "complete"}, failed \in BOOLEAN :
              File!Whole(b, kind, failed) \in RecordFile
         /\ \A file \in {File!Absent, File!Torn} \cup RecordFile, running \in BOOLEAN,
              setup \in Setups, groups \in Seq(Group) :
              [file |-> file, running |-> running, setup |-> setup, groups |-> groups]
                \in BenchState
<1>1. /\ b.file \in {File!Absent, File!Torn} \cup RecordFile /\ b.running \in BOOLEAN
      /\ b.setup \in Setups /\ b.groups \in Seq(Group)
  BY DEF BenchState
<1>2. ASSUME NEW kind \in {"partial", "complete"}, NEW failed \in BOOLEAN
      PROVE  File!Whole(b, kind, failed) \in RecordFile
  BY <1>1 DEF RecordFile, File!Whole
<1>3. ASSUME NEW file \in {File!Absent, File!Torn} \cup RecordFile, NEW running \in BOOLEAN,
             NEW setup \in Setups, NEW groups \in Seq(Group)
      PROVE  [file |-> file, running |-> running, setup |-> setup, groups |-> groups]
               \in BenchState
  BY DEF BenchState
<1> QED BY <1>1, <1>2, <1>3

LEMMA FileStepTypes ==
  ASSUME NEW b \in BenchState, NEW c
  PROVE  /\ \A s \in Setups : c = File!Launched(b, s) => c \in BenchState
         /\ \A g \in Group : c = File!Measured(b, g) => c \in BenchState
         /\ c = File!Opened(b) => c \in BenchState
         /\ \A failed \in BOOLEAN : c = File!Flushed(b, failed) => c \in BenchState
         /\ c = File!Completed(b) => c \in BenchState
         /\ c = File!Stopped(b) => c \in BenchState
<1>1. /\ b.file \in {File!Absent, File!Torn} \cup RecordFile /\ b.running \in BOOLEAN
      /\ b.setup \in Setups /\ b.groups \in Seq(Group)
      /\ b = [file |-> b.file, running |-> b.running, setup |-> b.setup, groups |-> b.groups]
  BY DEF BenchState
<1>2. \A kind \in {"partial", "complete"}, failed \in BOOLEAN :
        File!Whole(b, kind, failed) \in RecordFile
  BY FileTypes
<1>3. ASSUME NEW s \in Setups, c = File!Launched(b, s) PROVE c \in BenchState
  <2>1. <<>> \in Seq(Group)
    BY EmptySeq
  <2>2. c = [file |-> b.file, running |-> TRUE, setup |-> s, groups |-> <<>>]
    BY <1>1, <1>3 DEF File!Launched
  <2> QED BY <1>1, <2>1, <2>2, Zenon DEF BenchState
<1>4. ASSUME NEW g \in Group, c = File!Measured(b, g) PROVE c \in BenchState
  <2>1. Append(b.groups, g) \in Seq(Group)
    BY <1>1
  <2> QED BY <1>1, <1>4, <2>1 DEF File!Measured, BenchState
<1>5. ASSUME c = File!Opened(b) PROVE c \in BenchState
  BY <1>1, <1>5 DEF File!Opened, BenchState
<1>6. ASSUME NEW failed \in BOOLEAN, c = File!Flushed(b, failed) PROVE c \in BenchState
  BY <1>1, <1>2, <1>6 DEF File!Flushed, BenchState
<1>7. ASSUME c = File!Completed(b) PROVE c \in BenchState
  BY <1>1, <1>2, <1>7 DEF File!Completed, BenchState
<1>8. ASSUME c = File!Stopped(b) PROVE c \in BenchState
  BY <1>1, <1>8 DEF File!Stopped, BenchState
<1> QED BY <1>3, <1>4, <1>5, <1>6, <1>7, <1>8

-----------------------------------------------------------------------------
(* Types.                                                                  *)

\* The answer under way is of its type.
AnswerType == answer \in Seq(Nat) /\ sent \in 0..Len(answer) /\ take \in Take

LEMMA ForgottenTypes ==
  ASSUME answer' = <<>>, sent' = 0, take' = EmptyTake
  PROVE  AnswerType'
<1>1. <<>> \in Seq(Nat) /\ Len(<<>>) = 0
  BY EmptySeq
<1> QED BY <1>1, EmptyIsTake DEF AnswerType

LEMMA ForgetTypes ==
  ASSUME ForgetAnswer
  PROVE  group' \in Seq(Obs) /\ nth' \in 1..(WarmupRuns + Runs) /\ AnswerType'
<1>1. <<>> \in Seq(Obs)
  BY EmptySeq
<1> QED BY <1>1, Counts, ForgottenTypes DEF ForgetAnswer, NoAnswer

LEMMA AnswerReadTypes ==
  ASSUME TypeInv, pc \in {"stream", "count"}, NEW count, AnswerRead(count)
  PROVE  pc' \in Pcs /\ nth' \in 1..(WarmupRuns + Runs) /\ AnswerType'
<1>1. CASE nth <= WarmupRuns
  <2>1. nth' = nth + 1 /\ pc' \in {"request", "scrape"}
    BY <1>1 DEF AnswerRead, ToAnswer, Await
  <2>2. AnswerType'
    BY <1>1, ForgottenTypes DEF AnswerRead, NoAnswer
  <2> QED BY <1>1, <2>1, <2>2, Counts DEF TypeInv, Pcs, AwaitPoints
<1>2. CASE ~(nth <= WarmupRuns)
  BY <1>2 DEF AnswerRead, Await, TypeInv, AnswerType, Pcs, AwaitPoints
<1> QED BY <1>1, <1>2

LEMMA TypeStep ==
  ASSUME TypeInv, TakeInv, GroupInv, [BenchNext]_benchVars
  PROVE  TypeInv'
<1> USE DEF Pcs, AwaitPoints, Await
<1>0. /\ bench \in BenchState /\ group \in Seq(Obs) /\ nth \in 1..(WarmupRuns + Runs)
      /\ AnswerType /\ launches \in Nat
  BY DEF TypeInv, AnswerType
<1> SUFFICES /\ pc' \in Pcs /\ bench' \in BenchState
             /\ group' \in Seq(Obs) /\ nth' \in 1..(WarmupRuns + Runs)
             /\ AnswerType' /\ launches' \in Nat
  BY DEF TypeInv, AnswerType
<1>1. CASE Launch
  <2>1. PICK s \in Setups : bench' = File!Launched(bench, s)
    BY <1>1 DEF Launch
  <2>2. bench' \in BenchState
    BY <1>0, <2>1, FileStepTypes
  <2>3. <<>> \in Seq(Obs)
    BY EmptySeq
  <2>4. pc' \in {"request", "scrape"} /\ nth' = 1 /\ group' = <<>>
        /\ launches' = launches + 1 /\ UNCHANGED <<answer, sent, take>>
    BY <1>1 DEF Launch, ToAnswer
  <2> QED BY <1>0, <2>2, <2>3, <2>4, Counts DEF AnswerType
<1>2. CASE Scrape
  BY <1>0, <1>2 DEF Scrape, measureVars, AnswerType
<1>3. CASE RequestOpens
  <2>1. answer' \in Answers /\ sent' = 0 /\ take' = EmptyTake
    BY <1>3 DEF RequestOpens
  <2>2. answer' \in Seq(Nat)
    BY <2>1, AnswersAssumption
  <2>3. Len(answer') \in Nat
    BY <2>2
  <2>4. AnswerType'
    BY <2>1, <2>2, <2>3, EmptyIsTake DEF AnswerType
  <2> QED BY <1>0, <1>3, <2>4 DEF RequestOpens
<1>4. CASE ChunkArrives
  <2>1. PICK n \in (sent + 1)..Len(answer) :
          /\ sent' = n
          /\ take' = TakeChunk(take, ChunkOf(ThisServer.dialect, SubSeq(answer, sent + 1, n)))
    BY <1>4 DEF ChunkArrives
  <2>2. ThisServer.dialect \in Dialects
    BY <1>0, FileTypes, ServerAssumption DEF ThisServer
  <2>3. take' \in Take
    BY <1>0, <2>1, <2>2, ChunkTaken DEF AnswerType
  <2>4. answer' = answer /\ UNCHANGED <<pc, bench, group, nth, launches>>
    BY <1>4 DEF ChunkArrives
  <2>5. AnswerType'
    BY <1>0, <2>1, <2>3, <2>4, LenProperties DEF AnswerType
  <2> QED BY <1>0, <2>4, <2>5 DEF TypeInv
<1>5. CASE MalformedArrives
  <2>1. /\ UNCHANGED <<pc, bench, group, nth, answer, launches>>
        /\ sent' \in sent..Len(answer) /\ take' = TakeMalformed(take)
    BY <1>5 DEF MalformedArrives
  <2>2. take' \in Take
    BY <1>0, <2>1 DEF TakeMalformed, Take, AnswerType
  <2>3. AnswerType'
    BY <1>0, <2>1, <2>2, LenProperties DEF AnswerType
  <2> QED BY <1>0, <2>1, <2>3 DEF TypeInv
<1>6. CASE UsageArrives
  <2>1. UNCHANGED <<pc, bench, group, nth, answer, sent, launches>>
        /\ take' = TakeUsage(take, Len(answer))
    BY <1>6 DEF UsageArrives
  <2>2. Len(answer) \in Nat
    BY <1>0 DEF AnswerType
  <2>3. take' \in Take
    BY <1>0, <2>1, <2>2 DEF TakeUsage, Take, AnswerType
  <2> QED BY <1>0, <2>1, <2>3 DEF TypeInv, AnswerType
<1>7. CASE StreamEnds
  <2>1. UNCHANGED <<bench, group, launches>> /\ pc = "stream"
    BY <1>7 DEF StreamEnds
  <2>2. CASE AnswerRead(NoCount)
    BY <1>0, <2>1, <2>2, AnswerReadTypes
  <2>3. CASE pc' = "count" /\ UNCHANGED <<nth, answer, sent, take>>
    BY <1>0, <2>1, <2>3 DEF AnswerType
  <2> QED BY <1>7, <2>2, <2>3 DEF StreamEnds
<1>8. CASE CountReturns
  <2>1. UNCHANGED <<bench, group, launches>> /\ pc = "count"
    BY <1>8 DEF CountReturns
  <2>2. PICK count \in {sent, NoCount} : AnswerRead(count)
    BY <1>8 DEF CountReturns
  <2> QED BY <1>0, <2>1, <2>2, AnswerReadTypes
<1>9. CASE Rescrape
  <2> DEFINE observations == Append(group, Observed)
  <2>1. pc = "rescrape" /\ Observed \in Obs
    BY <1>9, ObservedGood DEF Rescrape, Reading
  <2>2. observations \in Seq(Obs) /\ Len(observations) = Len(group) + 1
    BY <1>0, <2>1
  <2>3. AnswerType' /\ launches' = launches
    BY <1>9, ForgottenTypes DEF Rescrape, NoAnswer
  <2>4. CASE nth < WarmupRuns + Runs
    <3>1. group' = observations /\ nth' = nth + 1 /\ bench' = bench
          /\ pc' \in {"request", "scrape"}
      BY <1>9, <2>4 DEF Rescrape, ToAnswer
    <3> HIDE DEF observations
    <3> QED BY <1>0, <2>2, <2>3, <2>4, <3>1, Counts
  <2>5. CASE ~(nth < WarmupRuns + Runs)
    <3>1. /\ bench' = File!Measured(bench, observations) /\ group' = <<>> /\ nth' = nth
          /\ pc' = "save"
      BY <1>9, <2>5 DEF Rescrape
    <3>2. Len(group) = Runs - 1
      <4>1. nth = WarmupRuns + Runs /\ nth > WarmupRuns
        BY <1>0, <2>5, Counts
      <4>2. Len(group) = nth - WarmupRuns - 1
        BY <2>1, <4>1, Counts DEF GroupInv
      <4> QED BY <4>1, <4>2, Counts
    <3>3. observations \in Group
      BY <2>2, <3>2, Counts DEF Group
    <3>4. bench' \in BenchState
      BY <1>0, <3>1, <3>3, FileStepTypes
    <3>5. <<>> \in Seq(Obs)
      BY EmptySeq
    <3> QED BY <1>0, <2>3, <3>1, <3>4, <3>5
  <2> QED BY <2>4, <2>5
<1>10. CASE Flush
  <2>1. bench' = File!Flushed(bench, FALSE)
        /\ UNCHANGED <<group, answer, sent, take, launches>>
    BY <1>10 DEF Flush
  <2>2. bench' \in BenchState
    BY <1>0, <2>1, FileStepTypes
  <2>3. pc' \in Pcs /\ nth' \in {nth, 1}
    BY <1>10 DEF Flush, ToAnswer
  <2> QED BY <1>0, <2>1, <2>2, <2>3, Counts DEF AnswerType
<1>11. CASE RequestFails
  BY <1>0, <1>11, ForgetTypes DEF RequestFails
<1>12. CASE Report
  <2>1. bench' = File!Flushed(bench, TRUE)
    BY <1>12 DEF Report
  <2>2. bench' \in BenchState
    BY <1>0, <2>1, FileStepTypes
  <2> QED BY <1>0, <1>12, <2>2 DEF Report, measureVars, AnswerType
<1>13. CASE OpenFails \/ WriteFails
  <2>1. PICK last \in BOOLEAN : WriteRaises(last)
    BY <1>13 DEF OpenFails, WriteFails
  <2>2. bench' \in BenchState /\ pc' \in Pcs
    BY <1>0, <2>1, FileStepTypes DEF WriteRaises
  <2> QED BY <1>0, <2>1, <2>2, ForgetTypes DEF WriteRaises
<1>21. CASE Open
  <2>1. bench' \in BenchState
    BY <1>0, <1>21, FileStepTypes DEF Open
  <2>2. pc' \in Pcs
    BY <1>21 DEF Open, Opening
  <2> QED BY <1>0, <1>21, <2>1, <2>2 DEF Open, measureVars, AnswerType
<1>14. CASE Interrupt
  BY <1>0, <1>14, ForgetTypes DEF Interrupt
<1>15. ASSUME NEW how, NEW error, Leave(how, error)
       PROVE  /\ pc' \in Pcs /\ bench' \in BenchState
              /\ group' \in Seq(Obs) /\ nth' \in 1..(WarmupRuns + Runs)
              /\ AnswerType' /\ launches' \in Nat
  <2>1. bench' \in BenchState /\ pc' \in Pcs
    BY <1>0, <1>15, FileStepTypes DEF Leave
  <2> QED BY <1>0, <1>15, <2>1, ForgetTypes DEF Leave
<1>16. CASE PoolCloses
  BY <1>15, <1>16 DEF PoolCloses
<1>17. CASE PoolCloseFails
  BY <1>15, <1>17 DEF PoolCloseFails
<1>18. CASE Finalize
  <2>1. bench' \in BenchState
    BY <1>0, <1>18, FileStepTypes DEF Finalize
  <2> QED BY <1>0, <1>18, <2>1 DEF Finalize, measureVars, AnswerType
<1>19. CASE Die
  <2>1. bench' \in BenchState
    BY <1>0, <1>19, FileStepTypes DEF Die
  <2> QED BY <1>0, <1>19, <2>1, ForgetTypes DEF Die
<1>20. CASE UNCHANGED benchVars
  BY <1>0, <1>20 DEF benchVars, measureVars, AnswerType, TypeInv
<1> QED BY <1>1, <1>2, <1>3, <1>4, <1>5, <1>6, <1>7, <1>8, <1>9, <1>10, <1>11, <1>12, <1>13,
           <1>14, <1>16, <1>17, <1>18, <1>19, <1>20, <1>21 DEF BenchNext, Process

-----------------------------------------------------------------------------
(* The answer under way.                                                   *)

LEMMA EmptyFacts ==
  /\ EmptyTake.usage = NoCount /\ EmptyTake.bad = FALSE /\ EmptyTake.ids = <<>>
  /\ \A a : SubSeq(a, 1, 0) = <<>>
  /\ Len(<<>>) = 0 /\ 2 * 0 = 0
<1>1. EmptyTake.usage = NoCount /\ EmptyTake.bad = FALSE /\ EmptyTake.ids = <<>>
  BY DEF EmptyTake
<1>2. \A a : SubSeq(a, 1, 0) = <<>>
  BY SubSeqEmpty
<1> QED BY <1>1, <1>2, EmptySeq

LEMMA TakeForgotten ==
  ASSUME pc' \notin Reading, answer' = <<>>, sent' = 0, take' = EmptyTake
  PROVE  TakeInv'
BY EmptyFacts DEF TakeInv

LEMMA TakeKept ==
  ASSUME TakeInv, pc \in Reading, pc' \in Reading, UNCHANGED <<answer, sent, take>>,
         bench'.setup = bench.setup
  PROVE  TakeInv'
BY DEF TakeInv, ThisServer

LEMMA TakeForgets ==
  ASSUME ForgetAnswer, pc' \notin Reading
  PROVE  TakeInv'
BY TakeForgotten DEF ForgetAnswer, NoAnswer

\* Between answers nothing has been read, and nothing changes that.
LEMMA TakeIdle ==
  ASSUME TakeInv, pc \notin Reading, pc' \notin Reading, UNCHANGED <<answer, sent, take>>
  PROVE  TakeInv'
<1>1. answer' = <<>> /\ sent' = 0 /\ take' = EmptyTake
  BY DEF TakeInv
<1> QED BY <1>1, TakeForgotten

LEMMA TakeOfAnswerRead ==
  ASSUME TakeInv, pc \in {"stream", "count"}, NEW count, AnswerRead(count), UNCHANGED bench
  PROVE  TakeInv'
<1>1. CASE nth <= WarmupRuns
  <2>1. pc' \notin Reading /\ answer' = <<>> /\ sent' = 0 /\ take' = EmptyTake
    BY <1>1 DEF AnswerRead, ToAnswer, Await, Reading, NoAnswer
  <2> QED BY <2>1, TakeForgotten
<1>2. CASE ~(nth <= WarmupRuns)
  <2>1. pc' = "rescrape" /\ UNCHANGED <<answer, sent, take>>
    BY <1>2 DEF AnswerRead, Await
  <2> QED BY <2>1, TakeKept DEF Reading
<1> QED BY <1>1, <1>2

LEMMA TakeStep ==
  ASSUME TypeInv, TakeInv, [BenchNext]_benchVars
  PROVE  TakeInv'
<1> USE DEF Reading, Await
<1>0. /\ bench \in BenchState /\ answer \in Seq(Nat) /\ Len(answer) \in Nat
      /\ sent \in 0..Len(answer) /\ take \in Take
  BY DEF TypeInv
<1>1. CASE Launch
  <2>1. pc = "down" /\ pc' \in {"request", "scrape"} /\ UNCHANGED <<answer, sent, take>>
    BY <1>1 DEF Launch, ToAnswer
  <2> QED BY <2>1, TakeIdle
<1>2. CASE Scrape
  BY <1>2, TakeIdle DEF Scrape, measureVars
<1>3. CASE RequestOpens
  <2>1. pc' = "stream" /\ answer' \in Answers /\ sent' = 0 /\ take' = EmptyTake
    BY <1>3 DEF RequestOpens
  <2> QED BY <2>1, EmptyFacts DEF TakeInv
<1>4. CASE ChunkArrives
  <2>1. PICK n \in (sent + 1)..Len(answer) :
          /\ sent' = n
          /\ take' = TakeChunk(take, ChunkOf(ThisServer.dialect, SubSeq(answer, sent + 1, n)))
    BY <1>4 DEF ChunkArrives
  <2>2. /\ pc = "stream" /\ sent < Len(answer)
        /\ UNCHANGED <<pc, bench, answer>>
    BY <1>4 DEF ChunkArrives
  <2> DEFINE d == ThisServer.dialect
  <2>3. d \in Dialects
    BY <1>0, FileTypes, ServerAssumption DEF ThisServer
  <2>4. /\ take'.usage = take.usage /\ take'.bad = take.bad
        /\ d = "echo" /\ Len(take.ids) = 2 * sent => Len(take'.ids) = 2 * n
        /\ d = "silent" => take'.ids = take.ids
        /\ d \notin {"echo", "silent"} /\ take.ids = SubSeq(answer, 1, sent) =>
             take'.ids = SubSeq(answer, 1, n)
    BY <1>0, <2>1, <2>3, ChunkTaken
  <2>5. take.usage = NoCount
    BY <1>0, <2>2 DEF TakeInv
  <2>6. ThisServer' = ThisServer
    BY <2>2 DEF ThisServer
  <2>7. answer' \in Answers
    BY <2>2 DEF TakeInv
  <2>8. /\ ~take.bad =>
             /\ d = "echo" => Len(take.ids) = 2 * sent
             /\ d = "silent" => take.ids = <<>>
             /\ d \notin {"echo", "silent"} => take.ids = SubSeq(answer, 1, sent)
    BY DEF TakeInv
  <2>9. ~take'.bad =>
             /\ d = "echo" => Len(take'.ids) = 2 * n
             /\ d = "silent" => take'.ids = <<>>
             /\ d \notin {"echo", "silent"} => take'.ids = SubSeq(answer, 1, n)
    <3> HIDE DEF d
    <3> QED BY <2>4, <2>8
  <2>10. pc' \in Reading /\ take'.usage = NoCount /\ sent' = n /\ answer' = answer
    BY <2>1, <2>2, <2>4, <2>5
  <2> QED BY <2>6, <2>7, <2>9, <2>10 DEF TakeInv
<1>5. CASE MalformedArrives
  <2>1. /\ pc = "stream" /\ UNCHANGED <<pc, bench, answer>>
        /\ sent' \in sent..Len(answer) /\ take' = TakeMalformed(take)
    BY <1>5 DEF MalformedArrives
  <2>2. take'.bad = TRUE /\ take'.usage = take.usage
    BY <1>0, <2>1 DEF TakeMalformed, Take
  <2>3. take.usage # NoCount => sent' = Len(answer)
    BY <1>0, <2>1 DEF TakeInv
  <2> QED BY <2>1, <2>2, <2>3 DEF TakeInv
<1>6. CASE UsageArrives
  <2>1. /\ pc = "stream" /\ UNCHANGED <<pc, bench, answer, sent>> /\ sent = Len(answer)
        /\ take' = TakeUsage(take, Len(answer))
    BY <1>6 DEF UsageArrives
  <2>2. take'.ids = take.ids /\ take'.bad = take.bad /\ take'.usage = Len(answer)
    BY <1>0, <2>1 DEF TakeUsage, Take
  <2> QED BY <2>1, <2>2 DEF TakeInv, ThisServer
<1>7. CASE StreamEnds
  <2>1. pc = "stream" /\ UNCHANGED bench
    BY <1>7 DEF StreamEnds
  <2>2. CASE AnswerRead(NoCount)
    BY <2>1, <2>2, TakeOfAnswerRead
  <2>3. CASE pc' = "count" /\ UNCHANGED <<answer, sent, take>>
    BY <2>1, <2>3, TakeKept
  <2> QED BY <1>7, <2>2, <2>3 DEF StreamEnds
<1>8. CASE CountReturns
  <2>1. pc = "count" /\ UNCHANGED bench
    BY <1>8 DEF CountReturns
  <2> QED BY <1>8, <2>1, TakeOfAnswerRead DEF CountReturns
<1>9. CASE Rescrape
  BY <1>9, TakeForgotten DEF Rescrape, ToAnswer, NoAnswer
<1>10. CASE Flush
  BY <1>10, TakeIdle DEF Flush, ToAnswer
<1>11. CASE RequestFails
  BY <1>11, TakeForgets DEF RequestFails
<1>12. CASE Report
  BY <1>12, TakeIdle DEF Report, measureVars
<1>13. CASE OpenFails \/ WriteFails
  BY <1>13, TakeForgets DEF OpenFails, WriteFails, WriteRaises
<1>20. CASE Open
  BY <1>20, TakeIdle DEF Open, Opening, measureVars
<1>14. CASE Interrupt
  BY <1>14, TakeForgets DEF Interrupt
<1>15. CASE PoolCloses
  BY <1>15, TakeForgets DEF PoolCloses, Leave
<1>16. CASE PoolCloseFails
  BY <1>16, TakeForgets DEF PoolCloseFails, Leave
<1>17. CASE Finalize
  BY <1>17, TakeIdle DEF Finalize, measureVars
<1>18. CASE Die
  BY <1>18, TakeForgets DEF Die
<1>19. CASE UNCHANGED benchVars
  BY <1>19 DEF benchVars, measureVars, TakeInv, ThisServer
<1> QED BY <1>1, <1>2, <1>3, <1>4, <1>5, <1>6, <1>7, <1>8, <1>9, <1>10, <1>11, <1>12, <1>13,
           <1>14, <1>15, <1>16, <1>17, <1>18, <1>19, <1>20 DEF BenchNext, Process

-----------------------------------------------------------------------------
(* The groups.                                                             *)

\* The file stays as it is, is torn, or is written with the groups in memory.
FileOf(b) == {b.file, File!Torn} \cup
             {File!Whole(b, kind, failed) : kind \in {"partial", "complete"}, failed \in BOOLEAN}

LEMMA WholeGood ==
  ASSUME ReadyIsWholeAnswer, bench'.setup = bench.setup, bench'.groups = bench.groups,
         bench'.file \in FileOf(bench)
  PROVE  ReadyIsWholeAnswer'
<1>1. ReadyWhenWhole(bench.setup, bench.groups)
  BY DEF ReadyIsWholeAnswer
<1>2. CASE bench'.file = bench.file
  BY <1>2 DEF ReadyIsWholeAnswer
<1>3. CASE bench'.file = File!Torn
  BY <1>1, <1>3 DEF ReadyIsWholeAnswer, File!Torn
<1>4. ASSUME NEW kind \in {"partial", "complete"}, NEW failed \in BOOLEAN,
             bench'.file = File!Whole(bench, kind, failed)
      PROVE  ReadyIsWholeAnswer'
  BY <1>1, <1>4 DEF ReadyIsWholeAnswer, File!Whole
<1> QED BY <1>2, <1>3, <1>4 DEF FileOf

\* Nothing is being measured after the step.
LEMMA GroupForgotten ==
  ASSUME GroupInv, group' = <<>>, pc' \notin AwaitPoints,
         bench'.setup = bench.setup, bench'.groups = bench.groups,
         bench'.file \in FileOf(bench)
  PROVE  GroupInv'
<1>1. ReadyIsWholeAnswer'
  BY WholeGood DEF GroupInv
<1>2. pc' \notin {"scrape", "rescrape"}
  BY DEF AwaitPoints
<1>3. DOMAIN group' = {}
  OBVIOUS
<1> QED BY <1>1, <1>2, <1>3 DEF GroupInv

\* The answer goes on.
LEMMA GroupKept ==
  ASSUME GroupInv, pc \in AwaitPoints, pc' \in AwaitPoints, UNCHANGED <<bench, group, nth>>,
         pc' \in {"scrape", "rescrape"} => nth > WarmupRuns
  PROVE  GroupInv'
BY DEF GroupInv, ReadyIsWholeAnswer

LEMMA GroupOfAnswerRead ==
  ASSUME TypeInv, GroupInv, pc \in {"stream", "count"}, NEW count, AnswerRead(count),
         UNCHANGED <<bench, group>>
  PROVE  GroupInv'
<1>1. CASE nth <= WarmupRuns
  <2>1. nth' = nth + 1 /\ pc' = IF nth + 1 <= WarmupRuns THEN "request" ELSE "scrape"
    BY <1>1 DEF AnswerRead, ToAnswer, Await
  <2>2. Len(group) = 0 /\ Len(bench.groups) < NumGroups
    BY <1>1 DEF GroupInv, AwaitPoints
  <2>3. nth \in Nat
    BY Counts DEF TypeInv
  <2>4. /\ Len(group') = IF nth' <= WarmupRuns THEN 0 ELSE nth' - WarmupRuns - 1
        /\ pc' \in {"scrape", "rescrape"} => nth' > WarmupRuns
        /\ pc' \in AwaitPoints
    BY <1>1, <2>1, <2>2, <2>3, Counts DEF AwaitPoints
  <2> QED BY <2>2, <2>4 DEF GroupInv, ReadyIsWholeAnswer
<1>2. CASE ~(nth <= WarmupRuns)
  <2>1. pc' = "rescrape" /\ UNCHANGED nth
    BY <1>2 DEF AnswerRead, Await
  <2>2. nth > WarmupRuns
    BY <1>2, Counts DEF TypeInv
  <2> QED BY <2>1, <2>2, GroupKept DEF AwaitPoints
<1> QED BY <1>1, <1>2

LEMMA GroupStep ==
  ASSUME TypeInv, TakeInv, GroupInv, [BenchNext]_benchVars
  PROVE  GroupInv'
<1> USE DEF Await
<1>0. /\ bench \in BenchState /\ bench.groups \in Seq(Group) /\ Len(bench.groups) \in Nat
      /\ group \in Seq(Obs) /\ Len(group) \in Nat /\ nth \in 1..(WarmupRuns + Runs)
      /\ nth \in Nat
  BY FileTypes, Counts DEF TypeInv
<1>f. \A failed \in BOOLEAN, kind \in {"partial", "complete"} :
        /\ File!Whole(bench, kind, failed) \in FileOf(bench)
        /\ File!Torn \in FileOf(bench) /\ bench.file \in FileOf(bench)
  BY DEF FileOf
<1>e. Len(<<>>) = 0 /\ DOMAIN <<>> = {}
  BY EmptySeq
<1>1. CASE Launch
  <2>1. PICK s \in Setups : bench' = File!Launched(bench, s)
    BY <1>1 DEF Launch
  <2>i. Is(bench', bench.file, TRUE, s, <<>>)
    BY <1>0, <2>1, FileSteps
  <2>2. bench'.file = bench.file /\ bench'.setup = s /\ bench'.groups = <<>>
    BY <2>i DEF Is
  <2>3. group' = <<>> /\ nth' = 1 /\ pc' = IF 1 <= WarmupRuns THEN "request" ELSE "scrape"
    BY <1>1 DEF Launch, ToAnswer
  <2>4. ReadyIsWholeAnswer'
    BY <1>e, <2>2 DEF GroupInv, ReadyIsWholeAnswer, ReadyWhenWhole
  <2>5. /\ Len(group') = IF nth' <= WarmupRuns THEN 0 ELSE nth' - WarmupRuns - 1
        /\ pc' \in {"scrape", "rescrape"} => nth' > WarmupRuns
        /\ pc' \in AwaitPoints
    BY <1>e, <2>3, Counts DEF AwaitPoints
  <2>6. Len(bench'.groups) = 0 /\ 0 < NumGroups
    BY <1>e, <2>2, Counts
  <2> QED BY <1>e, <2>3, <2>4, <2>5, <2>6, Counts DEF GroupInv
<1>2. CASE Scrape
  BY <1>2, GroupKept DEF Scrape, measureVars, AwaitPoints
<1>3. CASE RequestOpens
  BY <1>3, GroupKept DEF RequestOpens, AwaitPoints
<1>4. CASE ChunkArrives
  BY <1>4, GroupKept DEF ChunkArrives, AwaitPoints
<1>5. CASE MalformedArrives
  BY <1>5, GroupKept DEF MalformedArrives, AwaitPoints
<1>6. CASE UsageArrives
  BY <1>6, GroupKept DEF UsageArrives, AwaitPoints
<1>7. CASE StreamEnds
  <2>1. pc = "stream" /\ UNCHANGED <<bench, group>>
    BY <1>7 DEF StreamEnds
  <2>2. CASE AnswerRead(NoCount)
    BY <2>1, <2>2, GroupOfAnswerRead
  <2>3. CASE pc' = "count" /\ UNCHANGED <<nth, answer, sent, take>>
    BY <2>1, <2>3, GroupKept DEF AwaitPoints
  <2> QED BY <1>7, <2>2, <2>3 DEF StreamEnds
<1>8. CASE CountReturns
  <2>1. pc = "count" /\ UNCHANGED <<bench, group>>
    BY <1>8 DEF CountReturns
  <2> QED BY <1>8, <2>1, GroupOfAnswerRead DEF CountReturns
<1>9. CASE Rescrape
  <2> DEFINE observations == Append(group, Observed)
  <2>1. pc = "rescrape" /\ Observed \in Obs /\ Good(bench.setup, Observed)
    BY <1>9, ObservedGood DEF Rescrape, Reading
  <2>2. nth > WarmupRuns /\ Len(group) = nth - WarmupRuns - 1 /\ Len(bench.groups) < NumGroups
    BY <1>0, <2>1, Counts DEF GroupInv, AwaitPoints
  <2>3. /\ Len(observations) = Len(group) + 1 /\ DOMAIN observations = 1..(Len(group) + 1)
        /\ \A i \in 1..Len(group) : observations[i] = group[i]
        /\ observations[Len(group) + 1] = Observed
    BY <1>0, <2>1
  <2>4. \A i \in DOMAIN observations : Good(bench.setup, observations[i])
    <3>1. \A i \in 1..Len(group) : Good(bench.setup, group[i])
      BY <1>0 DEF GroupInv
    <3> HIDE DEF observations
    <3> QED BY <1>0, <2>1, <2>3, <3>1
  <2>5. CASE nth < WarmupRuns + Runs
    <3>1. /\ group' = observations /\ nth' = nth + 1 /\ bench' = bench
          /\ pc' = IF nth + 1 <= WarmupRuns THEN "request" ELSE "scrape"
      BY <1>9, <2>5 DEF Rescrape, ToAnswer
    <3> HIDE DEF observations
    <3>2. /\ Len(group') = IF nth' <= WarmupRuns THEN 0 ELSE nth' - WarmupRuns - 1
          /\ pc' = "scrape" /\ nth' > WarmupRuns
      BY <1>0, <2>2, <2>3, <3>1, Counts, SMTT(20)
    <3>3. ReadyIsWholeAnswer'
      BY <3>1 DEF GroupInv, ReadyIsWholeAnswer
    <3> QED BY <2>2, <2>4, <3>1, <3>2, <3>3 DEF GroupInv, AwaitPoints
  <2>6. CASE ~(nth < WarmupRuns + Runs)
    <3>1. /\ bench' = File!Measured(bench, observations) /\ group' = <<>>
          /\ pc' = "save"
      BY <1>9, <2>6 DEF Rescrape
    <3> HIDE DEF observations
    <3>i. Is(bench', bench.file, bench.running, bench.setup, Append(bench.groups, observations))
      BY <1>0, <3>1, FileSteps
    <3>2. /\ bench'.file = bench.file /\ bench'.setup = bench.setup
          /\ bench'.groups = Append(bench.groups, observations)
      BY <3>i DEF Is
    <3>3. /\ Len(bench'.groups) = Len(bench.groups) + 1
          /\ DOMAIN bench'.groups = 1..(Len(bench.groups) + 1)
          /\ \A g \in 1..Len(bench.groups) : bench'.groups[g] = bench.groups[g]
          /\ bench'.groups[Len(bench.groups) + 1] = observations
      BY <1>0, <3>2
    <3>4. ReadyWhenWhole(bench'.setup, bench'.groups)
      <4>1. \A g \in 1..Len(bench.groups) : \A i \in DOMAIN bench.groups[g] :
              Good(bench.setup, bench.groups[g][i])
        BY <1>0 DEF GroupInv, ReadyIsWholeAnswer, ReadyWhenWhole, Good
      <4>2. \A g \in 1..(Len(bench.groups) + 1) : \A i \in DOMAIN bench'.groups[g] :
              Good(bench'.setup, bench'.groups[g][i])
        BY <1>0, <2>4, <3>2, <3>3, <4>1
      <4> QED BY <3>3, <4>2 DEF ReadyWhenWhole, Good
    <3>5. ReadyIsWholeAnswer'
      BY <3>2, <3>4 DEF GroupInv, ReadyIsWholeAnswer
    <3>6. Len(bench'.groups) <= NumGroups
      BY <1>0, <2>2, <3>3, Counts
    <3> QED BY <1>e, <3>1, <3>5, <3>6 DEF GroupInv, AwaitPoints
  <2> QED BY <2>5, <2>6
<1>10. CASE Flush
  <2>1. bench' = File!Flushed(bench, FALSE) /\ pc = "flush" /\ group' = group
    BY <1>10 DEF Flush
  <2>2. /\ bench'.file = File!Whole(bench, "partial", FALSE) /\ bench'.setup = bench.setup
        /\ bench'.groups = bench.groups
    BY <1>0, <2>1, FileSteps DEF Is
  <2>3. group = <<>> /\ Len(bench.groups) <= NumGroups
    BY <2>1 DEF GroupInv, AwaitPoints
  <2>4. bench'.file \in FileOf(bench)
    BY <1>f, <2>2
  <2>5. CASE Len(bench.groups) = NumGroups
    <3>1. pc' = "closing"
      BY <1>10, <2>5 DEF Flush
    <3> QED BY <2>1, <2>2, <2>3, <2>4, <3>1, GroupForgotten DEF AwaitPoints
  <2>6. CASE Len(bench.groups) # NumGroups
    <3>1. nth' = 1 /\ pc' = IF 1 <= WarmupRuns THEN "request" ELSE "scrape"
      BY <1>10, <2>6 DEF Flush, ToAnswer
    <3>2. ReadyIsWholeAnswer'
      BY <2>2, <2>4, WholeGood DEF GroupInv
    <3>3. /\ Len(group') = IF nth' <= WarmupRuns THEN 0 ELSE nth' - WarmupRuns - 1
          /\ pc' \in {"scrape", "rescrape"} => nth' > WarmupRuns
          /\ pc' \in AwaitPoints /\ group' = <<>>
      BY <1>e, <2>1, <2>3, <3>1, Counts DEF AwaitPoints
    <3>4. Len(bench'.groups) < NumGroups
      BY <1>0, <2>2, <2>3, <2>6, Counts
    <3> QED BY <1>e, <2>2, <2>3, <3>2, <3>3, <3>4 DEF GroupInv
  <2> QED BY <2>5, <2>6
<1>11. CASE RequestFails
  BY <1>f, <1>11, GroupForgotten DEF RequestFails, ForgetAnswer, AwaitPoints
<1>12. CASE Report
  <2>1. Is(bench', File!Whole(bench, "partial", TRUE), bench.running, bench.setup, bench.groups)
    BY <1>0, <1>12, FileSteps DEF Report
  <2>2. group' = <<>> /\ pc' \notin AwaitPoints
    BY <1>12 DEF Report, measureVars, GroupInv, AwaitPoints
  <2> QED BY <1>f, <2>1, <2>2, GroupForgotten DEF Is
<1>13. CASE OpenFails \/ WriteFails
  <2>1. PICK last \in BOOLEAN : WriteRaises(last)
    BY <1>13 DEF OpenFails, WriteFails
  <2>2. \/ bench' = bench
        \/ Is(bench', bench.file, FALSE, bench.setup, bench.groups)
    BY <1>0, <2>1, FileSteps DEF WriteRaises
  <2>3. group' = <<>> /\ pc' \notin AwaitPoints
    BY <2>1 DEF WriteRaises, ForgetAnswer, AwaitPoints
  <2> QED BY <1>f, <2>2, <2>3, GroupForgotten DEF Is
<1>21. CASE Open
  <2>1. Is(bench', File!Torn, bench.running, bench.setup, bench.groups)
    BY <1>0, <1>21, FileSteps DEF Open
  <2>2. group' = <<>> /\ pc' \notin AwaitPoints
    BY <1>21 DEF Open, Opening, measureVars, GroupInv, AwaitPoints
  <2> QED BY <1>f, <2>1, <2>2, GroupForgotten DEF Is
<1>14. CASE Interrupt
  BY <1>f, <1>14, GroupForgotten DEF Interrupt, ForgetAnswer, AwaitPoints
<1>15. ASSUME NEW how, NEW error, Leave(how, error)
       PROVE  GroupInv'
  <2>1. \/ bench' = bench
        \/ Is(bench', bench.file, FALSE, bench.setup, bench.groups)
    BY <1>0, <1>15, FileSteps DEF Leave
  <2>2. group' = <<>> /\ pc' \notin AwaitPoints
    BY <1>15 DEF Leave, ForgetAnswer, AwaitPoints
  <2> QED BY <1>f, <2>1, <2>2, GroupForgotten DEF Is
<1>16. CASE PoolCloses
  BY <1>15, <1>16 DEF PoolCloses
<1>17. CASE PoolCloseFails
  BY <1>15, <1>17 DEF PoolCloseFails
<1>18. CASE Finalize
  <2>1. Is(bench', File!Whole(bench, "complete", FALSE), FALSE, bench.setup, bench.groups)
    BY <1>0, <1>18, FileSteps DEF Finalize
  <2>2. group' = <<>> /\ pc' \notin AwaitPoints
    BY <1>18 DEF Finalize, measureVars, GroupInv, AwaitPoints
  <2> QED BY <1>f, <2>1, <2>2, GroupForgotten DEF Is
<1>19. CASE Die
  <2>1. Is(bench', bench.file, FALSE, bench.setup, bench.groups)
    BY <1>0, <1>19, FileSteps DEF Die
  <2> QED BY <1>f, <1>19, <2>1, GroupForgotten DEF Die, ForgetAnswer, Is, AwaitPoints
<1>20. CASE UNCHANGED benchVars
  BY <1>20 DEF benchVars, measureVars, GroupInv, ReadyIsWholeAnswer
<1> QED BY <1>1, <1>2, <1>3, <1>4, <1>5, <1>6, <1>7, <1>8, <1>9, <1>10, <1>11, <1>12, <1>13,
           <1>14, <1>16, <1>17, <1>18, <1>19, <1>20, <1>21 DEF BenchNext, Process
-----------------------------------------------------------------------------
(* The file and the exception.                                             *)

\* What there is to know of the place of the process when it may still go on.
LEMMA PlacesApart ==
  /\ AwaitPoints \cap {"save", "flush", "tell", "report", "closing", "finish", "final", "down"} = {}
  /\ {"scrape", "request", "stream", "count", "rescrape"} \subseteq AwaitPoints
BY DEF AwaitPoints

\* The answer goes on.
LEMMA WriteKept ==
  ASSUME WriteInv, pc \in AwaitPoints, pc' \in AwaitPoints, UNCHANGED <<bench, exc, unopened>>
  PROVE  WriteInv'
<1>1. pc' \notin {"save", "flush", "tell", "report", "closing", "finish", "final", "down"}
  BY PlacesApart
<1>2. bench.running /\ exc' = "none" /\ unopened' = "none"
  BY PlacesApart DEF WriteInv
<1> QED BY <1>1, <1>2 DEF WriteInv, EndMatchesFile

\* The process goes to the closing of the pool with an exception.
LEMMA WriteToClosing ==
  ASSUME WriteInv, pc # "down", pc' = "closing", bench'.running = bench.running,
         exc' \in {"request", "write", "cancelled"},
         unopened' = "none" \/ (unopened' \in {"save", "tell"} /\ exc' = "write"), LeftBehind'
  PROVE  WriteInv'
<1>1. bench'.running
  BY DEF WriteInv
<1> QED BY <1>1, PlacesApart DEF WriteInv, EndMatchesFile

LEMMA WriteOfAnswerRead ==
  ASSUME WriteInv, pc \in AwaitPoints, NEW count, AnswerRead(count),
         UNCHANGED <<bench, exc, unopened>>
  PROVE  WriteInv'
<1>1. pc' \in AwaitPoints
  BY PlacesApart DEF AnswerRead, ToAnswer, Await
<1> QED BY <1>1, WriteKept

\* The groups that are in a whole file are told by the setup and the groups in memory.
LEMMA SameWhole ==
  ASSUME bench'.setup = bench.setup, bench'.groups = bench.groups
  PROVE  \A kind, failed : File!Whole(bench, kind, failed)' = File!Whole(bench, kind, failed)
BY DEF File!Whole

\* What is in a whole file that is one group behind.
LEMMA BeforeLastIs ==
  ASSUME NEW b \in BenchState
  PROVE  File!Whole(BeforeLast(b), "partial", FALSE) =
           [kind |-> "partial", setup |-> b.setup,
            groups |-> SubSeq(b.groups, 1, Len(b.groups) - 1), failed |-> FALSE]
BY DEF BenchState, BeforeLast, File!Whole

LEMMA SameBeforeLast ==
  ASSUME bench \in BenchState, bench' \in BenchState,
         bench'.setup = bench.setup, bench'.groups = bench.groups
  PROVE  File!Whole(BeforeLast(bench), "partial", FALSE)' =
           File!Whole(BeforeLast(bench), "partial", FALSE)
<1>1. File!Whole(BeforeLast(bench'), "partial", FALSE) =
        [kind |-> "partial", setup |-> bench'.setup,
         groups |-> SubSeq(bench'.groups, 1, Len(bench'.groups) - 1), failed |-> FALSE]
  BY BeforeLastIs
<1>2. File!Whole(BeforeLast(bench), "partial", FALSE)' =
        File!Whole(BeforeLast(bench'), "partial", FALSE)
  BY DEF File!Whole, BeforeLast
<1> QED BY <1>1, <1>2, BeforeLastIs

\* A process that ends leaves the file, and what is known of its groups.
LEMMA StoppedKeeps ==
  ASSUME bench \in BenchState, bench' = File!Stopped(bench)
  PROVE  /\ bench'.file = bench.file /\ ~bench'.running
         /\ bench'.setup = bench.setup /\ bench'.groups = bench.groups
BY DEF BenchState, File!Stopped

\* run_groups is left with an error.
LEMMA WriteOfLeave ==
  ASSUME TypeInv, TypeInv', WriteInv, pc = "closing", NEW how \in {"closed", "broken"},
         NEW error, Leave(how, error), UNCHANGED unopened,
         \/ error = exc \/ error \in {"cancelled", "both"}
         \/ error = "close" /\ exc = "none",
         error = "none" => how = "closed"
  PROVE  WriteInv'
<1> USE DEF Await
<1>0. bench \in BenchState /\ bench' \in BenchState
  BY DEF TypeInv
<1>1. CASE error = "none"
  <2>1. bench' = bench /\ pc' = "finish" /\ exc' = "none" /\ client' = how
    BY <1>1 DEF Leave
  <2>2. /\ exc = "none" /\ Len(bench.groups) = NumGroups /\ bench.running
        /\ bench.file = File!Whole(bench, "partial", FALSE) /\ unopened = "none"
    BY <1>1 DEF WriteInv
  <2> QED BY <1>1, <2>1, <2>2, PlacesApart DEF WriteInv, EndMatchesFile
<1>2. CASE error # "none"
  <2>1. bench' = File!Stopped(bench) /\ pc' = "down" /\ exc' = error /\ client' = how
    BY <1>2 DEF Leave
  <2>2. /\ bench'.file = bench.file /\ ~bench'.running
        /\ bench'.setup = bench.setup /\ bench'.groups = bench.groups
    BY <1>0, <2>1, StoppedKeeps
  <2>3. /\ \A kind, failed : File!Whole(bench, kind, failed)' = File!Whole(bench, kind, failed)
        /\ File!Whole(BeforeLast(bench), "partial", FALSE)' =
             File!Whole(BeforeLast(bench), "partial", FALSE)
    BY <1>0, <2>2, SameWhole, SameBeforeLast
  <2>4. exc \in {"none", "request", "write", "cancelled"}
    BY DEF WriteInv
  <2>5. exc = "request" => bench.file = File!Whole(bench, "partial", TRUE)
    BY DEF WriteInv, LeftBehind
  <2>6. exc = "none" => /\ bench.file = File!Whole(bench, "partial", FALSE)
                       /\ Len(bench.groups) = NumGroups
    BY DEF WriteInv
  <2>7. bench.groups # <<>> /\ unopened = "none" =>
          bench.file \in {File!Torn} \cup
                         {File!Whole(bench, "partial", failed) : failed \in BOOLEAN}
    BY <2>4, <2>5, <2>6 DEF WriteInv, LeftBehind
  <2>8. unopened # "none" => unopened \in {"save", "tell"} /\ exc = "write"
    BY DEF WriteInv
  <2>9. /\ bench.groups # <<>> /\ unopened \in {"tell", "finish"} =>
             bench.file = File!Whole(bench, "partial", FALSE)
        /\ bench.groups # <<>> /\ unopened = "save" /\ Len(bench.groups) > 1 =>
             bench.file = File!Whole(BeforeLast(bench), "partial", FALSE)
    BY <2>8 DEF WriteInv, LeftBehind
  <2>10. LeftBehind'
    <3>1. exc' = "request" => exc = "request"
      BY <2>1
    <3> QED BY <2>2, <2>3, <2>5, <2>7, <2>9, <3>1 DEF LeftBehind, File!Torn
  <2>11. exc' = "close" => exc = "none"
    BY <2>1, <2>4
  <2>12. EndMatchesFile'
    BY <1>2, <2>1, <2>2, <2>3, <2>6, <2>10, <2>11 DEF EndMatchesFile
  <2> QED BY <2>1, <2>2, <2>12, PlacesApart DEF WriteInv
<1> QED BY <1>1, <1>2

LEMMA WriteStep ==
  ASSUME TypeInv, TypeInv', GroupInv, WriteInv, [BenchNext]_benchVars
  PROVE  WriteInv'
<1> USE DEF Await
<1>0. /\ bench \in BenchState /\ bench' \in BenchState
      /\ bench.groups \in Seq(Group) /\ Len(bench.groups) \in Nat
  BY FileTypes, LenProperties DEF TypeInv
<1>1. CASE Launch
  <2>1. PICK s \in Setups : bench' = File!Launched(bench, s)
    BY <1>1 DEF Launch
  <2>2. Is(bench', bench.file, TRUE, s, <<>>)
    BY <1>0, <2>1, FileSteps
  <2>3. exc' = "none" /\ unopened' = "none" /\ pc' \in AwaitPoints
    BY <1>1, PlacesApart DEF Launch, ToAnswer
  <2> QED BY <2>2, <2>3, PlacesApart DEF WriteInv, EndMatchesFile, Is
<1>2. CASE Scrape
  BY <1>2, WriteKept, PlacesApart DEF Scrape
<1>3. CASE RequestOpens
  BY <1>3, WriteKept, PlacesApart DEF RequestOpens
<1>4. CASE ChunkArrives
  BY <1>4, WriteKept, PlacesApart DEF ChunkArrives
<1>5. CASE MalformedArrives
  BY <1>5, WriteKept, PlacesApart DEF MalformedArrives
<1>6. CASE UsageArrives
  BY <1>6, WriteKept, PlacesApart DEF UsageArrives
<1>7. CASE StreamEnds
  <2>1. pc = "stream" /\ UNCHANGED <<bench, exc, unopened>>
    BY <1>7 DEF StreamEnds
  <2>2. CASE AnswerRead(NoCount)
    BY <2>1, <2>2, WriteOfAnswerRead, PlacesApart
  <2>3. CASE pc' = "count"
    BY <2>1, <2>3, WriteKept, PlacesApart
  <2> QED BY <1>7, <2>2, <2>3 DEF StreamEnds
<1>8. CASE CountReturns
  BY <1>8, WriteOfAnswerRead, PlacesApart DEF CountReturns
<1>9. CASE Rescrape
  <2>0. /\ exc' = "none" /\ pc \in AwaitPoints /\ bench.running /\ exc = "none"
        /\ unopened' = "none" /\ unopened = "none"
    BY <1>9, PlacesApart DEF Rescrape, WriteInv
  <2>1. CASE nth < WarmupRuns + Runs
    <3>1. bench' = bench /\ pc' \in AwaitPoints
      BY <1>9, <2>1, PlacesApart DEF Rescrape, ToAnswer
    <3> QED BY <2>0, <3>1, WriteKept
  <2>2. CASE ~(nth < WarmupRuns + Runs)
    <3> DEFINE g == Append(group, Observed)
    <3>1. bench' = File!Measured(bench, g) /\ pc' = "save"
      BY <1>9, <2>2 DEF Rescrape
    <3> HIDE DEF g
    <3>2. Is(bench', bench.file, bench.running, bench.setup, Append(bench.groups, g))
      BY <1>0, <3>1, FileSteps
    <3>3. Append(bench.groups, g) \in Seq(Group)
      BY <1>0, <3>2, FileTypes DEF Is
    <3>4. /\ Len(Append(bench.groups, g)) = Len(bench.groups) + 1
          /\ SubSeq(Append(bench.groups, g), 1, Len(bench.groups)) = bench.groups
      <4>1. /\ Len(Append(bench.groups, g)) = Len(bench.groups) + 1
            /\ \A i \in 1..Len(bench.groups) : Append(bench.groups, g)[i] = bench.groups[i]
        BY <1>0, AppendProperties
      <4>2. /\ SubSeq(Append(bench.groups, g), 1, Len(bench.groups)) \in Seq(Group)
            /\ Len(SubSeq(Append(bench.groups, g), 1, Len(bench.groups))) = Len(bench.groups)
            /\ \A i \in 1..Len(bench.groups) :
                 SubSeq(Append(bench.groups, g), 1, Len(bench.groups))[i] =
                   Append(bench.groups, g)[i]
        BY <1>0, <3>3, <4>1
      <4> QED BY <1>0, <4>1, <4>2, SeqEqual
    <3>5. Len(bench'.groups) > 1 =>
            bench'.file = File!Whole(BeforeLast(bench), "partial", FALSE)'
      <4>1. SUFFICES ASSUME Len(bench'.groups) > 1
                     PROVE  bench'.file = File!Whole(BeforeLast(bench'), "partial", FALSE)
        BY DEF File!Whole, BeforeLast
      <4>2. Len(bench.groups) # 0
        BY <1>0, <3>2, <3>4, <4>1 DEF Is
      <4>3. bench.groups # <<>>
        BY <4>2, EmptySeq
      <4>4. bench.file = File!Whole(bench, "partial", FALSE)
        BY <2>0, <4>3 DEF WriteInv
      <4>5. SubSeq(bench'.groups, 1, Len(bench'.groups) - 1) = bench.groups
        BY <1>0, <3>2, <3>4 DEF Is
      <4>6. File!Whole(BeforeLast(bench'), "partial", FALSE) =
              [kind |-> "partial", setup |-> bench'.setup,
               groups |-> SubSeq(bench'.groups, 1, Len(bench'.groups) - 1), failed |-> FALSE]
        BY <1>0, BeforeLastIs
      <4> QED BY <3>2, <4>4, <4>5, <4>6 DEF Is, File!Whole
    <3> QED BY <2>0, <3>1, <3>2, <3>5, PlacesApart DEF WriteInv, EndMatchesFile, Is
  <2> QED BY <2>1, <2>2
<1>10. CASE Flush
  <2>1. bench' = File!Flushed(bench, FALSE) /\ pc = "flush" /\ UNCHANGED <<exc, unopened>>
    BY <1>10 DEF Flush
  <2>2. Is(bench', File!Whole(bench, "partial", FALSE), bench.running, bench.setup, bench.groups)
    BY <1>0, <2>1, FileSteps
  <2>3. bench.running /\ exc' = "none" /\ unopened' = "none"
    BY <2>1 DEF WriteInv
  <2>4. bench'.file = File!Whole(bench, "partial", FALSE)'
    BY <2>2, SameWhole DEF Is
  <2>5. CASE Len(bench.groups) = NumGroups
    <3>1. pc' = "closing"
      BY <1>10, <2>5 DEF Flush
    <3>2. LeftBehind'
      BY <2>3 DEF LeftBehind
    <3> QED BY <2>2, <2>3, <2>4, <2>5, <3>1, <3>2, PlacesApart DEF WriteInv, EndMatchesFile, Is
  <2>6. CASE Len(bench.groups) # NumGroups
    <3>1. pc' \in AwaitPoints
      BY <1>10, <2>6, PlacesApart DEF Flush, ToAnswer
    <3> QED BY <2>2, <2>3, <2>4, <3>1, PlacesApart DEF WriteInv, EndMatchesFile, Is
  <2> QED BY <2>5, <2>6
<1>11. CASE RequestFails
  <2>1. /\ bench' = bench /\ pc' = "tell" /\ exc' = "request" /\ pc \in AwaitPoints
        /\ unopened' = unopened
    BY <1>11, PlacesApart DEF RequestFails
  <2>2. bench.running /\ unopened = "none"
    BY <2>1, PlacesApart DEF WriteInv
  <2> QED BY <2>1, <2>2, PlacesApart DEF WriteInv, EndMatchesFile
<1>20. CASE Open
  <2>1. /\ bench' = File!Opened(bench) /\ pc \in {"save", "tell", "finish"}
        /\ pc' = Opening[pc] /\ UNCHANGED <<client, exc, unopened>>
    BY <1>20 DEF Open, Opening
  <2>2. Is(bench', File!Torn, bench.running, bench.setup, bench.groups)
    BY <1>0, <2>1, FileSteps
  <2>3. bench.running /\ unopened = "none"
    BY <2>1, PlacesApart DEF WriteInv
  <2>4. \/ pc = "save" /\ pc' = "flush" /\ exc = "none"
        \/ pc = "tell" /\ pc' = "report" /\ exc = "request"
        \/ /\ pc = "finish" /\ pc' = "final" /\ exc = "none" /\ client = "closed"
           /\ Len(bench.groups) = NumGroups
    <3>1. Opening["save"] = "flush" /\ Opening["tell"] = "report" /\ Opening["finish"] = "final"
      BY DEF Opening
    <3> QED BY <2>1, <3>1 DEF WriteInv
  <2> QED BY <2>1, <2>2, <2>3, <2>4, PlacesApart DEF WriteInv, EndMatchesFile, Is, File!Torn
<1>12. CASE Report
  <2>1. bench' = File!Flushed(bench, TRUE) /\ pc = "report" /\ pc' = "closing"
        /\ UNCHANGED <<exc, unopened>>
    BY <1>12 DEF Report
  <2>2. Is(bench', File!Whole(bench, "partial", TRUE), bench.running, bench.setup, bench.groups)
    BY <1>0, <2>1, FileSteps
  <2>3. exc' = "request" /\ bench'.running = bench.running /\ unopened' = "none"
    BY <2>1, <2>2 DEF WriteInv, Is
  <2>4. bench'.file = File!Whole(bench, "partial", TRUE)'
    BY <2>2, SameWhole DEF Is
  <2>5. LeftBehind'
    BY <2>3, <2>4 DEF LeftBehind
  <2> QED BY <2>1, <2>3, <2>5, WriteToClosing
<1>13. CASE WriteFails
  <2>1. /\ pc \in {"flush", "report", "final"} /\ WriteRaises(pc = "final")
        /\ unopened' = unopened /\ exc' = "write" /\ client' = client
    BY <1>13 DEF WriteFails, WriteRaises, Opening
  <2>2. bench.file = File!Torn /\ unopened' = "none"
    BY <2>1 DEF WriteInv
  <2>3. CASE pc # "final"
    <3>1. pc' = "closing" /\ bench' = bench
      BY <2>1, <2>3 DEF WriteRaises
    <3>2. LeftBehind'
      BY <2>1, <2>2, <3>1 DEF LeftBehind, File!Torn
    <3> QED BY <2>1, <2>2, <3>1, <3>2, WriteToClosing
  <2>4. CASE pc = "final"
    <3>1. pc' = "down" /\ bench' = File!Stopped(bench)
      BY <2>1, <2>4 DEF WriteRaises
    <3>2. bench'.file = File!Torn /\ ~bench'.running
      BY <1>0, <2>2, <3>1, StoppedKeeps
    <3>3. LeftBehind'
      BY <2>1, <2>2, <3>2 DEF LeftBehind, File!Torn
    <3>4. client' = "closed"
      BY <2>1, <2>4 DEF WriteInv
    <3> QED BY <2>1, <2>2, <3>1, <3>2, <3>3, <3>4, PlacesApart DEF WriteInv, EndMatchesFile
  <2> QED BY <2>3, <2>4
<1>21. CASE OpenFails
  <2>1. /\ pc \in {"save", "tell", "finish"} /\ WriteRaises(pc = "finish")
        /\ unopened' = pc /\ exc' = "write" /\ client' = client
    BY <1>21 DEF OpenFails, WriteRaises, Opening
  <2>2. /\ bench'.file = bench.file /\ bench'.setup = bench.setup /\ bench'.groups = bench.groups
        /\ pc # "finish" => bench' = bench /\ pc' = "closing"
        /\ pc = "finish" => ~bench'.running /\ pc' = "down"
    <3>1. CASE pc = "finish"
      <4>1. bench' = File!Stopped(bench) /\ pc' = "down"
        BY <2>1, <3>1 DEF WriteRaises, Await
      <4> QED BY <1>0, <3>1, <4>1, StoppedKeeps
    <3>2. CASE pc # "finish"
      BY <2>1, <3>2 DEF WriteRaises, Await
    <3> QED BY <3>1, <3>2
  <2>3. /\ pc = "save" /\ Len(bench.groups) > 1 =>
             bench.file = File!Whole(BeforeLast(bench), "partial", FALSE)
        /\ pc \in {"tell", "finish"} /\ bench.groups # <<>> =>
             bench.file = File!Whole(bench, "partial", FALSE)
    BY DEF WriteInv
  <2>4. /\ \A kind, failed : File!Whole(bench, kind, failed)' = File!Whole(bench, kind, failed)
        /\ File!Whole(BeforeLast(bench), "partial", FALSE)' =
             File!Whole(BeforeLast(bench), "partial", FALSE)
    BY <1>0, <2>2, SameWhole, SameBeforeLast
  <2>5. LeftBehind'
    <3>1. unopened' \in {"tell", "finish"} /\ bench'.groups # <<>> =>
            bench'.file = File!Whole(bench, "partial", FALSE)'
      <4>1. SUFFICES ASSUME unopened' \in {"tell", "finish"}, bench'.groups # <<>>
                     PROVE  bench'.file = File!Whole(bench, "partial", FALSE)'
        OBVIOUS
      <4>2. pc \in {"tell", "finish"} /\ bench.groups # <<>> /\ bench'.file = bench.file
        BY <2>1, <2>2, <4>1
      <4>3. bench.file = File!Whole(bench, "partial", FALSE)
        BY <2>3, <4>2
      <4>4. File!Whole(bench, "partial", FALSE)' = File!Whole(bench, "partial", FALSE)
        BY <2>2 DEF File!Whole
      <4> QED BY <4>2, <4>3, <4>4
    <3>2. unopened' = "save" /\ Len(bench'.groups) > 1 =>
            bench'.file = File!Whole(BeforeLast(bench), "partial", FALSE)'
      <4>1. SUFFICES ASSUME unopened' = "save", Len(bench'.groups) > 1
                     PROVE  bench'.file = File!Whole(BeforeLast(bench), "partial", FALSE)'
        OBVIOUS
      <4>2. pc = "save" /\ Len(bench.groups) > 1 /\ bench'.file = bench.file
        BY <2>1, <2>2, <4>1
      <4>3. bench.file = File!Whole(BeforeLast(bench), "partial", FALSE)
        BY <4>2 DEF WriteInv
      <4>4. File!Whole(BeforeLast(bench), "partial", FALSE)' =
              File!Whole(BeforeLast(bench), "partial", FALSE)
        BY <2>4
      <4> QED BY <4>2, <4>3, <4>4
    <3>3. unopened' # "none" /\ exc' # "request"
      BY <2>1
    <3> QED BY <3>1, <3>2, <3>3 DEF LeftBehind
  <2>6. CASE pc # "finish"
    BY <2>1, <2>2, <2>5, <2>6, WriteToClosing
  <2>7. CASE pc = "finish"
    <3>1. client' = "closed"
      BY <2>1, <2>7 DEF WriteInv
    <3> QED BY <2>1, <2>2, <2>5, <2>7, <3>1, PlacesApart DEF WriteInv, EndMatchesFile
  <2> QED BY <2>6, <2>7
<1>14. CASE Interrupt
  <2>1. /\ pc \in AwaitPoints /\ pc' = "closing" /\ exc' = "cancelled" /\ bench' = bench
        /\ unopened' = unopened
    BY <1>14 DEF Interrupt
  <2>2. /\ bench.groups # <<>> => bench.file = File!Whole(bench, "partial", FALSE)
        /\ unopened' = "none"
    BY <2>1, PlacesApart DEF WriteInv
  <2>3. LeftBehind'
    BY <2>1, <2>2 DEF LeftBehind
  <2> QED BY <2>1, <2>2, <2>3, WriteToClosing, PlacesApart
<1>15. CASE PoolCloses
  <2>1. Leave("closed", exc) /\ pc = "closing" /\ UNCHANGED unopened
    BY <1>15 DEF PoolCloses, Leave
  <2> QED BY <2>1, WriteOfLeave
<1>16. CASE PoolCloseFails
  <2>1. PICK close \in {"close", "cancelled"} : Leave("broken", CloseErrors(exc, close))
    BY <1>16 DEF PoolCloseFails
  <2>2. \/ CloseErrors(exc, close) \in {"cancelled", "both"}
        \/ CloseErrors(exc, close) = "close" /\ exc = "none"
    BY DEF CloseErrors
  <2>3. pc = "closing" /\ UNCHANGED unopened /\ CloseErrors(exc, close) # "none"
    BY <1>16, <2>1, <2>2 DEF PoolCloseFails, Leave
  <2> QED BY <2>1, <2>2, <2>3, WriteOfLeave
<1>17. CASE Finalize
  <2>1. bench' = File!Completed(bench) /\ pc = "final" /\ pc' = "down"
        /\ UNCHANGED <<exc, client, unopened>>
    BY <1>17 DEF Finalize
  <2>2. Is(bench', File!Whole(bench, "complete", FALSE), FALSE, bench.setup, bench.groups)
    BY <1>0, <2>1, FileSteps
  <2>3. bench'.file = File!Whole(bench, "complete", FALSE)'
    BY <2>2, SameWhole DEF Is
  <2>4. exc' = "none" /\ client' = "closed"
    BY <2>1 DEF WriteInv
  <2> QED BY <2>1, <2>2, <2>3, <2>4, PlacesApart DEF WriteInv, EndMatchesFile, LeftBehind, Is
<1>18. CASE Die
  <2>1. bench' = File!Stopped(bench) /\ pc' = "down" /\ exc' = "killed"
    BY <1>18 DEF Die
  <2>2. Is(bench', bench.file, FALSE, bench.setup, bench.groups)
    BY <1>0, <2>1, FileSteps
  <2> QED BY <2>1, <2>2, PlacesApart DEF WriteInv, EndMatchesFile, Is
<1>19. CASE UNCHANGED benchVars
  <2>1. UNCHANGED <<pc, bench, client, exc, unopened, launches>>
    BY <1>19 DEF benchVars
  <2>2. LeftBehind' <=> LeftBehind
    <3>1. /\ \A kind, failed : File!Whole(bench, kind, failed)' = File!Whole(bench, kind, failed)
          /\ File!Whole(BeforeLast(bench), "partial", FALSE)' =
               File!Whole(BeforeLast(bench), "partial", FALSE)
      BY <1>0, <2>1, SameWhole, SameBeforeLast
    <3> QED BY <2>1, <3>1 DEF LeftBehind, File!Torn
  <2>3. /\ \A kind, failed : File!Whole(bench, kind, failed)' = File!Whole(bench, kind, failed)
        /\ File!Whole(BeforeLast(bench), "partial", FALSE)' =
             File!Whole(BeforeLast(bench), "partial", FALSE)
    BY <1>0, <2>1, SameWhole, SameBeforeLast
  <2> QED BY <2>1, <2>2, <2>3 DEF WriteInv, EndMatchesFile, File!Torn
<1> QED BY <1>1, <1>2, <1>3, <1>4, <1>5, <1>6, <1>7, <1>8, <1>9, <1>10, <1>11, <1>12, <1>13,
           <1>14, <1>15, <1>16, <1>17, <1>18, <1>19, <1>20, <1>21 DEF BenchNext, Process
-----------------------------------------------------------------------------
(* The record.                                                             *)

\* What a reader may conclude from one group of observations.
EvidenceGroup(g) == [i \in DOMAIN g |-> Evidence(g[i])]

EvidenceGroups == [1..Runs -> Answers \cup {<<>>}]

\* Groups with nothing ready but whole answers.
Sound(groups) ==
  \A g \in DOMAIN groups : \A i \in DOMAIN groups[g] :
    groups[g][i].ready => groups[g][i].ids = groups[g][i].truth

LEMMA EvidenceGroupType ==
  ASSUME NEW g \in Group, \A i \in DOMAIN g : g[i].ready => g[i].ids = g[i].truth
  PROVE  EvidenceGroup(g) \in EvidenceGroups
<1>1. DOMAIN g = 1..Runs /\ \A i \in 1..Runs : g[i] \in Obs
  BY ElementOfSeq, LenProperties DEF Group
<1>2. ASSUME NEW i \in 1..Runs PROVE Evidence(g[i]) \in Answers \cup {<<>>}
  <2>1. g[i].truth \in Answers
    BY <1>1 DEF Obs
  <2> QED BY <1>1, <2>1 DEF Evidence
<1> QED BY <1>1, <1>2 DEF EvidenceGroup, EvidenceGroups

\* The evidence is a sequence of the same length, one group for each.
LEMMA EvidenceType ==
  ASSUME NEW groups \in Seq(Group), Sound(groups)
  PROVE  /\ EvidenceOf(groups) \in Seq(EvidenceGroups)
         /\ Len(EvidenceOf(groups)) = Len(groups)
         /\ \A g \in 1..Len(groups) : EvidenceOf(groups)[g] = EvidenceGroup(groups[g])
<1>1. DOMAIN groups = 1..Len(groups) /\ Len(groups) \in Nat
  BY LenProperties
<1>2. \A g \in 1..Len(groups) : EvidenceGroup(groups[g]) \in EvidenceGroups
  BY <1>1, EvidenceGroupType, ElementOfSeq DEF Sound
<1>3. EvidenceOf(groups) = [g \in 1..Len(groups) |-> EvidenceGroup(groups[g])]
  BY <1>1 DEF EvidenceOf, EvidenceGroup
<1>4. EvidenceOf(groups) \in [1..Len(groups) -> EvidenceGroups]
  BY <1>2, <1>3
<1>5. EvidenceOf(groups) \in Seq(EvidenceGroups)
  BY <1>1, <1>4, SeqDef
<1>6. Len(EvidenceOf(groups)) = Len(groups)
  <2>1. DOMAIN EvidenceOf(groups) = 1..Len(groups)
    BY <1>3
  <2>2. DOMAIN EvidenceOf(groups) = 1..Len(EvidenceOf(groups)) /\ Len(EvidenceOf(groups)) \in Nat
    BY <1>5, LenProperties
  <2> QED BY <1>1, <2>1, <2>2
<1> QED BY <1>3, <1>5, <1>6

LEMMA NoEvidence == EvidenceOf(<<>>) = <<>>
<1>1. <<>> \in Seq(Group) /\ Len(<<>>) = 0 /\ DOMAIN <<>> = {}
  BY EmptySeq
<1>2. Sound(<<>>)
  BY <1>1 DEF Sound
<1>3. EvidenceOf(<<>>) \in Seq(EvidenceGroups) /\ Len(EvidenceOf(<<>>)) = 0
  BY <1>1, <1>2, EvidenceType
<1> QED BY <1>3, EmptySeq

LEMMA EvidenceOfAppend ==
  ASSUME NEW groups \in Seq(Group), NEW g, Append(groups, g) \in Seq(Group),
         Sound(Append(groups, g))
  PROVE  /\ EvidenceOf(Append(groups, g)) = Append(EvidenceOf(groups), EvidenceGroup(g))
         /\ EvidenceGroup(g) \in EvidenceGroups
<1> DEFINE all == Append(groups, g)
<1>1. /\ Len(groups) \in Nat /\ Len(all) = Len(groups) + 1
      /\ DOMAIN all = 1..Len(all) /\ DOMAIN groups = 1..Len(groups)
      /\ \A k \in 1..Len(groups) : all[k] = groups[k]
      /\ all[Len(groups) + 1] = g
  BY LenProperties
<1> HIDE DEF all
<1>2. Len(all) \in 1..Len(all) /\ Len(all) = Len(groups) + 1
  BY <1>1
<1>3. g \in Group /\ Sound(groups) /\ \A i \in DOMAIN g : g[i].ready => g[i].ids = g[i].truth
  <2>1. all[Len(all)] \in Group
    BY <1>2, ElementOfSeq DEF all
  <2>2. Sound(groups)
    BY <1>1 DEF Sound, all
  <2>3. \A i \in DOMAIN all[Len(all)] :
          all[Len(all)][i].ready => all[Len(all)][i].ids = all[Len(all)][i].truth
    BY <1>1, <1>2 DEF Sound, all
  <2> QED BY <1>1, <2>1, <2>2, <2>3
<1>4. EvidenceGroup(g) \in EvidenceGroups
  BY <1>3, EvidenceGroupType
<1>5. /\ EvidenceOf(groups) \in Seq(EvidenceGroups)
      /\ Len(EvidenceOf(groups)) = Len(groups)
      /\ \A k \in 1..Len(groups) : EvidenceOf(groups)[k] = EvidenceGroup(groups[k])
  BY <1>3, EvidenceType
<1>6. /\ EvidenceOf(all) \in Seq(EvidenceGroups)
      /\ Len(EvidenceOf(all)) = Len(all)
      /\ \A k \in 1..Len(all) : EvidenceOf(all)[k] = EvidenceGroup(all[k])
  BY EvidenceType DEF all
<1> DEFINE one == Append(EvidenceOf(groups), EvidenceGroup(g))
<1>7. /\ one \in Seq(EvidenceGroups) /\ Len(one) = Len(groups) + 1
      /\ \A k \in 1..Len(groups) : one[k] = EvidenceOf(groups)[k]
      /\ one[Len(groups) + 1] = EvidenceGroup(g)
  BY <1>4, <1>5, AppendProperties
<1> HIDE DEF one
<1>8. \A k \in 1..Len(all) : EvidenceOf(all)[k] = one[k]
  BY <1>1, <1>5, <1>6, <1>7
<1>9. EvidenceOf(all) = one
  BY <1>1, <1>6, <1>7, <1>8, SeqEqual
<1> QED BY <1>4, <1>9 DEF all, one

\* A bench by its fields.
Bench(file, running, setup, groups) ==
  [file |-> file, running |-> running, setup |-> setup, groups |-> groups]

LEMMA FieldsTell ==
  ASSUME NEW file, NEW running, NEW setup, NEW groups,
         NEW c \in [file : {file}, running : {running}, setup : {setup}, groups : {groups}]
  PROVE  c = Bench(file, running, setup, groups)
BY DEF Bench

\* The bench that a reader sees.
Seen(b) == Bench(EvidenceFile(b.file), b.running, b.setup, EvidenceOf(b.groups))

LEMMA SeenIsMapped ==
  ASSUME NEW b \in BenchState
  PROVE  Seen(b) = [b EXCEPT !.groups = EvidenceOf(@), !.file = EvidenceFile(@)]
<1>1. b = Bench(b.file, b.running, b.setup, b.groups) /\ b.running \in BOOLEAN
  BY DEF BenchState, Bench
<1>2. [b EXCEPT !.groups = EvidenceOf(@), !.file = EvidenceFile(@)]
        \in [file : {EvidenceFile(b.file)}, running : {b.running}, setup : {b.setup},
             groups : {EvidenceOf(b.groups)}]
  BY <1>1 DEF Bench
<1> QED BY <1>2, FieldsTell DEF Seen

LEMMA SeenFiles ==
  /\ EvidenceFile(File!Absent) = Record!Absent /\ EvidenceFile(File!Torn) = Record!Torn
  /\ \A b, kind, failed : EvidenceFile(File!Whole(b, kind, failed)) = Record!Whole(Seen(b), kind, failed)
<1>1. EvidenceFile(File!Absent) = Record!Absent /\ EvidenceFile(File!Torn) = Record!Torn
  BY DEF EvidenceFile, File!Absent, File!Torn, Record!Absent, Record!Torn
<1>2. ASSUME NEW b, NEW kind, NEW failed
      PROVE  EvidenceFile(File!Whole(b, kind, failed)) = Record!Whole(Seen(b), kind, failed)
  BY DEF EvidenceFile, Seen, Bench, File!Whole, Record!Whole
<1> QED BY <1>1, <1>2

\* What a step makes of the fields of the record.
LEMMA RecordSteps ==
  ASSUME NEW b \in BenchState
  PROVE  /\ \A s : Record!Launched(Seen(b), s) = Bench(EvidenceFile(b.file), TRUE, s, <<>>)
         /\ \A g : Record!Measured(Seen(b), g) =
                     Bench(EvidenceFile(b.file), b.running, b.setup, Append(EvidenceOf(b.groups), g))
         /\ Record!Completed(Seen(b)) =
              Bench(Record!Whole(Seen(b), "complete", FALSE), FALSE, b.setup,
                    EvidenceOf(b.groups))
         /\ Record!Stopped(Seen(b)) =
              Bench(EvidenceFile(b.file), FALSE, b.setup, EvidenceOf(b.groups))
<1> USE FileTypes
<1>1. ASSUME NEW s
      PROVE  Record!Launched(Seen(b), s) = Bench(EvidenceFile(b.file), TRUE, s, <<>>)
  <2>1. Record!Launched(Seen(b), s)
          \in [file : {EvidenceFile(b.file)}, running : {TRUE}, setup : {s}, groups : {<<>>}]
    BY DEF Record!Launched, Seen, Bench
  <2> QED BY <2>1, FieldsTell
<1>2. ASSUME NEW g
      PROVE  Record!Measured(Seen(b), g) =
               Bench(EvidenceFile(b.file), b.running, b.setup, Append(EvidenceOf(b.groups), g))
  <2>1. Record!Measured(Seen(b), g)
          \in [file : {EvidenceFile(b.file)}, running : {b.running}, setup : {b.setup},
               groups : {Append(EvidenceOf(b.groups), g)}]
    BY DEF Record!Measured, Seen, Bench
  <2> QED BY <2>1, FieldsTell
<1>3. Record!Completed(Seen(b)) =
        Bench(Record!Whole(Seen(b), "complete", FALSE), FALSE, b.setup, EvidenceOf(b.groups))
  <2>1. Record!Completed(Seen(b))
          \in [file : {Record!Whole(Seen(b), "complete", FALSE)}, running : {FALSE},
               setup : {b.setup}, groups : {EvidenceOf(b.groups)}]
    BY DEF Record!Completed, Seen, Bench
  <2> QED BY <2>1, FieldsTell
<1>4. Record!Stopped(Seen(b)) =
        Bench(EvidenceFile(b.file), FALSE, b.setup, EvidenceOf(b.groups))
  <2>1. Record!Stopped(Seen(b))
          \in [file : {EvidenceFile(b.file)}, running : {FALSE}, setup : {b.setup},
               groups : {EvidenceOf(b.groups)}]
    BY DEF Record!Stopped, Seen, Bench
  <2> QED BY <2>1, FieldsTell
<1> QED BY <1>1, <1>2, <1>3, <1>4

\* Each step of the file, as the reader sees it.
LEMMA SeenSteps ==
  ASSUME NEW b \in BenchState, NEW c
  PROVE  /\ \A s : c = File!Launched(b, s) => Seen(c) = Record!Launched(Seen(b), s)
         /\ \A g : /\ c = File!Measured(b, g)
                   /\ EvidenceOf(c.groups) = Append(EvidenceOf(b.groups), EvidenceGroup(g))
                   => Seen(c) = Record!Measured(Seen(b), EvidenceGroup(g))
         /\ c = File!Opened(b) => Seen(c) = Record!Opened(Seen(b))
         /\ \A failed : c = File!Flushed(b, failed) => Seen(c) = Record!Flushed(Seen(b), failed)
         /\ c = File!Completed(b) => Seen(c) = Record!Completed(Seen(b))
         /\ c = File!Stopped(b) => Seen(c) = Record!Stopped(Seen(b))
<1>1. ASSUME NEW s, c = File!Launched(b, s) PROVE Seen(c) = Record!Launched(Seen(b), s)
  <2>1. Is(c, b.file, TRUE, s, <<>>)
    BY <1>1, FileSteps
  <2>2. Seen(c) = Bench(EvidenceFile(b.file), TRUE, s, <<>>)
    BY <2>1, NoEvidence DEF Is, Seen
  <2> QED BY <2>2, RecordSteps
<1>2. ASSUME NEW g, c = File!Measured(b, g),
             EvidenceOf(c.groups) = Append(EvidenceOf(b.groups), EvidenceGroup(g))
      PROVE  Seen(c) = Record!Measured(Seen(b), EvidenceGroup(g))
  <2>1. Is(c, b.file, b.running, b.setup, Append(b.groups, g))
    BY <1>2, FileSteps
  <2>2. Seen(c) = Bench(EvidenceFile(b.file), b.running, b.setup,
                        Append(EvidenceOf(b.groups), EvidenceGroup(g)))
    BY <1>2, <2>1, SeenFiles DEF Is, Seen
  <2> QED BY <2>2, RecordSteps
<1>3. ASSUME c = File!Opened(b) PROVE Seen(c) = Record!Opened(Seen(b))
  <2>1. Is(c, File!Torn, b.running, b.setup, b.groups)
    BY <1>3, FileSteps
  <2> QED BY <2>1, SeenFiles DEF Is, Seen, Bench, Record!Opened
<1>4. ASSUME NEW failed, c = File!Flushed(b, failed)
      PROVE  Seen(c) = Record!Flushed(Seen(b), failed)
  <2>1. Is(c, File!Whole(b, "partial", failed), b.running, b.setup, b.groups)
    BY <1>4, FileSteps
  <2>2. EvidenceFile(c.file) = Record!Whole(Seen(b), "partial", failed)
    BY <2>1, SeenFiles DEF Is
  <2> QED BY <2>1, <2>2 DEF Is, Seen, Bench, Record!Flushed
<1>5. ASSUME c = File!Completed(b) PROVE Seen(c) = Record!Completed(Seen(b))
  <2>1. Is(c, File!Whole(b, "complete", FALSE), FALSE, b.setup, b.groups)
    BY <1>5, FileSteps
  <2>2. EvidenceFile(c.file) = Record!Whole(Seen(b), "complete", FALSE)
    BY <2>1, SeenFiles DEF Is
  <2>3. Seen(c) = Bench(Record!Whole(Seen(b), "complete", FALSE), FALSE, b.setup,
                        EvidenceOf(b.groups))
    BY <2>1, <2>2 DEF Is, Seen
  <2> QED BY <2>3, RecordSteps
<1>6. ASSUME c = File!Stopped(b) PROVE Seen(c) = Record!Stopped(Seen(b))
  <2>1. Is(c, b.file, FALSE, b.setup, b.groups)
    BY <1>6, FileSteps
  <2>2. Seen(c) = Bench(EvidenceFile(b.file), FALSE, b.setup, EvidenceOf(b.groups))
    BY <2>1 DEF Is, Seen
  <2> QED BY <2>2, RecordSteps
<1> QED BY <1>1, <1>2, <1>3, <1>4, <1>5, <1>6
LEMMA InitRecord ==
  ASSUME BenchInit
  PROVE  Record!RecordInit
<1>1. PICK s \in Setups : bench = Bench(File!Absent, FALSE, s, <<>>)
  BY DEF BenchInit, File!RecordInit, Bench
<1>2. bench \in BenchState
  <2>1. <<>> \in Seq(Group)
    BY EmptySeq
  <2> QED BY <1>1, <2>1, FileTypes, Zenon DEF BenchState, Bench
<1>3. bench.file = File!Absent /\ bench.running = FALSE /\ bench.setup = s /\ bench.groups = <<>>
  BY <1>1 DEF Bench
<1>4. Seen(bench) = Bench(Record!Absent, FALSE, s, <<>>)
  BY <1>3, SeenFiles, NoEvidence DEF Seen
<1>5. Seen(bench) = [bench EXCEPT !.groups = EvidenceOf(@), !.file = EvidenceFile(@)]
  BY <1>2, SeenIsMapped
<1> QED BY <1>4, <1>5 DEF Record!RecordInit, Bench

\* A step of the command is one of the record, or none.
LEMMA NextRecord ==
  ASSUME BenchInv, BenchInv', [BenchNext]_benchVars
  PROVE  [Record!RecordNext]_([bench EXCEPT !.groups = EvidenceOf(@), !.file = EvidenceFile(@)])
<1> USE DEF BenchInv
<1> DEFINE seen == Seen(bench)
<1>0. /\ bench \in BenchState /\ bench' \in BenchState
      /\ seen.running = bench.running /\ seen.setup = bench.setup
      /\ seen.groups = EvidenceOf(bench.groups)
  BY DEF TypeInv, Seen, Bench
<1>a. /\ seen = [bench EXCEPT !.groups = EvidenceOf(@), !.file = EvidenceFile(@)]
      /\ seen' = [bench' EXCEPT !.groups = EvidenceOf(@), !.file = EvidenceFile(@)]
  BY <1>0, SeenIsMapped
<1>s. Seen(bench)' = Seen(bench')
  OBVIOUS
<1>b. Sound(bench.groups) /\ Sound(bench.groups)'
  <2>1. Sound(bench.groups)
    BY DEF GroupInv, ReadyIsWholeAnswer, ReadyWhenWhole, Sound
  <2>2. Sound(bench'.groups)
    BY DEF GroupInv, ReadyIsWholeAnswer, ReadyWhenWhole, Sound
  <2> QED BY <2>1, <2>2 DEF Sound
<1>c. Len(seen.groups) = Len(bench.groups)
  BY <1>0, <1>b, FileTypes, EvidenceType
<1> HIDE DEF seen
<1>d. pc # "down" => seen.running
  BY <1>0 DEF WriteInv
<1>1. ASSUME bench' = bench
      PROVE  seen' = seen
  BY <1>1 DEF seen
<1>2. CASE Launch
  <2>1. PICK s \in Setups : bench' = File!Launched(bench, s)
    BY <1>2 DEF Launch
  <2>2. seen' = Record!Launched(seen, s)
    BY <1>0, <2>1, SeenSteps DEF seen
  <2>3. ~seen.running
    BY <1>0, <1>2 DEF Launch, WriteInv
  <2> QED BY <1>a, <2>2, <2>3 DEF Record!RecordNext, Record!Successors
<1>3. CASE Rescrape
  <2>1. pc # "down" /\ Len(bench.groups) < NumGroups
    BY <1>3 DEF Rescrape, GroupInv, AwaitPoints
  <2>2. CASE bench' = bench
    BY <1>1, <1>a, <2>2
  <2>3. CASE bench' = File!Measured(bench, Append(group, Observed))
    <3> DEFINE g == Append(group, Observed)
    <3>1. bench'.groups = Append(bench.groups, g)
      <4>1. Is(bench', bench.file, bench.running, bench.setup, Append(bench.groups, g))
        BY <1>0, <2>3, FileSteps
      <4> QED BY <4>1 DEF Is
    <3> HIDE DEF g
    <3>2. Append(bench.groups, g) \in Seq(Group) /\ Sound(Append(bench.groups, g))
      BY <1>0, <1>b, <3>1, FileTypes
    <3>3. /\ EvidenceOf(bench'.groups) = Append(EvidenceOf(bench.groups), EvidenceGroup(g))
          /\ EvidenceGroup(g) \in EvidenceGroups
      BY <1>0, <3>1, <3>2, FileTypes, EvidenceOfAppend
    <3>4. seen' = Record!Measured(seen, EvidenceGroup(g))
      BY <1>0, <2>3, <3>3, SeenSteps DEF seen, g
    <3>5. seen.setup \in Setups /\ Len(seen.groups) # NumGroups
      BY <1>0, <1>c, <2>1, FileTypes, Counts, LenProperties
    <3>6. EvidenceGroup(g) \in [s \in Setups |-> [1..Runs -> Answers \cup {<<>>}]][seen.setup]
      BY <3>3, <3>5 DEF EvidenceGroups
    <3> QED BY <1>a, <1>d, <2>1, <3>4, <3>5, <3>6 DEF Record!RecordNext, Record!Successors
  <2> QED BY <1>3, <2>2, <2>3 DEF Rescrape
<1>4. ASSUME NEW failed \in BOOLEAN, bench' = File!Flushed(bench, failed), pc # "down"
      PROVE  Record!RecordNext
  <2>1. seen' = Record!Flushed(seen, failed)
    BY <1>0, <1>4, SeenSteps DEF seen
  <2> QED BY <1>a, <1>d, <1>4, <2>1 DEF Record!RecordNext, Record!Successors
<1>5. ASSUME bench' = File!Opened(bench), pc # "down"
      PROVE  Record!RecordNext
  <2>1. seen' = Record!Opened(seen)
    BY <1>0, <1>5, SeenSteps DEF seen
  <2> QED BY <1>a, <1>d, <1>5, <2>1 DEF Record!RecordNext, Record!Successors
<1>6. ASSUME bench' = File!Stopped(bench), pc # "down"
      PROVE  Record!RecordNext
  <2>1. seen' = Record!Stopped(seen)
    BY <1>0, <1>6, SeenSteps DEF seen
  <2> QED BY <1>a, <1>d, <1>6, <2>1 DEF Record!RecordNext, Record!Successors
<1>7. CASE Finalize
  <2>1. bench' = File!Completed(bench) /\ pc = "final"
    BY <1>7 DEF Finalize
  <2>2. seen' = Record!Completed(seen)
    BY <1>0, <2>1, SeenSteps DEF seen
  <2>3. Len(seen.groups) = NumGroups
    BY <1>c, <2>1 DEF WriteInv
  <2> QED BY <1>a, <1>d, <2>1, <2>2, <2>3 DEF Record!RecordNext, Record!Successors
<1>8. CASE Flush
  BY <1>4, <1>8 DEF Flush
<1>9. CASE Report
  BY <1>4, <1>9 DEF Report
<1>10. CASE Open
  BY <1>5, <1>10 DEF Open, Opening
<1>11. CASE Die
  BY <1>6, <1>11 DEF Die
<1>12. CASE PoolCloses \/ PoolCloseFails \/ OpenFails \/ WriteFails
  <2>1. /\ pc # "down"
        /\ bench' = bench \/ bench' = File!Stopped(bench)
    BY <1>12 DEF PoolCloses, PoolCloseFails, OpenFails, WriteFails, WriteRaises, Leave, Opening
  <2> QED BY <1>1, <1>6, <1>a, <2>1
<1>13. CASE bench' = bench
  BY <1>1, <1>13, <1>a
<1>14. ASSUME \/ Scrape \/ RequestOpens \/ ChunkArrives \/ MalformedArrives \/ UsageArrives
              \/ StreamEnds \/ CountReturns \/ RequestFails \/ Interrupt \/ UNCHANGED benchVars
       PROVE  bench' = bench
  BY <1>14 DEF Scrape, RequestOpens, ChunkArrives, MalformedArrives, UsageArrives, StreamEnds,
               CountReturns, RequestFails, Interrupt, benchVars
<1> QED BY <1>2, <1>3, <1>7, <1>8, <1>9, <1>10, <1>11, <1>12, <1>13, <1>14 DEF BenchNext, Process

-----------------------------------------------------------------------------
(* Theorems.                                                               *)

LEMMA InitBenchInv == BenchInit => BenchInv
<1> SUFFICES ASSUME BenchInit PROVE BenchInv
  OBVIOUS
<1>1. PICK s \in Setups : bench = Bench(File!Absent, FALSE, s, <<>>)
  BY DEF BenchInit, File!RecordInit, Bench
<1>2. /\ bench.file = File!Absent /\ bench.running = FALSE /\ bench.setup = s
      /\ bench.groups = <<>>
  BY <1>1 DEF Bench
<1>e. /\ <<>> \in Seq(Group) /\ <<>> \in Seq(Obs) /\ <<>> \in Seq(Nat) /\ Len(<<>>) = 0
      /\ DOMAIN <<>> = {}
  BY EmptySeq
<1>3. bench \in BenchState
  BY <1>1, <1>e, Zenon DEF BenchState, Bench
<1>4. TypeInv
  BY <1>3, <1>e, Counts, EmptyIsTake DEF BenchInit, TypeInv, Pcs, NoAnswer
<1>5. TakeInv
  BY <1>e, EmptyFacts DEF BenchInit, TakeInv, Reading, NoAnswer
<1>6. GroupInv
  <2>1. ReadyIsWholeAnswer
    BY <1>2, <1>e DEF ReadyIsWholeAnswer, ReadyWhenWhole, File!Absent
  <2>2. pc = "down" /\ group = <<>> /\ pc \notin AwaitPoints /\ pc \notin {"scrape", "rescrape"}
    BY DEF BenchInit, AwaitPoints
  <2> QED BY <1>2, <1>e, <2>1, <2>2, Counts DEF GroupInv
<1>7. WriteInv
  BY <1>2, PlacesApart DEF BenchInit, WriteInv, EndMatchesFile
<1> QED BY <1>4, <1>5, <1>6, <1>7 DEF BenchInv

LEMMA NextBenchInv == BenchInv /\ [BenchNext]_benchVars => BenchInv'
BY TypeStep, TakeStep, GroupStep, WriteStep DEF BenchInv

\* What bench-single keeps in memory and in its file is of its type, each answer is what
\* the server's way of reporting makes of it, the groups are full, and the file stands to
\* the exception as the code that wrote it left it.
THEOREM BenchInvariant == BenchSpec => []BenchInv
BY InitBenchInv, NextBenchInv, PTL DEF BenchSpec

\* The token ids that bench-single calls ready for parity are the whole of what the
\* server generated, whichever way it reports them and whatever cuts the stream.
THEOREM ReadyIdsAreWhole == BenchSpec => []ReadyIsWholeAnswer
<1>1. BenchInv => ReadyIsWholeAnswer
  BY DEF BenchInv, GroupInv
<1> QED BY <1>1, BenchInvariant, PTL

\* How bench-single ends and the file it leaves agree, for any failure of a request, a
\* write, the pool or the user, unless the process is killed.
THEOREM EndsAsTheFileSays == BenchSpec => []EndMatchesFile
<1>1. BenchInv => EndMatchesFile
  BY DEF BenchInv, WriteInv
<1> QED BY <1>1, BenchInvariant, PTL

\* Seen as its file and its groups, bench-single is a benchmark record: each step is one
\* of the record's or changes nothing that a reader sees.
THEOREM BenchIsRecord == BenchSpec => ImplementsBenchRecord
<1>1. BenchInit => Record!RecordInit
  BY InitRecord
<1>2. BenchInv /\ BenchInv' /\ [BenchNext]_benchVars =>
        [Record!RecordNext]_([bench EXCEPT !.groups = EvidenceOf(@), !.file = EvidenceFile(@)])
  BY NextRecord
<1> QED BY <1>1, <1>2, BenchInvariant, PTL
        DEF BenchSpec, ImplementsBenchRecord, Record!RecordSpec
=============================================================================
