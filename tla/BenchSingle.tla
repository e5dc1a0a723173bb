---------------------------- MODULE BenchSingle -----------------------------
(***************************************************************************)
(* bench-single (cli.py): one process measures groups of streamed answers  *)
(* of one endpoint and rewrites its json file after each group.  It may be *)
(* launched again over the file of an earlier launch.  A step is what the  *)
(* process does between two awaits, or half of a file write.  pc names     *)
(*   scrape, rescrape  the scrapes of /metrics around a measured answer    *)
(*   request           the wait for the answer's first byte                *)
(*   stream            the wait for its next line                          *)
(*   count             the wait for /tokenize                              *)
(*   save, flush       a write of the groups: before the file is opened,   *)
(*                     and once it is truncated                            *)
(*   tell, report      the same, when a failure is being written           *)
(*   closing           the wait for the client pool to close               *)
(*   finish, final     the last write, when everything was measured        *)
(*   down              no process                                          *)
(***************************************************************************)
EXTENDS StreamMeasure

CONSTANTS
  Setups,       \* the servers a launch may measure
  Server,       \* of each: how it reports token ids, and whether it reports usage
  Answers,      \* what a server may generate: sequences of tokens
  NumGroups,    \* prompts times output lengths
  Runs,         \* measured answers per group
  WarmupRuns,   \* answers that come first and are not recorded
  MaxLaunches,  \* bound: launches over one file
  MaxFaults     \* bound: failures, interruptions and kills

ASSUME CountsAssumption ==
  NumGroups \in Nat \ {0} /\ Runs \in Nat \ {0} /\ WarmupRuns \in Nat
ASSUME ServerAssumption == Server \in [Setups -> [dialect : Dialects, usage : BOOLEAN]]
ASSUME AnswersAssumption == \A a \in Answers : a \in Seq(Nat)
ASSUME BenchBoundAssumption == {MaxLaunches, MaxFaults} \subseteq Nat

VARIABLES
  pc,           \* where the process is
  bench,        \* its file and its groups, as BenchRecord has them
  group,        \* the observations of the group that is being measured
  nth,          \* which answer of the group this is, warmups first
  answer,       \* what the server generates for the request under way
  sent,         \* how many tokens of it have been streamed
  take,         \* what _measure has read of it
  counted,      \* what /tokenize said
  client,       \* the client of the pool: none, open, closed, or broken in closing
  exc,          \* the exception that leaves run_groups or the last write, or "none"
  unopened,     \* the write of this launch that could not open the file, or "none"
  launches,     \* launches so far
  faults        \* faults so far

measureVars == <<group, nth, answer, sent, take, counted>>
benchVars == <<pc, bench, measureVars, client, exc, unopened, launches, faults>>

File == INSTANCE BenchRecord WITH
  GroupsOf <- [s \in Setups |-> {}]      \* only its operators are used

NoAnswer == <<>>

BenchInit ==
  /\ pc = "down"
  /\ File!RecordInit
  /\ group = <<>> /\ nth = 1
  /\ answer = NoAnswer /\ sent = 0 /\ take = EmptyTake /\ counted = NoCount
  /\ client = "none" /\ exc = "none" /\ unopened = "none"
  /\ launches = 0 /\ faults = 0

Await(where) == pc' = where

Fault == faults < MaxFaults /\ faults' = faults + 1

AwaitPoints == {"scrape", "request", "stream", "count", "rescrape"}

-----------------------------------------------------------------------------
(* Measuring.                                                              *)

\* Warmups are requested at once, measured answers after a scrape.
ToAnswer(n) ==
  /\ nth' = n
  /\ Await(IF n <= WarmupRuns THEN "request" ELSE "scrape")

Launch ==
  /\ pc = "down"
  /\ launches < MaxLaunches
  /\ launches' = launches + 1
  /\ \E s \in Setups : bench' = File!Launched(bench, s)
  /\ group' = <<>>
  /\ ToAnswer(1)
  /\ client' = "open"
  /\ exc' = "none" /\ unopened' = "none"
  /\ UNCHANGED <<answer, sent, take, counted, faults>>

\* _fetch_metrics_text returns "" when the scrape fails; it never raises.
Scrape ==
  /\ pc = "scrape"
  /\ Await("request")
  /\ UNCHANGED <<bench, measureVars, client, exc, unopened, launches, faults>>

RequestOpens ==
  /\ pc = "request"
  /\ \E a \in Answers : answer' = a
  /\ sent' = 0
  /\ take' = EmptyTake
  /\ Await("stream")
  /\ UNCHANGED <<bench, group, nth, counted, client, exc, unopened, launches, faults>>

ThisServer == Server[bench.setup]

ChunkArrives ==
  /\ pc = "stream"
  /\ sent < Len(answer)
  /\ \E n \in (sent + 1)..Len(answer) :
       /\ sent' = n
       /\ take' = TakeChunk(take, ChunkOf(ThisServer.dialect, SubSeq(answer, sent + 1, n)))
  /\ UNCHANGED <<pc, bench, group, nth, answer, counted, client, exc, unopened, launches, faults>>

\* A line cannot be read; the tokens it carried are gone.
MalformedArrives ==
  /\ pc = "stream"
  /\ Fault
  /\ \E n \in sent..Len(answer) : sent' = n
  /\ take' = TakeMalformed(take)
  /\ UNCHANGED <<pc, bench, group, nth, answer, counted, client, exc, unopened, launches>>

\* include_usage asks for one last chunk with the usage.
UsageArrives ==
  /\ pc = "stream"
  /\ ThisServer.usage
  /\ sent = Len(answer)
  /\ take.usage = NoCount
  /\ take' = TakeUsage(take, Len(answer))
  /\ UNCHANGED <<pc, bench, group, nth, answer, sent, counted, client, exc, unopened, launches, faults>>

\* An answer of a warmup is dropped, that of a measured run scraped again.
AnswerRead(count) ==
  IF nth <= WarmupRuns
    THEN /\ ToAnswer(nth + 1)
         /\ answer' = NoAnswer /\ sent' = 0 /\ take' = EmptyTake /\ counted' = NoCount
    ELSE /\ Await("rescrape")
         /\ counted' = count
         /\ UNCHANGED <<nth, answer, sent, take>>

\* The stream is over: with [DONE], or closed by a server that stopped short.
StreamEnds ==
  /\ pc = "stream"
  /\ IF sent = Len(answer) /\ (ThisServer.usage => take.usage # NoCount)
       THEN UNCHANGED faults
       ELSE Fault
  /\ IF NeedsTokenizer(take)
       THEN Await("count") /\ UNCHANGED <<nth, answer, sent, take, counted>>
       ELSE AnswerRead(NoCount)
  /\ UNCHANGED <<bench, group, client, exc, unopened, launches>>

\* _tokenize_visible_text returns None when the call fails; it never raises.
CountReturns ==
  /\ pc = "count"
  /\ \E count \in {sent, NoCount} : AnswerRead(count)
  /\ UNCHANGED <<bench, group, client, exc, unopened, launches, faults>>

\* An observation, as it is recorded.  The last two fields are known to the model
\* only: the answer the server generated, and whether all of it was streamed, in
\* lines that could be read.
Observed ==
  [ids   |-> Observation(take, counted).ids,
   ready |-> Observation(take, counted).ready,
   rates |-> Observation(take, counted).rates,
   truth |-> answer,
   clean |-> sent = Len(answer) /\ take.usage # NoCount /\ ~take.bad]

\* Mutant: observations are appended to the list of the last group.
RescrapeAccumulates ==
  /\ pc = "rescrape"
  /\ LET observations == Append(group, Observed)
     IN  IF nth < WarmupRuns + Runs
           THEN /\ group' = observations
                /\ ToAnswer(nth + 1)
                /\ UNCHANGED bench
           ELSE /\ bench' = File!Measured(bench, observations)
                /\ group' = observations
                /\ nth' = nth
                /\ Await("save")
  /\ answer' = NoAnswer /\ sent' = 0 /\ take' = EmptyTake /\ counted' = NoCount
  /\ UNCHANGED <<client, exc, unopened, launches, faults>>

\* The second scrape, after which the observation is recorded; the last one of a
\* group completes it, and the groups are to be written.
Rescrape ==
  /\ pc = "rescrape"
  /\ LET observations == Append(group, Observed)
     IN  IF nth < WarmupRuns + Runs
           THEN /\ group' = observations
                /\ ToAnswer(nth + 1)
                /\ UNCHANGED bench
           ELSE /\ bench' = File!Measured(bench, observations)
                /\ group' = <<>>
                /\ nth' = nth
                /\ Await("save")
  /\ answer' = NoAnswer /\ sent' = 0 /\ take' = EmptyTake /\ counted' = NoCount
  /\ UNCHANGED <<client, exc, unopened, launches, faults>>

-----------------------------------------------------------------------------
(* Writing and leaving.                                                    *)

\* The three writes: where the file is to be opened, and where it has been.
Opening == [save |-> "flush", tell |-> "report", finish |-> "final"]

\* write_text opens the file, which truncates it, before anything is written.
Open ==
  /\ pc \in DOMAIN Opening
  /\ bench' = File!Opened(bench)
  /\ Await(Opening[pc])
  /\ UNCHANGED <<measureVars, client, exc, unopened, launches, faults>>

\* The groups so far are in the file, and the next is begun.
Flush ==
  /\ pc = "flush"
  /\ bench' = File!Flushed(bench, FALSE)
  /\ IF Len(bench.groups) = NumGroups
       THEN Await("closing") /\ UNCHANGED nth
       ELSE ToAnswer(1)
  /\ UNCHANGED <<group, answer, sent, take, counted, client, exc, unopened, launches, faults>>

ForgetAnswer ==
  /\ group' = <<>> /\ nth' = 1
  /\ answer' = NoAnswer /\ sent' = 0 /\ take' = EmptyTake /\ counted' = NoCount

\* Mutant: the failure is raised without having been written.
RequestFailsUnreported ==
  /\ pc \in {"request", "stream", "count"}
  /\ Fault
  /\ exc' = "request"
  /\ Await("closing")
  /\ ForgetAnswer
  /\ UNCHANGED <<bench, client, unopened, launches>>

\* The connection, the status or the stream raises, or the answer of /tokenize is no
\* object: the failure is to be written before the exception goes on.
RequestFails ==
  /\ pc \in {"request", "stream", "count"}
  /\ Fault
  /\ exc' = "request"
  /\ Await("tell")
  /\ ForgetAnswer
  /\ UNCHANGED <<bench, client, unopened, launches>>

Report ==
  /\ pc = "report"
  /\ bench' = File!Flushed(bench, TRUE)
  /\ Await("closing")
  /\ UNCHANGED <<measureVars, client, exc, unopened, launches, faults>>

\* A write raises: its error replaces any before it.  In run_groups it goes on to the
\* pool; the last write comes after that, and ends the command.
WriteRaises(last) ==
  /\ exc' = "write"
  /\ IF last
       THEN Await("down") /\ bench' = File!Stopped(bench)
       ELSE Await("closing") /\ UNCHANGED bench
  /\ ForgetAnswer
  /\ UNCHANGED <<client, launches>>

\* The file cannot be opened, or what is to be written is no json: it stays as it was.
OpenFails ==
  /\ pc \in DOMAIN Opening
  /\ Fault
  /\ unopened' = pc
  /\ WriteRaises(pc = "finish")

\* The disk is full: the file is open, and truncated.
WriteFails ==
  /\ pc \in {Opening[place] : place \in DOMAIN Opening}
  /\ Fault
  /\ WriteRaises(pc = "final")
  /\ UNCHANGED unopened

\* A first Ctrl-C cancels the task at its await; except Exception does not see it.
Interrupt ==
  /\ pc \in AwaitPoints
  /\ Fault
  /\ exc' = "cancelled"
  /\ Await("closing")
  /\ ForgetAnswer
  /\ UNCHANGED <<bench, client, unopened, launches>>

\* How the exceptions of the body and of the pool end up as one: a cancellation
\* goes first, one error goes as it is, two go together.
CloseErrors(body, close) ==
  CASE body = "none"                                        -> close
    [] body # "none" /\ "cancelled" \in {body, close}       -> "cancelled"
    [] body # "none" /\ "cancelled" \notin {body, close}    -> "both"

\* The pool has closed its client, or tried to; run_groups is left.
Leave(how, error) ==
  /\ client' = how
  /\ exc' = error
  /\ IF error = "none"
       THEN Await("finish") /\ UNCHANGED bench
       ELSE Await("down") /\ bench' = File!Stopped(bench)
  /\ ForgetAnswer
  /\ UNCHANGED <<unopened, launches>>

PoolCloses ==
  /\ pc = "closing"
  /\ Leave("closed", exc)
  /\ UNCHANGED faults

PoolCloseFails ==
  /\ pc = "closing"
  /\ Fault
  /\ \E close \in {"close", "cancelled"} : Leave("broken", CloseErrors(exc, close))

\* Everything is measured and the pool closed: the file is written as complete.
Finalize ==
  /\ pc = "final"
  /\ bench' = File!Completed(bench)
  /\ Await("down")
  /\ UNCHANGED <<measureVars, client, exc, unopened, launches, faults>>

\* The process is killed, wherever it is.
Die ==
  /\ pc # "down"
  /\ Fault
  /\ exc' = "killed"
  /\ bench' = File!Stopped(bench)
  /\ Await("down")
  /\ ForgetAnswer
  /\ UNCHANGED <<client, unopened, launches>>

-----------------------------------------------------------------------------

Process ==
  \/ Scrape \/ RequestOpens \/ ChunkArrives \/ MalformedArrives \/ UsageArrives
  \/ StreamEnds \/ CountReturns \/ Rescrape \/ Open \/ Flush \/ RequestFails
  \/ Report \/ OpenFails \/ WriteFails \/ Interrupt \/ PoolCloses \/ PoolCloseFails \/ Finalize \/ Die

BenchNext == Launch \/ Process

BenchSpec == BenchInit /\ [][BenchNext]_benchVars

-----------------------------------------------------------------------------
(* Properties.                                                             *)

\* Servers that report every token id once, and usage.
Reporting == {s \in Setups : Server[s].usage /\ Server[s].dialect \notin {"echo", "silent"}}

ReadyWhenWhole(setup, groups) ==
  \A g \in DOMAIN groups : \A i \in DOMAIN groups[g] :
    LET o == groups[g][i]
    IN  /\ o.ready => o.ids = o.truth
        /\ o.clean /\ o.truth # <<>> /\ setup \in Reporting => o.ready

\* Token ids that are ready for parity, in memory or in the file, are the whole of
\* what the server generated for that request: however the server reports ids, and
\* whether the stream is cut short, garbled or left without usage ("mismatch, missing,
\* malformed observations are not used for the gate", p0-003).  And an answer
\* with tokens that was streamed to its end by a server that reports its ids once is
\* ready.
ReadyIsWholeAnswer ==
  /\ ReadyWhenWhole(bench.setup, bench.groups)
  /\ bench.file.kind \in {"partial", "complete"} =>
       ReadyWhenWhole(bench.file.setup, bench.file.groups)

\* The groups of this launch without the last of them.
BeforeLast(b) == [b EXCEPT !.groups = SubSeq(@, 1, Len(@) - 1)]

\* What is in the file after an exception, if this launch has measured a group.
LeftBehind ==
  /\ exc = "request" => bench.file = File!Whole(bench, "partial", TRUE)
  /\ exc \notin {"none", "request"} /\ bench.groups # <<>> =>
       /\ unopened = "none" =>
            bench.file \in {File!Torn} \cup
                           {File!Whole(bench, "partial", failed) : failed \in BOOLEAN}
       /\ unopened \in {"tell", "finish"} => bench.file = File!Whole(bench, "partial", FALSE)
       /\ unopened = "save" /\ Len(bench.groups) > 1 =>
            bench.file = File!Whole(BeforeLast(bench), "partial", FALSE)

\* How the command ended and what it left behind agree, unless it was killed.
\* Without an exception its own groups are all in the file, as complete.  A request
\* that failed is in the file with every group that came before it ("writes a
\* structured failure object to the partial JSON payload before re-raising", p0-002).
\* After any other error the file is torn or holds every group of this launch that
\* was measured, as partial; only a write that could not open the file leaves it as it
\* was, one group behind, or, if it was to have the first group, as the launch before
\* left it.  If no more than the pool failed to close, all groups are in the file, as
\* partial.  And the client was closed, or failed to ("cancellation and request
\* failures do not leak transports").
EndMatchesFile ==
  pc = "down" /\ launches > 0 /\ exc # "killed" =>
    /\ client \in {"closed", "broken"}
    /\ exc = "none" => bench.file = File!Whole(bench, "complete", FALSE)
    /\ LeftBehind
    /\ exc = "close" => /\ bench.file = File!Whole(bench, "partial", FALSE)
                        /\ Len(bench.groups) = NumGroups

\* What a reader may conclude from an observation: the answer, or nothing.
Evidence(o) == IF o.ready THEN o.ids ELSE <<>>

EvidenceOf(groups) ==
  [g \in DOMAIN groups |-> [i \in DOMAIN groups[g] |-> Evidence(groups[g][i])]]

EvidenceFile(file) ==
  IF "groups" \in DOMAIN file THEN [file EXCEPT !.groups = EvidenceOf(@)] ELSE file

Record == INSTANCE BenchRecord WITH
  GroupsOf <- [s \in Setups |-> [1..Runs -> Answers \cup {<<>>}]],
  bench    <- [bench EXCEPT !.groups = EvidenceOf(@), !.file = EvidenceFile(@)]

\* A run of the command, seen as its file and the groups it has measured, is a
\* benchmark record: whatever was interrupted, a whole file holds the first groups of
\* one launch in their order, each a full count of runs, and all of them if it says
\* complete.
ImplementsBenchRecord == Record!RecordSpec
=============================================================================
