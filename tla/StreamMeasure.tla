--------------------------- MODULE StreamMeasure ----------------------------
(***************************************************************************)
(* What the benchmarks keep of one streamed answer (_measure in cli.py):   *)
(* the token ids of its chunks, wherever a server puts them, the usage it  *)
(* reports at the end, and whether any line could not be read.  Texts are  *)
(* reduced to whether there was any, times to the order of arrival.        *)
(***************************************************************************)
EXTENDS Naturals, Sequences

CONSTANT NoCount          \* a count nobody reported

ASSUME NoCountAssumption == NoCount \notin Nat

\* The places of one chunk that may hold token ids: delta.token_ids; the reasoning
\* and content ids of the delta; choice.token_ids; token_ids of the payload.
Places == {"delta", "parts", "choice", "payload"}

\* How servers report the same tokens.  "echo" repeats them in two places that are
\* added up, "both" in two places of which only the first is read.
Dialects == {"delta", "parts", "choice", "payload", "both", "echo", "silent"}

PlacesOf(dialect) ==
  CASE dialect \in Places   -> {dialect}
    [] dialect = "both"     -> {"delta", "choice"}
    [] dialect = "echo"     -> {"parts", "choice"}
    [] dialect = "silent"   -> {}

ChunkOf(dialect, tokens) ==
  [p \in Places |-> IF p \in PlacesOf(dialect) THEN tokens ELSE <<>>]

\* The ids of a chunk: those of the delta, or what the other places of the choice
\* add up to, or those of the payload.
StreamChunkTokenIds(chunk) ==
  LET choice == IF chunk["delta"] # <<>>
                  THEN chunk["delta"]
                  ELSE chunk["parts"] \o chunk["choice"]
  IN  IF choice # <<>> THEN choice ELSE chunk["payload"]

-----------------------------------------------------------------------------
(* Reading the stream.                                                     *)

EmptyTake == [ids |-> <<>>, arrivals |-> 0, usage |-> NoCount, text |-> FALSE, bad |-> FALSE]

\* A chunk with a choice: its ids, its text, and no usage.
TakeChunk(take, chunk) ==
  LET ids == StreamChunkTokenIds(chunk)
  IN  [take EXCEPT !.ids      = @ \o ids,
                   !.arrivals = IF ids = <<>> THEN @ ELSE @ + 1,
                   !.text     = TRUE]

\* The chunk with the usage, which has no choice.
TakeUsage(take, count) == [take EXCEPT !.usage = count]

\* A line that is no JSON, or no object.
TakeMalformed(take) == [take EXCEPT !.bad = TRUE]

-----------------------------------------------------------------------------
(* The result, once the stream has ended.                                  *)

\* Nothing tells how many tokens the text has, so /tokenize is asked.
NeedsTokenizer(take) == take.ids = <<>> /\ take.usage = NoCount /\ take.text

TokenCountStatus(take) ==
  CASE take.bad                                        -> "malformed_stream"
    [] ~take.bad /\ take.ids = <<>>                    -> "raw_token_ids_missing"
    [] ~take.bad /\ take.ids # <<>>
                 /\ take.usage = NoCount               -> "usage_missing"
    [] ~take.bad /\ take.ids # <<>>
                 /\ take.usage = Len(take.ids)         -> "matched"
    [] OTHER                                           -> "usage_mismatch"

TimingEvidenceValid(take) == TokenCountStatus(take) = "matched"

\* Which rates are reported: time to the first token, time per token, throughput.
Rates(take, counted) ==
  LET valid      == TimingEvidenceValid(take)
      completion == IF NeedsTokenizer(take) THEN counted ELSE take.usage
  IN  {m \in {"ttft", "tpot", "throughput"} :
         CASE m = "ttft"       -> valid
           [] m = "tpot"       -> valid /\ Len(take.ids) > 1 /\ take.arrivals > 1
           [] m = "throughput" -> /\ ~take.bad
                                  /\ valid \/ take.ids = <<>>
                                  /\ completion # NoCount
                                  /\ completion > 0}

\* Mutant: token ids that were recorded make an observation ready.
ObservationUnchecked(take, counted) ==
  [ids   |-> take.ids,
   ready |-> take.ids # <<>>,
   rates |-> Rates(take, counted)]

\* What an observation keeps: ids that are ready for parity only if the usage
\* confirms their number.
Observation(take, counted) ==
  [ids   |-> take.ids,
   ready |-> take.ids # <<>> /\ TimingEvidenceValid(take),
   rates |-> Rates(take, counted)]
=============================================================================
