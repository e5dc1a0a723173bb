-------------------------- MODULE SanitizedStream ---------------------------
(***************************************************************************)
(* A streamed answer on its way through the gateway, with the sanitizer    *)
(* in it: the chunks of the backend become those of /v1/chat/completions   *)
(* (server/app.py) or the events of /v1/messages (anthropic_adapter.py).   *)
(* chunk names what is being handled:                                      *)
(*   buffering  messages only: the whole stream is read before any of it   *)
(*   none       the wait for the next chunk                                *)
(*   content    a chunk with text                                          *)
(*   finish     the chunk with the finish_reason, and maybe some text      *)
(*   end        [DONE], or the stream ended without it                     *)
(*   over       the answer has ended, or broken off                        *)
(* One choice is modelled; each has a sanitizer of its own.                *)
(***************************************************************************)
EXTENDS ThoughtSanitizer

VARIABLES
  endpoint,   \* "chat" or "messages"
  chunk,
  finished,   \* the chunk with the finish_reason was read
  got,        \* the text of the deltas that the client was sent
  block,      \* messages: its content block is "none", "open" or "closed"
  told        \* what else the client was told: "finish_reason", "end", "error" or "none"

handlerVars == <<endpoint, chunk, finished, got, block, told>>
streamVars == <<sanitizerVars, handlerVars>>

StreamInit ==
  /\ SanitizerInit
  /\ endpoint \in {"chat", "messages"}
  /\ chunk = IF endpoint = "chat" THEN "none" ELSE "buffering"
  /\ finished = FALSE
  /\ got = <<>>
  /\ block = "none"
  /\ told = "none"

\* The sanitizer works on the chunk.
Sanitizes == Iterate /\ UNCHANGED handlerVars

-----------------------------------------------------------------------------
(* Chunks of the backend.                                                  *)

ReadContent ==
  /\ chunk = "none" /\ ~finished
  /\ Feed
  /\ chunk' = "content"
  /\ UNCHANGED <<endpoint, finished, got, block, told>>

\* The last text may come with the finish_reason, or have come before it.
ReadFinish ==
  /\ chunk = "none" /\ ~finished
  /\ IF sent = Len(text)
       THEN UNCHANGED sanitizerVars
       ELSE Feed /\ sent' = Len(text)
  /\ chunk' = "finish"
  /\ finished' = TRUE
  /\ UNCHANGED <<endpoint, got, block, told>>

\* Mutant: the finish_reason goes on, and what is held back waits for [DONE].
FinishesChoiceLate ==
  /\ endpoint = "chat" /\ chunk = "finish" /\ mode = "idle"
  /\ got' = out
  /\ told' = "finish_reason"
  /\ chunk' = "none"
  /\ UNCHANGED <<sanitizerVars, endpoint, finished, block>>

\* _sanitize_openai_stream_chunk: with the finish_reason, the sanitizer is finished.
FinishesChoice ==
  /\ endpoint = "chat" /\ chunk = "finish" /\ mode = "idle"
  /\ Finish
  /\ UNCHANGED handlerVars

\* [DONE] finishes the sanitizers of chat, a second time as a rule; messages finish
\* theirs after the last chunk, whether or not [DONE] came.
ReadDone ==
  /\ chunk = "none" /\ sent = Len(text)
  /\ Finish
  /\ chunk' = "end"
  /\ UNCHANGED <<endpoint, finished, got, block, told>>

\* The backend closes the stream without [DONE]: chat says nothing more.
ClosesEarly ==
  /\ endpoint = "chat" /\ chunk = "none"
  /\ chunk' = "over"
  /\ UNCHANGED <<sanitizerVars, endpoint, finished, got, block, told>>

\* The request or the connection fails, which messages meet while they buffer.
StreamFails ==
  /\ chunk = IF endpoint = "chat" THEN "none" ELSE "buffering"
  /\ chunk' = "over"
  /\ told' = "error"
  /\ UNCHANGED <<sanitizerVars, endpoint, finished, got, block>>

Buffered ==
  /\ chunk = "buffering"
  /\ chunk' = "none"
  /\ UNCHANGED <<sanitizerVars, endpoint, finished, got, block, told>>

-----------------------------------------------------------------------------
(* What the client is sent.                                                *)

\* A chunk with what the sanitizer let through, and the finish_reason if there is one.
SendChunk ==
  /\ endpoint = "chat"
  /\ \/ chunk = "content" /\ mode = "idle" /\ UNCHANGED told
     \/ chunk = "finish" /\ mode = "done" /\ told' = "finish_reason"
  /\ got' = out
  /\ chunk' = "none"
  /\ UNCHANGED <<sanitizerVars, endpoint, finished, block>>

\* The rest, if the finish_reason never came, and [DONE].
SendDone ==
  /\ endpoint = "chat" /\ chunk = "end" /\ mode = "done"
  /\ got' = out
  /\ told' = "end"
  /\ chunk' = "over"
  /\ UNCHANGED <<sanitizerVars, endpoint, finished, block>>

\* A content_block_delta, and before the first one content_block_start.
SendDelta ==
  /\ endpoint = "messages"
  /\ chunk \in {"content", "finish"} /\ mode = "idle"
  /\ got' = out
  /\ block' = IF out = got THEN block ELSE "open"
  /\ chunk' = "none"
  /\ UNCHANGED <<sanitizerVars, endpoint, finished, told>>

\* The tail as a delta, content_block_stop if there was a start, message_stop.
SendStop ==
  /\ endpoint = "messages" /\ chunk = "end" /\ mode = "done"
  /\ got' = out
  /\ block' = IF out = <<>> THEN "none" ELSE "closed"
  /\ told' = "end"
  /\ chunk' = "over"
  /\ UNCHANGED <<sanitizerVars, endpoint, finished>>
-----------------------------------------------------------------------------

StreamNext ==
  \/ Sanitizes
  \/ ReadContent \/ ReadFinish \/ FinishesChoice \/ ReadDone \/ ClosesEarly \/ StreamFails
  \/ Buffered \/ SendChunk \/ SendDone \/ SendDelta \/ SendStop

StreamSpec == StreamInit /\ [][StreamNext]_streamVars

\* A call of the sanitizer runs to its end once it has begun; nothing is assumed of
\* the backend.
StreamFairSpec == StreamSpec /\ WF_streamVars(Sanitizes)

\* A client that is told of the end, by a finish_reason, by [DONE] or by message_stop,
\* has been sent all that the text shows, held back or not; one that is not has a
\* beginning of it ("flushes visible tail with finish_reason", test_openai_server.py).
\* Text comes in a content block, and no block stays open at the end.
ToldIsSent ==
  /\ IsPrefix(got, ShownOf[text])
  /\ told \in {"finish_reason", "end"} => got = ShownOf[text]
  /\ endpoint = "messages" /\ got # <<>> => block # "none"
  /\ endpoint = "messages" /\ told = "end" => block = IF got = <<>> THEN "none" ELSE "closed"
=============================================================================
