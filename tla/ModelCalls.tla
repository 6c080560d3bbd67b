------------------------------ MODULE ModelCalls ------------------------------
(***************************************************************************)
(* The adapters that the turns of a process share: the language model,     *)
(* over the OpenAI API or llama.cpp's, and the reranker with its circuit   *)
(* breaker.  A turn has its candidates reranked, asks for its answer as a  *)
(* stream, falls back to a completion, and aborts the adapter's active     *)
(* response when it ends, whosever that is.  Each call is a loop of        *)
(* attempts.  Of a chunk of text only the attempt that brought it is kept. *)
(***************************************************************************)
EXTENDS Integers, Sequences

CONSTANTS
  Turns,       \* turns of different conversations, each of them run again and again
  Nobody,      \* no active response
  MaxRetries,  \* llm_max_retries
  Threshold,   \* tei_reranker_circuit_threshold
  MaxTokens    \* bound: chunks a stream brings in all

CallsAssumption ==
  /\ Nobody \notin Turns
  /\ MaxRetries \in Nat /\ Threshold \in Nat \ {0} /\ MaxTokens \in Nat

VARIABLES
  provider,  \* the adapter the process was configured with
  active,    \* _active_response: the turn that reads it
  at,        \* what each turn is waiting for
  attempt,   \* attempts of its present call that failed
  response,  \* the response it reads, or what became of it
  chunks,    \* for each chunk it has, the attempt that brought it
  short,     \* a response of its stream stopped without a word that it was complete
  result,    \* what its call came to
  failures,  \* _consecutive_failures of the reranker
  open       \* its circuit has been opened

call == <<attempt, response, chunks, short>>
circuit == <<failures, open>>
vars == <<provider, active, at, call, result, circuit>>

Init ==
  /\ provider \in {"llamacpp", "openai"}
  /\ active = Nobody
  /\ at = [t \in Turns |-> "ended"]
  /\ attempt = [t \in Turns |-> 0]
  /\ response = [t \in Turns |-> "none"]
  /\ chunks = [t \in Turns |-> <<>>]
  /\ short = [t \in Turns |-> FALSE]
  /\ result = [t \in Turns |-> "none"]
  /\ failures = 0
  /\ open = FALSE

Goto(t, place) == at' = [at EXCEPT ![t] = place]
Ends(t, how) == Goto(t, "stopping") /\ result' = [result EXCEPT ![t] = how]

-----------------------------------------------------------------------------
(* The reranker.  Without it a turn goes on with the order it has.          *)

Begin(t) ==
  /\ at[t] = "ended"
  /\ Goto(t, "retrieving")
  /\ attempt' = [attempt EXCEPT ![t] = 0]
  /\ response' = [response EXCEPT ![t] = "none"]
  /\ chunks' = [chunks EXCEPT ![t] = <<>>]
  /\ short' = [short EXCEPT ![t] = FALSE]
  /\ result' = [result EXCEPT ![t] = "none"]
  /\ UNCHANGED <<provider, active, circuit>>

Bypass(t) ==
  /\ at[t] = "retrieving"
  /\ open
  /\ Goto(t, "prompting")
  /\ UNCHANGED <<provider, active, call, result, circuit>>

\* Half-open: the first call after the cooldown resets the breaker for all.
AskReranker(t) ==
  /\ at[t] = "retrieving"
  /\ Goto(t, "reranking")
  /\ open' = FALSE
  /\ failures' = IF open THEN 0 ELSE failures
  /\ UNCHANGED <<provider, active, call, result>>

RerankSucceeds(t) ==
  /\ at[t] = "reranking"
  /\ Goto(t, "prompting")
  /\ failures' = 0
  /\ open' = FALSE
  /\ UNCHANGED <<provider, active, call, result>>

\* Any 5xx, other status, timeout or transport error.
RerankFails(t) ==
  /\ at[t] = "reranking"
  /\ Goto(t, "prompting")
  /\ failures' = failures + 1
  /\ open' = (open \/ failures' >= Threshold)
  /\ UNCHANGED <<provider, active, call, result>>

-----------------------------------------------------------------------------
(* The answer as a stream.                                                  *)

\* How a request can fail.  A read error, or llama.cpp's 4xx, is not retried;
\* OpenAI's stream takes a 4xx for unavailability.
Failures == {"413", "4xx", "5xx", "connect", "protocol", "timeout", "read"}
Unavailable == {"5xx", "connect", "protocol"}
StreamRetries(how) == how \in Unavailable \/ (how = "4xx" /\ provider = "openai")

Yielded(t) == \E i \in DOMAIN chunks[t] : chunks[t][i] = attempt[t]
CanRetry(t) == attempt[t] < MaxRetries

\* The adapter's finally block forgets the active response, whosever it is.
Forget(t) ==
  active' = IF provider = "openai" /\ response[t] \in {"open", "aborted"} THEN Nobody ELSE active

\* What _generate_answer_text does with an exception: nothing of the stream
\* counts, the prompt is sent again as one completion.
FallBack(t) ==
  /\ Goto(t, "completing")
  /\ attempt' = [attempt EXCEPT ![t] = 0]
  /\ chunks' = [chunks EXCEPT ![t] = <<>>]
  /\ response' = [response EXCEPT ![t] = "none"]
  /\ short' = [short EXCEPT ![t] = FALSE]
  /\ UNCHANGED result

\* Mutant: the attempt is not counted.
TryUncounted(t) ==
  /\ response' = [response EXCEPT ![t] = "none"]
  /\ UNCHANGED <<at, attempt, chunks, result>>

TryAgain(t) ==
  /\ attempt' = [attempt EXCEPT ![t] = @ + 1]
  /\ response' = [response EXCEPT ![t] = "none"]
  /\ UNCHANGED <<at, chunks, result>>

Stream(t) ==
  /\ at[t] = "prompting"
  /\ Goto(t, "streaming")
  /\ UNCHANGED <<provider, active, call, result, circuit>>

\* The headers are in.  llama.cpp's stream_text does not register its response.
Respond(t) ==
  /\ at[t] = "streaming" /\ response[t] = "none"
  /\ response' = [response EXCEPT ![t] = "open"]
  /\ active' = IF provider = "openai" THEN t ELSE active
  /\ UNCHANGED <<provider, at, attempt, chunks, short, result, circuit>>

Chunk(t) ==
  /\ at[t] = "streaming" /\ response[t] \in {"open", "aborted"}
  /\ Len(chunks[t]) < MaxTokens
  /\ chunks' = [chunks EXCEPT ![t] = Append(@, attempt[t])]
  /\ UNCHANGED <<provider, active, at, attempt, response, short, result, circuit>>

\* Mutant: what this attempt has yielded does not stand in the way of another.
StreamFailsCarelessly(t) ==
  /\ at[t] = "streaming"
  /\ Forget(t)
  /\ \E how \in Failures :
       IF StreamRetries(how) /\ CanRetry(t) THEN TryAgain(t) /\ UNCHANGED short ELSE FallBack(t)
  /\ UNCHANGED <<provider, circuit>>

\* A status is refused before the first chunk; a connection fails at any
\* time; one that another turn aborted fails with a read error.
StreamFails(t) ==
  /\ at[t] = "streaming"
  /\ Forget(t)
  /\ \E how \in Failures :
       /\ response[t] # "none" => how \in {"protocol", "timeout", "read"}
       /\ response[t] = "aborted" => how = "read"
       /\ IF StreamRetries(how) /\ ~Yielded(t) /\ CanRetry(t)
          THEN TryAgain(t) /\ UNCHANGED short
          ELSE FallBack(t)
  /\ UNCHANGED <<provider, circuit>>

\* [DONE], or a chunk with a finish_reason, be it "length"; it may be buffered.
StreamEnds(t) ==
  /\ at[t] = "streaming" /\ response[t] \in {"open", "aborted"}
  /\ Forget(t)
  /\ IF chunks[t] = <<>>
     THEN FallBack(t)
     ELSE /\ Ends(t, "answer")
          /\ response' = [response EXCEPT ![t] = "finished"]
          /\ UNCHANGED <<attempt, chunks, short>>
  /\ UNCHANGED <<provider, circuit>>

\* The body ends with neither.  OpenAI's adapter returns; llama.cpp's
\* stream_text leaves the response and its loop makes another attempt, after
\* the text of this one; after the last it raises.
StreamStops(t) ==
  /\ at[t] = "streaming" /\ response[t] = "open"
  /\ Forget(t)
  /\ \/ /\ provider = "openai" /\ chunks[t] # <<>>
        /\ Ends(t, "answer")
        /\ short' = [short EXCEPT ![t] = TRUE]
        /\ response' = [response EXCEPT ![t] = "stopped"]
        /\ UNCHANGED <<attempt, chunks>>
     \/ /\ provider = "llamacpp" /\ CanRetry(t)
        /\ TryAgain(t)
        /\ short' = [short EXCEPT ![t] = TRUE]
     \/ /\ IF provider = "openai" THEN chunks[t] = <<>> ELSE ~CanRetry(t)
        /\ FallBack(t)
  /\ UNCHANGED <<provider, circuit>>

-----------------------------------------------------------------------------
(* The answer as one completion.                                            *)

\* The text may be empty.
CompletionSucceeds(t) ==
  /\ at[t] = "completing"
  /\ Ends(t, "answer")
  /\ response' = [response EXCEPT ![t] = "finished"]
  /\ chunks' \in {chunks, [chunks EXCEPT ![t] = <<attempt[t]>>]}
  /\ UNCHANGED <<provider, active, attempt, short, circuit>>

\* OpenAI's adapter has posted the payload in up to three forms by then.
CompletionFails(t) ==
  /\ at[t] = "completing"
  /\ \E how \in Failures :
       \/ how = "413" /\ Ends(t, "overflow") /\ UNCHANGED call
       \/ /\ how \in Unavailable /\ CanRetry(t)
          /\ TryAgain(t) /\ UNCHANGED short
       \/ /\ how # "413" /\ (how \in Unavailable => ~CanRetry(t))
          /\ Ends(t, "error") /\ UNCHANGED call
  /\ UNCHANGED <<provider, active, circuit>>

-----------------------------------------------------------------------------
(* The end of a turn.                                                       *)

\* The client leaves or the turn times out: its task is cancelled at the await.
Cancel(t) ==
  /\ at[t] \in {"reranking", "streaming", "completing"}
  /\ Ends(t, "left")
  /\ Forget(t)
  /\ response' = [response EXCEPT ![t] = "none"]
  /\ UNCHANGED <<provider, attempt, chunks, short, circuit>>

\* handle_turn's finally block.  The turn's own response has been forgotten by
\* then: what abort closes is the response of another conversation's turn.
Stop(t) ==
  /\ at[t] = "stopping"
  /\ Goto(t, "ended")
  /\ active' = Nobody
  /\ response' = IF active = Nobody THEN response ELSE [response EXCEPT ![active] = "aborted"]
  /\ UNCHANGED <<provider, attempt, chunks, short, result, circuit>>

TurnStep(t) ==
  \/ Bypass(t) \/ AskReranker(t) \/ RerankSucceeds(t) \/ RerankFails(t)
  \/ Stream(t) \/ Respond(t) \/ Chunk(t) \/ StreamFails(t) \/ StreamEnds(t) \/ StreamStops(t)
  \/ CompletionSucceeds(t) \/ CompletionFails(t) \/ Cancel(t) \/ Stop(t)

Next == \E t \in Turns : Begin(t) \/ TurnStep(t)

Spec == Init /\ [][Next]_vars

\* What a turn waits for comes or times out.
Fairness == \A t \in Turns : WF_vars(TurnStep(t))

-----------------------------------------------------------------------------
(***************************************************************************)
(* An answer is what one response carried until the model was done with    *)
(* it, however many attempts, retries, aborts of other turns and fallbacks *)
(* came before; unless the server of a stream stopped without a word.  (An *)
(* answer of llama.cpp may then hold the text of several responses.)       *)
(***************************************************************************)
AnswersAreWhole ==
  \A t \in Turns : result[t] = "answer" /\ ~short[t] =>
    /\ response[t] = "finished"
    /\ \A i \in DOMAIN chunks[t] : chunks[t][i] = attempt[t]

(***************************************************************************)
(* Every turn that begins comes to an end: no breaker, retry or fallback   *)
(* keeps it for ever.                                                      *)
(***************************************************************************)
TurnsReturn == \A t \in Turns : []<>(at[t] = "ended")
=============================================================================
