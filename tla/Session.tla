------------------------------ MODULE Session ------------------------------
(***************************************************************************)
(* session.Orchestrator over the engines: RunWithFallback tries the API    *)
(* pool (apiengine.Engine on KeyPool) and falls back to Codex              *)
(* (CodexClient) when all keys are unavailable; BeginInterruptible streams *)
(* an answer (apiengine.StreamingEngine on continuity.Engine), stages it   *)
(* when every key is exhausted, and ContinueInFlight has Codex go on.      *)
(*                                                                         *)
(* Each session has its own orchestrator and continuity engine; the pool   *)
(* and the Codex client are shared.  Text is a sequence of tokens, numbered *)
(* as they are delivered; a token either ends a sentence or does not, and  *)
(* says something new or what an earlier one of the answer said.           *)
(***************************************************************************)
EXTENDS KeyPool, CodexClient

CONSTANTS
    Streamers,    \* sessions that may stream an answer
    MaxPrompts,   \* bound: prompts of all sessions
    MaxTokens     \* bound: tokens streamed for a prompt

ASSUME SessionAssumption ==
    /\ Streamers \subseteq Callers /\ Runners = Callers
    /\ MaxPrompts \in Nat /\ MaxTokens \in Nat

VARIABLES
    sess,     \* session: what it does, its transcript and in-flight response
    stream,   \* continuity.Engine.Execute: its place and what it has of the answer
    dead,     \* keys that the continuity engine of a session found exhausted
    told,     \* history: tokens delivered for a streamed answer
    shown,    \* history: those of them shown before a switch of engines
    dropped   \* history: those that were cut off in the middle of a sentence

sessionVars == <<sess, stream, dead, told, shown, dropped>>
vars == <<poolVars, codexVars, sessionVars>>

Tokens == [n : 1..MaxTokens, stop : BOOLEAN, of : Nat]
\* A token of a text that is on its way, and its number once it arrives after
\* n others; "of" is the first token that said the same, or 0.
Fresh(stop) == [stop |-> stop, of |-> 0]
Original(x) == IF x.of = 0 THEN x.n ELSE x.of
Again(x) == [stop |-> x.stop, of |-> Original(x)]
Numbered(n, text) == [i \in DOMAIN text |-> [n |-> n + i, stop |-> text[i].stop, of |-> text[i].of]]
NoStream == [key |-> 0, visible |-> <<>>, pending |-> <<>>, count |-> 0]
NoFlight == [staged |-> FALSE, confirmed |-> <<>>, unstable |-> <<>>]
NewSession == [phase |-> "idle", users |-> 0, replies |-> 0, answer |-> <<>>, flight |-> NoFlight]

Doing(s, phase) == sess[s].phase = phase
ToPhase(s, phase) == sess' = [sess EXCEPT ![s].phase = phase]

\* commitEngineResult: the answer joins the transcript ("answer" is the last
\* one that was streamed).
Commit(s, text, flight) ==
    sess' = [sess EXCEPT ![s].phase = "idle", ![s].replies = @ + 1, ![s].answer = text,
                         ![s].flight = flight]
CommitWhole(s) == sess' = [sess EXCEPT ![s].phase = "idle", ![s].replies = @ + 1]

\* Prompts of users so far.
Prompts == Cardinality({p \in Callers \X (1..MaxPrompts) : p[2] <= sess[p[1]].users})

-----------------------------------------------------------------------------
\* RunWithFallback.

RunWithFallback(s) ==
    /\ Doing(s, "idle") /\ Prompts < MaxPrompts
    /\ sess' = [sess EXCEPT ![s].phase = "pool", ![s].users = @ + 1]
    /\ Admit(s)
    /\ UNCHANGED <<codexVars, stream, dead, told, shown, dropped>>

\* Run on one engine, the pool or Codex, with no other to fall back to.
Run(s) ==
    /\ Doing(s, "idle") /\ Prompts < MaxPrompts
    /\ \E phase \in {"pool alone", "codex alone"} :
         /\ sess' = [sess EXCEPT ![s].phase = phase, ![s].users = @ + 1]
         /\ IF phase = "pool alone" THEN Admit(s) /\ UNCHANGED codexVars
                                   ELSE BeginRun(s) /\ UNCHANGED poolVars
    /\ UNCHANGED <<stream, dead, told, shown, dropped>>

RunEnds(s) ==
    /\ \/ /\ Doing(s, "pool alone")
          /\ Take(s, request[s].outcome)
          /\ IF request[s].outcome = "ok" THEN CommitWhole(s) ELSE ToPhase(s, "idle")
          /\ UNCHANGED codexVars
       \/ /\ Doing(s, "codex alone") /\ TakeRun(s)
          /\ IF run[s].outcome = "ok" THEN CommitWhole(s) ELSE ToPhase(s, "idle")
          /\ UNCHANGED poolVars
    /\ UNCHANGED <<stream, dead, told, shown, dropped>>

\* The pool's result is the answer, or its error ends the run.
PoolEnds(s) ==
    /\ Doing(s, "pool")
    /\ \/ Take(s, "ok") /\ CommitWhole(s)
       \/ /\ \E o \in {"busy", "ambiguous", "blocked", "error"} : Take(s, o)
          /\ ToPhase(s, "idle")
    /\ UNCHANGED <<codexVars, stream, dead, told, shown, dropped>>

\* shouldFallback approves ErrAllKeysUnavailable alone.
FallBack(s) ==
    /\ Doing(s, "pool") /\ In(s, "done") /\ request[s].outcome = "unavailable"
    /\ ToPhase(s, "codex") /\ BeginRun(s)
    /\ UNCHANGED <<poolVars, stream, dead, told, shown, dropped>>

FallbackEnds(s) ==
    /\ Doing(s, "codex")
    /\ TakeRun(s) /\ Take(s, "unavailable")
    /\ IF run[s].outcome = "ok" THEN CommitWhole(s) ELSE ToPhase(s, "idle")
    /\ UNCHANGED <<stream, dead, told, shown, dropped>>

-----------------------------------------------------------------------------
\* BeginInterruptible on the streaming engine.

BeginInterruptible(s) ==
    /\ s \in Streamers /\ ~sess[s].flight.staged
    /\ Doing(s, "idle") /\ Prompts < MaxPrompts
    /\ sess' = [sess EXCEPT ![s].phase = "stream", ![s].users = @ + 1, ![s].answer = <<>>]
    /\ stream' = [stream EXCEPT ![s] = NoStream]
    /\ told' = [told EXCEPT ![s] = <<>>]
    /\ shown' = [shown EXCEPT ![s] = <<>>]
    /\ dropped' = [dropped EXCEPT ![s] = {}]
    /\ UNCHANGED <<poolVars, codexVars, dead>>

\* lastSentenceBoundary.
Boundary(text) == LET stops == {i \in DOMAIN text : text[i].stop}
                  IN  IF stops = {} THEN 0 ELSE CHOOSE i \in stops : \A j \in stops : j <= i

\* Variant: a switch of keys keeps the unfinished sentence in the buffer.
NextKeyKeeping(s) ==
    LET keys == {k \in Keys : k > stream[s].key /\ k \notin dead[s]}
    IN  /\ Doing(s, "stream")
        /\ stream[s].key \in dead[s] \cup {0} /\ keys # {}
        /\ stream' = [stream EXCEPT ![s].key = CHOOSE k \in keys : \A j \in keys : k <= j]
        /\ dropped' = [dropped EXCEPT ![s] = @ \cup ToSet(stream[s].pending)]
        /\ UNCHANGED <<poolVars, codexVars, sess, dead, told, shown>>

\* Engine.Execute goes on to the next key that is not exhausted, with a new
\* buffer: the unfinished sentence is context for the provider only.
NextKey(s) ==
    LET keys == {k \in Keys : k > stream[s].key /\ k \notin dead[s]}
    IN  /\ Doing(s, "stream")
        /\ stream[s].key \in dead[s] \cup {0} /\ keys # {}
        /\ stream' = [stream EXCEPT ![s].key = CHOOSE k \in keys : \A j \in keys : k <= j,
                                    ![s].pending = <<>>]
        /\ dropped' = [dropped EXCEPT ![s] = @ \cup ToSet(stream[s].pending)]
        /\ UNCHANGED <<poolVars, codexVars, sess, dead, told, shown>>

\* What a delta may say: something new, or once more what has been confirmed, which
\* nothing checks.
Deltas(s) ==
    {<<Fresh(FALSE)>>, <<Fresh(TRUE), Fresh(FALSE)>>} \cup {<<Again(x)>> : x \in ToSet(stream[s].visible)}

\* A text delta arrives: SentenceBuffer.Push commits whole sentences.
Delta(s, delta) ==
    LET n == stream[s].count
        text == stream[s].pending \o Numbered(n, delta)
        cut == Boundary(text)
    IN  /\ Doing(s, "stream") /\ stream[s].key \notin dead[s] \cup {0}
        /\ n + Len(delta) <= MaxTokens
        /\ stream' = [stream EXCEPT ![s].count = n + Len(delta),
                        ![s].visible = @ \o SubSeq(text, 1, cut),
                        ![s].pending = SubSeq(text, cut + 1, Len(text))]
        /\ told' = [told EXCEPT ![s] = @ \o Numbered(n, delta)]
        /\ UNCHANGED <<poolVars, codexVars, sess, dead, shown, dropped>>

\* classifyStreamError: only an exact code of the right scope is evidence.
ClassifyStreamError(code, scope) ==
    CASE code = "credit_exhausted" /\ scope # "provider" -> "key_exhausted"
      [] code = "provider_overloaded" /\ scope # "key"   -> "provider_busy"
      [] OTHER                                           -> "ambiguous"

\* How reading a stream may end: with a terminal event, or with none because it
\* broke off, did not decode, or was refused.
StreamEndings ==
    [event : {"done", "none", "garbled", "refused"}] \cup
    [event : {"error"}, code : {"credit_exhausted", "provider_overloaded", "other"},
     scope : {"", "key", "provider"}]

\* StreamClient.Do, and what Execute makes of its end.
StreamClass(end) ==
    CASE end.event = "done"  -> "none"
      [] end.event = "error" -> ClassifyStreamError(end.code, end.scope)
      [] OTHER               -> "ambiguous"
StreamClasses == {StreamClass(end) : end \in StreamEndings}

\* The stream ends: done flushes the buffer and the answer is complete; only
\* explicit exhaustion of the key lets Execute go on; a busy provider, an
\* abrupt end or any other error ends it, and what was shown is not kept.
StreamDone(s) ==
    /\ Doing(s, "stream") /\ stream[s].key \notin dead[s] \cup {0}
    /\ Commit(s, stream[s].visible \o stream[s].pending, NoFlight)
    /\ UNCHANGED <<poolVars, codexVars, stream, dead, told, shown, dropped>>

StreamExhausted(s) ==
    /\ Doing(s, "stream") /\ stream[s].key \notin dead[s] \cup {0}
    /\ dead' = [dead EXCEPT ![s] = @ \cup {stream[s].key}]
    /\ UNCHANGED <<poolVars, codexVars, sess, stream, told, shown, dropped>>

StreamFails(s) ==
    /\ Doing(s, "stream") /\ stream[s].key \notin dead[s] \cup {0}
    /\ ToPhase(s, "idle")
    /\ UNCHANGED <<poolVars, codexVars, stream, dead, told, shown, dropped>>

StreamEnds(s, class) ==
    \/ class = "none" /\ StreamDone(s)
    \/ class = "key_exhausted" /\ StreamExhausted(s)
    \/ class \in {"provider_busy", "ambiguous"} /\ StreamFails(s)

\* No key is left: the PartialResultError is staged as the in-flight response.
Stage(s) ==
    /\ Doing(s, "stream") /\ stream[s].key \in dead[s] \cup {0}
    /\ {k \in Keys : k > stream[s].key} \subseteq dead[s]
    /\ sess' = [sess EXCEPT ![s].phase = "idle",
                  ![s].flight = [staged |-> TRUE, confirmed |-> stream[s].visible,
                                 unstable |-> stream[s].pending]]
    /\ shown' = [shown EXCEPT ![s] = stream[s].visible]
    /\ dropped' = [dropped EXCEPT ![s] = @ \cup ToSet(stream[s].pending)]
    /\ UNCHANGED <<poolVars, codexVars, stream, dead, told>>

-----------------------------------------------------------------------------
\* ContinueInFlight.

ContinueInFlight(s) ==
    /\ Doing(s, "idle") /\ sess[s].flight.staged
    /\ ToPhase(s, "continue") /\ BeginRun(s)
    /\ UNCHANGED <<poolVars, stream, dead, told, shown, dropped>>

\* A text that begins with all that another says, or says all of it.
Repeats(text, confirmed) ==
    Len(confirmed) <= Len(text)
      /\ \A i \in DOMAIN confirmed : Original(text[i]) = Original(confirmed[i])

\* Variant: the engine is trusted not to repeat the confirmed output.
MergeAsSaid(confirmed, text) == confirmed \o text

\* mergeContinuationOutput: an engine that begins with the confirmed output has
\* this one repetition cut off.
Merge(confirmed, text) ==
    confirmed \o IF Repeats(text, confirmed) THEN SubSeq(text, Len(confirmed) + 1, Len(text))
                                             ELSE text

\* What the run's deltas may say together, its own turn's and those of other turns
\* that it collected: new text, and once, anywhere, a part of the output that the
\* engine was told not to repeat, or all of it.
Continuations(s) ==
    LET confirmed == sess[s].flight.confirmed
        deltas == Len(run[s].text)
        new(k) == [i \in 1..k |-> Fresh(TRUE)]
        again(i, j) == [k \in 1..(j - i) |-> Again(confirmed[i + k])]
    IN  IF deltas = 0 THEN {<<>>}
        ELSE {new(p) \o again(i, j) \o new(q) :
                p \in 0..(deltas - 1), q \in 0..deltas, i \in 0..Len(confirmed), j \in 0..Len(confirmed)}

ContinuationEnds(s) ==
    /\ Doing(s, "continue") /\ TakeRun(s)
    /\ IF run[s].outcome = "ok"
       THEN \E said \in Continuations(s) :
              LET text == Numbered(stream[s].count, said)
              IN  /\ Commit(s, Merge(sess[s].flight.confirmed, text), NoFlight)
                  /\ told' = [told EXCEPT ![s] = @ \o text]
       ELSE ToPhase(s, "idle") /\ UNCHANGED told
    /\ UNCHANGED <<poolVars, stream, dead, shown, dropped>>

Init ==
    /\ PoolInit /\ CodexInit
    /\ sess = [s \in Callers |-> NewSession]
    /\ stream = [s \in Callers |-> NoStream]
    /\ dead = [s \in Callers |-> {}]
    /\ told = [s \in Callers |-> <<>>]
    /\ shown = [s \in Callers |-> <<>>]
    /\ dropped = [s \in Callers |-> {}]

Orchestrate(s) ==
    \/ Run(s) \/ RunEnds(s)
    \/ RunWithFallback(s) \/ PoolEnds(s) \/ FallBack(s) \/ FallbackEnds(s)
    \/ BeginInterruptible(s) \/ NextKey(s) \/ \E class \in StreamClasses : StreamEnds(s, class)
    \/ Stage(s) \/ ContinueInFlight(s) \/ ContinuationEnds(s)
    \/ \E delta \in Deltas(s) : Delta(s, delta)

Next ==
    \/ \E s \in Callers : Orchestrate(s)
    \/ (\E s \in Callers : Execute(s)) /\ UNCHANGED <<codexVars, sessionVars>>
    \/ (\E s \in Callers : EngineRun(s)) /\ UNCHANGED <<poolVars, sessionVars>>
    \/ (Server \/ ReadLoop) /\ UNCHANGED <<poolVars, sessionVars>>

Spec == Init /\ [][Next]_vars

-----------------------------------------------------------------------------
TypeOK ==
    /\ PoolTypeOK /\ CodexTypeOK
    /\ \A s \in Callers :
         /\ sess[s].phase \in {"idle", "pool", "codex", "pool alone", "codex alone", "stream", "continue"}
         /\ sess[s].users \in 0..MaxPrompts /\ sess[s].replies \in 0..MaxPrompts
         /\ stream[s].key \in 0..KeyCount
         /\ ToSet(stream[s].visible \o stream[s].pending) \subseteq Tokens
         /\ dead[s] \subseteq Keys

\* A prompt is carried out by one engine at most: of all the requests that
\* were sent for it, at most one was not refused with evidence about its key,
\* and when Codex has it there is none (RunWithFallback over Pool.Execute,
\* with other sessions changing the keys meanwhile).
CarriedOutOnce ==
    \A s \in Callers :
        Cardinality({i \in DOMAIN request[s].asked : request[s].asked[i].class \notin KeyScoped})
          + (IF Doing(s, "codex") THEN 1 ELSE 0) <= 1

\* What the engine that went on said of the confirmed output at the beginning of
\* its text, when that was all of it.
Repetition(s) ==
    LET text == SubSeq(told[s], stream[s].count + 1, Len(told[s]))
    IN  IF Repeats(text, shown[s]) THEN {text[i] : i \in DOMAIN shown[s]} ELSE {}

\* The answer that joins the transcript is what was delivered for it by all keys
\* and engines, each delivery once and in order: first all that was shown before a
\* switch of engines; nothing of a sentence that was cut off, nor of a whole
\* repetition of what was shown with which the engine that went on began; and
\* everything else.  No prompt gets a second answer.
AnswerKeepsConfirmed ==
    \A s \in Callers :
        LET text == sess[s].answer
        IN  /\ sess[s].replies <= sess[s].users
            /\ text # <<>> =>
                 /\ IsPrefix(shown[s], text)
                 /\ \A i, j \in DOMAIN text : i < j => text[i].n < text[j].n
                 /\ ToSet(text) = ToSet(told[s]) \ (dropped[s] \cup Repetition(s))
=============================================================================
