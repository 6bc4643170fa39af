------------------------------ MODULE Inference ------------------------------
(***************************************************************************)
(* The inference service (inference/service.ts): the check of signed       *)
(* requests with its table of nonces, /decompose and /escalate over a      *)
(* model that may fail, the counters they keep, and /chat, which passes    *)
(* the model's stream on chunk by chunk.                                   *)
(***************************************************************************)
EXTENDS Naturals, Integers, FiniteSets, Sequences, SequencesExt

CONSTANTS
    Signed,      \* signed requests; each has a nonce of its own
    InfSkew,     \* INFERENCE_MAX_SIGNATURE_SKEW_MS
    InfTtl,      \* INFERENCE_NONCE_TTL_MS
    MaxTime,     \* bound on time
    MaxCalls,    \* bound on requests
    MaxTokens    \* bound on the length of a model's answer

ASSUME InfAssumption ==
    /\ InfSkew \in Nat /\ InfTtl \in Nat /\ InfTtl > 2 * InfSkew
    /\ MaxTime \in Nat /\ MaxCalls \in Nat /\ MaxTokens \in Nat

VARIABLES
    infNow,    \* Date.now()
    stamp,     \* time stamped on each signed request
    seenNonce, \* seenInferenceNonces: nonces with the time they were seen
    taken,     \* how often each request was accepted (history)
    calls,     \* requests waiting for the model
    metrics,   \* the counters
    said,      \* tokens the model has put into the stream of the chat
    passed     \* tokens passed on to the client

nvars == << infNow, stamp, seenNonce, taken, calls, metrics, said, passed >>
nonceVars == << infNow, stamp, seenNonce, taken >>
chatVars == << said, passed >>

Metrics == {"requests", "invalid", "successes", "fallbacks", "failures"}

InferenceInit ==
    /\ infNow = 0 /\ stamp \in [Signed -> 0 .. MaxTime]
    /\ seenNonce = [n \in {} |-> 0] /\ taken = [n \in Signed |-> 0]
    /\ calls = << >> /\ metrics = [k \in Metrics |-> 0]
    /\ said = 0 /\ passed = << >>

InfTick ==
    /\ infNow < MaxTime /\ infNow' = infNow + 1
    /\ UNCHANGED << stamp, seenNonce, taken, calls, metrics, chatVars >>

-----------------------------------------------------------------------------
InSkew(t) == infNow - t <= InfSkew /\ t - infNow <= InfSkew

(* Faulty variant of Remembered: a nonce is kept for the time a signature  *)
(* is valid.                                                               *)
RememberedForSkew(seen) == infNow - seen < InfSkew

Remembered(seen) == infNow - seen < InfTtl

(* The preHandler accepts a request whose signature is fresh and whose     *)
(* nonce it does not remember; then it drops the nonces that are too old.  *)
Accepts(n) ==
    LET noted == [k \in DOMAIN seenNonce \union {n} |-> IF k = n THEN infNow ELSE seenNonce[k]]
    IN  /\ InSkew(stamp[n])
        /\ ~(n \in DOMAIN seenNonce /\ Remembered(seenNonce[n]))
        /\ seenNonce' = [k \in {j \in DOMAIN noted : infNow - noted[j] <= InfTtl} |-> noted[k]]
        /\ taken' = [taken EXCEPT ![n] = @ + 1]
        /\ UNCHANGED << infNow, stamp, calls, metrics, chatVars >>

-----------------------------------------------------------------------------
Counted(m, k) == [m EXCEPT ![k] = @ + 1]

(* A request for /decompose or /escalate is counted, then its body is      *)
(* parsed; a bad one throws.                                               *)
CallArrives(kind, valid) ==
    /\ metrics["requests"] < MaxCalls
    /\ metrics' = IF valid THEN Counted(metrics, "requests") ELSE Counted(Counted(metrics, "requests"), "invalid")
    /\ calls' = IF valid THEN Append(calls, kind) ELSE calls
    /\ UNCHANGED << nonceVars, chatVars >>

(* The counter a finished call adds to.  Whatever Ollama answers counts as *)
(* success, a status of 500 with a JSON body as well: parseDecomposition   *)
(* makes one subtask of what it cannot read.                               *)
Outcome(m, kind, ok) == Counted(m, IF ok THEN "successes" ELSE IF kind = "decompose" THEN "fallbacks" ELSE "failures")

ModelReturns(i, ok) ==
    /\ i \in DOMAIN calls
    /\ calls' = SubSeq(calls, 1, i - 1) \o SubSeq(calls, i + 1, Len(calls))
    /\ metrics' = Outcome(metrics, calls[i], ok)
    /\ UNCHANGED << nonceVars, chatVars >>

-----------------------------------------------------------------------------
(* /chat: a chunk brings whole tokens and maybe the beginning of one more, *)
(* whose two halves do not parse and are skipped.                          *)
Whole(from, to) == [k \in 1 .. to - from |-> from + k]

ChunkArrives(upTo, cut) ==
    /\ said < upTo /\ upTo <= MaxTokens
    /\ said' = upTo
    /\ passed' = passed \o Whole(said, IF cut THEN upTo - 1 ELSE upTo)
    /\ UNCHANGED << nonceVars, calls, metrics >>

(* GET /metrics and /health.                                               *)
ReadMetrics == UNCHANGED nvars

InferenceNext ==
    \/ ReadMetrics
    \/ InfTick
    \/ \E n \in Signed : Accepts(n)
    \/ \E kind \in {"decompose", "escalate"}, b \in BOOLEAN : CallArrives(kind, b)
    \/ \E i \in 1 .. MaxCalls, ok \in BOOLEAN : ModelReturns(i, ok)
    \/ \E upTo \in 1 .. MaxTokens, cut \in BOOLEAN : ChunkArrives(upTo, cut)

InferenceSpec == InferenceInit /\ [][InferenceNext]_nvars

-----------------------------------------------------------------------------
(* A signed request is accepted once, at whatever times its copies arrive: *)
(* its nonce is remembered for as long as its time stamp is good.          *)
InfReplayRefused == \A n \in Signed : taken[n] <= 1

=============================================================================
