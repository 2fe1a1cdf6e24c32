------------------------------ MODULE LLMPool ------------------------------
(***************************************************************************)
(* The model-service client of src/llm/llm_client.py.  Every instance has a *)
(* client of its own; the clients of a process share the pool of endpoints, *)
(* its round-robin index and the set of endpoints whose account ran out.    *)
(* One chat is a bounded sequence of requests, rotated over the pool; it    *)
(* ends with an answer or with one of three exceptions, of which only       *)
(* LLMUnavailableError pauses the whole run (PipelineRun).                  *)
(*                                                                         *)
(* Endpoints are numbered in the order of configured_apis().  The service   *)
(* answers anything its accounts allow; requests are told apart by what the *)
(* client tells apart.                                                      *)
(***************************************************************************)
EXTENDS Naturals, FiniteSets

CONSTANTS
    Size,           \* endpoints in the pool
    Clients,
    Limit,          \* max_attempts of a chat
    Patience,       \* what retry_transient of a chat may be: {FALSE}, or {TRUE}
                    \* with BRT_RETRY_TRANSIENT_API for calls without attempt_limit
    Streams,        \* BRT_LLM_STREAM with accounting: stream_options is sent
    Doublings,      \* how often the output budget doubles before its cap
    MaxTroubles     \* bound: bad answers that are not a quota error

ASSUME ClientAssumption ==
    /\ Size \in Nat \ {0}
    /\ Limit \in Nat \ {0}
    /\ Patience \subseteq BOOLEAN
    /\ Streams \in BOOLEAN
    /\ Doublings \in Nat
    /\ MaxTroubles \in Nat

VARIABLES
    \* of the process
    index,          \* _key_indices[provider] modulo the pool's size
    disabled,       \* _disabled_endpoints
    \* of each client
    cur,            \* (base_url, api_key) in use
    unsupported,    \* _usage_option_unsupported_hosts
    pc,
    chat,           \* locals of _chat_uncached
    result,         \* how the last chat ended
    \* of the service
    exhausted,      \* endpoints whose account has no quota
    troubles

process == <<index, disabled>>
client  == <<cur, unsupported, pc, chat, result>>
service == <<exhausted, troubles>>
vars    == <<process, client, service>>

Endpoints == 0 .. Size - 1

Steps   == {"new", "idle", "checking", "sent", "retrying"}
Results == {"none", "answer", "truncated", "failed", "unavailable"}
Errors  == {"none", "quota", "transient", "other", "rejected"}

Least(a, b) == IF a < b THEN a ELSE b

\* Locals at the first request: stream_options only for a host that takes it.
NoChat == [attempt |-> 0, limit |-> Limit, attempted |-> {}, budget |-> 0,
           usage |-> FALSE, patient |-> FALSE, error |-> "none"]

FirstAttempt(c, e, patient) ==
    [NoChat EXCEPT !.usage = Streams /\ e \notin unsupported[c], !.patient = patient]

-----------------------------------------------------------------------------
\* _pick_local_api(): from the index on, the first endpoint that is neither
\* disabled nor excluded, otherwise the first that is not disabled.
Available == Endpoints \ disabled

FromIndex(k) == (index + k) % Size

FirstOf(S) ==
    FromIndex(CHOOSE k \in Endpoints :
                 FromIndex(k) \in S /\ \A j \in 0 .. k - 1 : FromIndex(j) \notin S)

\* Mutant: the endpoints tried before are not skipped.
PickAny(exclude) == FirstOf(Available)

Pick(exclude) ==
    FirstOf(IF Available \ exclude # {} THEN Available \ exclude ELSE Available)

Advance == index' = (index + 1) % Size

Goto(c, step)   == pc' = [pc EXCEPT ![c] = step]
Use(c, e)       == cur' = [cur EXCEPT ![c] = e]
Ends(c, how)    == Goto(c, "idle") /\ result' = [result EXCEPT ![c] = how]

\* A new chat, whose payload is written for an endpoint.
Begins(c, e) ==
    /\ Goto(c, "checking")
    /\ \E patient \in Patience : chat' = [chat EXCEPT ![c] = FirstAttempt(c, e, patient)]
    /\ result' = [result EXCEPT ![c] = "none"]

\* The request that is in flight, noted with the endpoint it went to.
Send(c, e) ==
    /\ Goto(c, "sent")
    /\ Use(c, e)
    /\ chat' = [chat EXCEPT ![c].attempted = @ \cup {e}]

\* A bad answer: what the handlers conclude, before the attempt is counted.
Errs(c, error) ==
    /\ Goto(c, "retrying")
    /\ chat' = [chat EXCEPT ![c].error = error]

Trouble == troubles < MaxTroubles /\ troubles' = troubles + 1

-----------------------------------------------------------------------------
Init ==
    /\ index = 0
    /\ disabled = {}
    /\ cur = [c \in Clients |-> 0]
    /\ unsupported = [c \in Clients |-> {}]
    /\ pc = [c \in Clients |-> "new"]
    /\ chat = [c \in Clients |-> NoChat]
    /\ result = [c \in Clients |-> "none"]
    /\ exhausted = {}
    /\ troubles = 0

\* The constructor takes an endpoint, or raises when none is left.
Connect(c) ==
    /\ pc[c] = "new"
    /\ Advance
    /\ IF Available # {}
       THEN Use(c, Pick({})) /\ Goto(c, "idle") /\ result' = result
       ELSE /\ result' = [result EXCEPT ![c] = "unavailable"]
            /\ UNCHANGED <<cur, pc>>
    /\ UNCHANGED <<disabled, unsupported, chat, service>>

\* A chat begins: ensure_available() for the first time, and the payload.
Ask(c) ==
    /\ pc[c] = "idle"
    /\ \/ cur[c] \notin disabled /\ Begins(c, cur[c]) /\ UNCHANGED <<index, cur>>
       \/ cur[c] \in disabled /\ Available # {} /\ Begins(c, Pick({})) /\ Use(c, Pick({})) /\ Advance
       \/ Available = {} /\ Ends(c, "unavailable") /\ Advance /\ UNCHANGED <<cur, chat>>
    /\ UNCHANGED <<disabled, unsupported, service>>

\* Mutant: a pool without quota is waited for instead of reported.
CheckWaits(c) ==
    /\ pc[c] = "checking"
    /\ Available # {}
    /\ IF cur[c] \notin disabled
       THEN Send(c, cur[c]) /\ index' = index
       ELSE Send(c, Pick({})) /\ Advance
    /\ UNCHANGED <<disabled, unsupported, result, service>>

\* ensure_available() and the request: an endpoint that another client disabled
\* in the meantime is replaced, by any that is left.
Check(c) ==
    /\ pc[c] = "checking"
    /\ \/ cur[c] \notin disabled /\ Send(c, cur[c]) /\ UNCHANGED <<index, result>>
       \/ cur[c] \in disabled /\ Available # {} /\ Send(c, Pick({})) /\ Advance /\ result' = result
       \/ Available = {} /\ Ends(c, "unavailable") /\ Advance /\ UNCHANGED <<cur, chat>>
    /\ UNCHANGED <<disabled, unsupported, service>>

\* A complete answer.
Answer(c) ==
    /\ pc[c] = "sent"
    /\ cur[c] \notin exhausted
    /\ Ends(c, "answer")
    /\ UNCHANGED <<process, cur, unsupported, chat, service>>

\* An answer cut off by the output budget: once more with twice the budget, and
\* an exception of its own at the cap.
Truncate(c) ==
    /\ Trouble
    /\ pc[c] = "sent"
    /\ cur[c] \notin exhausted
    /\ IF chat[c].budget >= Doublings
       THEN Ends(c, "truncated") /\ chat' = chat
       ELSE /\ Goto(c, "retrying")
            /\ chat' = [chat EXCEPT ![c].budget = @ + 1, ![c].error = "transient"]
            /\ result' = result
    /\ UNCHANGED <<process, cur, unsupported, exhausted>>

\* The account has run out: the endpoint is disabled for the whole process.
Exhaust(c) ==
    /\ pc[c] = "sent"
    /\ cur[c] \in exhausted
    /\ disabled' = disabled \cup {cur[c]}
    /\ Errs(c, "quota")
    /\ UNCHANGED <<index, cur, unsupported, result, service>>

\* Mutant: a rate limit is taken for an exhausted account.
FailDisables(c, error) ==
    /\ Trouble
    /\ pc[c] = "sent"
    /\ disabled' = disabled \cup {cur[c]}
    /\ Errs(c, error)
    /\ UNCHANGED <<index, cur, unsupported, result, exhausted>>

\* A rate limit, a server error, a timeout or an empty answer; or an error that
\* is neither transient nor the request's fault (a refused key, a body that
\* cannot be parsed, another model).
Fail(c, error) ==
    /\ Trouble
    /\ pc[c] = "sent"
    /\ Errs(c, error)
    /\ UNCHANGED <<process, cur, unsupported, result, exhausted>>

\* The request itself is rejected: no retry.
Reject(c) ==
    /\ Trouble
    /\ pc[c] = "sent"
    /\ Ends(c, "failed")
    /\ chat' = [chat EXCEPT ![c].error = "rejected"]
    /\ UNCHANGED <<process, cur, unsupported, exhausted>>

\* Mutant: the option is noted as unsupported but stays in the payload.
RejectOptionAgain(c) ==
    /\ Trouble
    /\ pc[c] = "sent"
    /\ chat[c].usage
    /\ unsupported' = [unsupported EXCEPT ![c] = @ \cup {cur[c]}]
    /\ chat' = [chat EXCEPT ![c].attempt = @ + 1,
                            ![c].limit = IF @ < chat[c].attempt + 2 THEN chat[c].attempt + 2 ELSE @]
    /\ Goto(c, "checking")
    /\ UNCHANGED <<process, cur, result, exhausted>>

\* The gateway does not know stream_options: the same endpoint once more,
\* without it, even after the last attempt.
RejectOption(c) ==
    /\ Trouble
    /\ pc[c] = "sent"
    /\ chat[c].usage
    /\ unsupported' = [unsupported EXCEPT ![c] = @ \cup {cur[c]}]
    /\ chat' = [chat EXCEPT ![c].usage = FALSE,
                            ![c].attempt = @ + 1,
                            ![c].limit = IF @ < chat[c].attempt + 2 THEN chat[c].attempt + 2 ELSE @]
    /\ Goto(c, "checking")
    /\ UNCHANGED <<process, cur, result, exhausted>>

\* Another attempt is left, or transient trouble is waited out for ever.
GoesOn(c) ==
    \/ chat[c].attempt + 1 < chat[c].limit
    \/ chat[c].patient /\ chat[c].error = "transient"

\* The attempt is counted, no further than the limit, and the pool is rotated
\* away from the endpoints this chat has tried.
Retry(c) ==
    /\ pc[c] = "retrying"
    /\ GoesOn(c)
    /\ Advance
    /\ IF Available # {}
       THEN Use(c, Pick(chat[c].attempted)) /\ Goto(c, "checking") /\ result' = result
       ELSE Ends(c, "unavailable") /\ cur' = cur
    /\ chat' = [chat EXCEPT ![c].attempt = Least(@ + 1, chat[c].limit)]
    /\ UNCHANGED <<disabled, unsupported, service>>

\* The last error decides between the two exceptions.
GiveUp(c) ==
    /\ pc[c] = "retrying"
    /\ ~GoesOn(c)
    /\ Ends(c, IF chat[c].error = "quota" THEN "unavailable" ELSE "failed")
    /\ UNCHANGED <<process, cur, unsupported, chat, service>>

\* An account runs out.  Replenished accounts count in the next process only.
RunOut ==
    /\ \E e \in Endpoints \ exhausted : exhausted' = exhausted \cup {e}
    /\ UNCHANGED <<process, client, troubles>>

Proceed(c) == Connect(c) \/ Check(c) \/ Retry(c) \/ GiveUp(c)
Reply(c)   == Answer(c) \/ Exhaust(c)
Upset(c)   == \/ Truncate(c) \/ Reject(c) \/ RejectOption(c)
              \/ \E error \in {"transient", "other"} : Fail(c, error)

Next == RunOut \/ \E c \in Clients : Ask(c) \/ Proceed(c) \/ Reply(c) \/ Upset(c)

Spec == Init /\ [][Next]_vars

\* Threads run, and every request is answered or times out.
FairSpec == Spec /\ \A c \in Clients : WF_vars(Proceed(c)) /\ WF_vars(Reply(c))

-----------------------------------------------------------------------------
TypeOK ==
    /\ index \in Endpoints
    /\ disabled \subseteq Endpoints
    /\ cur \in [Clients -> Endpoints]
    /\ unsupported \in [Clients -> SUBSET Endpoints]
    /\ pc \in [Clients -> Steps]
    /\ chat \in [Clients -> [attempt : 0 .. Limit + 2, limit : Limit .. Limit + 2,
                             attempted : SUBSET Endpoints, budget : 0 .. Doublings,
                             usage : BOOLEAN, patient : BOOLEAN, error : Errors]]
    /\ result \in [Clients -> Results]
    /\ exhausted \subseteq Endpoints
    /\ troubles \in 0 .. MaxTroubles

\* "Only an explicit account/quota failure can justify stopping queued
\* instances" (the end of _chat_uncached): no rate limit, gateway or rejected
\* request, of this client or another, pauses the run or disables an endpoint.
PauseJustified ==
    /\ disabled \subseteq exhausted
    /\ \A c \in Clients : result[c] = "unavailable" => disabled # {}

\* A chat that gives up has been everywhere: every endpoint was tried by it or
\* is disabled, whatever the other clients did to the index and the pool.  Only
\* a gateway that made it drop stream_options may have cost it one endpoint.
FailureThorough ==
    Limit >= Size =>
        \A c \in Clients :
            result[c] = "failed" /\ chat[c].error # "rejected" =>
                Cardinality(Endpoints \ (chat[c].attempted \cup disabled))
                    <= (IF Streams /\ ~chat[c].usage THEN 1 ELSE 0)

\* A chat without retry_transient sends at most one request more than its limit,
\* the one that drops stream_options.
RequestsBounded ==
    \A c \in Clients :
        ~chat[c].patient =>
            chat[c].attempt + (IF pc[c] = "sent" THEN 1 ELSE 0) <= Limit + 1

\* Every chat ends once the service stops failing.
ChatEnds == \A c \in Clients : pc[c] = "checking" ~> pc[c] = "idle"
=============================================================================
