--------------------------- MODULE BusinessRequest ---------------------------
(***************************************************************************)
(* The life of business requests through the plugin's hooks (src/plugin.go *)
(* 540-769, src/manager.go 198-285, src/refresh.go 221-296): a request is  *)
(* bound to a credential, carries the active state upstream, brings a new  *)
(* state home, and is completed.  The host calls the hooks of one request  *)
(* in order and those of different requests concurrently; the credential   *)
(* list is read from the host between two locked sections, so accounts and *)
(* the selection may change in between.                                    *)
(*                                                                         *)
(* slots, selected and now are SlotStore's; what these hooks do to them is *)
(* checked to be a behaviour of SlotStore.                                 *)
(***************************************************************************)
EXTENDS TurnSlots, FiniteSets

CONSTANTS
    Keys,               \* (credential, exact model) pairs
    Auths,              \* credentials
    AuthOf,             \* the credential of each key
    AccountOf,          \* the credential each identity is an account of
    Requests,           \* request IDs
    NoKey, NoValue, NoIdentity, NoBinding, NoCandidate, NoEvent,
    Transports,         \* how the host delivers responses
    Modes,              \* the modes the dashboard switches between
    SelectionRequired,  \* option selection_required
    BlockWithoutState,  \* option block_without_state
    RefreshOnErrors,    \* option probe.refresh_on_errors
    OnMissing,          \* option probe.on_missing
    MaxRequests,        \* the cap on tracked requests (4096 in the code)
    WsOverlapsRetry,    \* may a WebSocket event be handled during a retry?
    HostOutcomes,       \* bound: how the host completes requests
    MayQuiesce,         \* bound: is the plugin quiesced?
    MaxAttempts,        \* bound: attempts of one request
    MaxTokens,          \* bound: tokens one attempt is answered with
    TerminalOnce,       \* bound: one terminal event per attempt, not two
    MaxRotations,       \* bound: account changes (1: no account comes back)
    MaxTime             \* bound: the clock stops here

ASSUME RequestAssumption ==
    /\ AuthOf \in [Keys -> Auths] /\ AccountOf \in [Identities -> Auths]
    /\ Transports \subseteq {"stream", "websocket"}
    /\ Modes \subseteq {"force", "observe", "replace_only", "dry_run"}
    /\ {SelectionRequired, BlockWithoutState, RefreshOnErrors, OnMissing,
        WsOverlapsRetry, TerminalOnce, MayQuiesce} \subseteq BOOLEAN
    /\ HostOutcomes \subseteq {"succeeded", "failed", "overload"}
    /\ {MaxRequests, MaxAttempts, MaxTokens, MaxRotations, MaxTime} \subseteq Nat

VARIABLES
    slots, selected, now,
    host,         \* the account each auth file holds
    rotations,    \* how often an account changed
    mode,         \* config.Mode and config.DryRun
    accepting,    \* state.accepting
    requests,     \* state.requests
    candidates,   \* state.candidates
    refresh,      \* keys of state.refreshRequests
    hook,         \* where each request is in the host's sequence of hooks
    ws,           \* a WebSocket event between its check and its capture
    attempt       \* what really happened upstream in the current attempt

storeVars == <<slots, selected, now>>
hostVars == <<host, rotations, mode, accepting>>
vars == <<storeVars, hostVars, requests, candidates, refresh, hook, ws, attempt>>

Binding == [key : Keys \cup {NoKey}, identity : Identities \cup {NoIdentity},
            used : Values \cup {NoValue}, model : Evidence, upstream : BOOLEAN,
            completed : BOOLEAN, failed : BOOLEAN]

\* The zero requestBinding of Go.
EmptyBinding == [key |-> NoKey, identity |-> NoIdentity, used |-> NoValue,
                 model |-> "missing", upstream |-> FALSE,
                 completed |-> FALSE, failed |-> FALSE]

Candidate == [key : Keys, identity : Identities, value : Values]

ASSUME NothingAssumption ==
    /\ NoKey \notin Keys /\ NoIdentity \notin Identities
    /\ {NoValue, NoEvent} \cap Values = {}
    /\ NoBinding \notin Binding /\ NoCandidate \notin Candidate

Outcomes == {"succeeded", "failed", "overload", "none"}

Hook == [step : {"idle", "bind", "upstream", "complete", "done"},
         key : Keys \cup {NoKey}, identity : Identities \cup {NoIdentity},
         outcome : Outcomes, attempts : Nat]

Idle == [step |-> "idle", key |-> NoKey, identity |-> NoIdentity,
         outcome |-> "none", attempts |-> 0]
Done == [Idle EXCEPT !.step = "done"]

\* The truth about the current attempt, which the code only partly sees:
\* the header sent, the account it was sent for, the tokens it was answered
\* with, the models reported, how the stream ended, and whether a saved
\* selection withdrew it.
NoAttempt == [sent |-> NoValue, account |-> NoIdentity, values |-> {}, reports |-> {},
              completed |-> FALSE, failed |-> FALSE, withdrawn |-> FALSE]

Init ==
    /\ slots = [k \in Keys |-> EmptyPair]
    /\ selected = [k \in Keys |-> IF SelectionRequired THEN {} ELSE Identities]
    /\ now = 0
    /\ host \in {h \in [Auths -> Identities] : \A a \in Auths : AccountOf[h[a]] = a}
    /\ rotations = 0
    /\ mode \in Modes
    /\ accepting = TRUE
    /\ requests = [r \in Requests |-> NoBinding]
    /\ candidates = [r \in Requests |-> NoCandidate]
    /\ refresh = {}
    /\ hook = [r \in Requests |-> Idle]
    /\ ws = [r \in Requests |-> NoEvent]
    /\ attempt = [r \in Requests |-> NoAttempt]

----------------------------------------------------------------------------

\* queueRefreshLocked, as the new set of wanted keys (rate-limit backoff and
\* the wake-up belong to the acquisition scheduler).
Demand(wanted, k, reason) ==
    IF /\ accepting /\ k \in Keys
       /\ RefreshOnErrors \/ reason \in {"missing_state", "model_mismatch"}
       /\ selected[k] # {}
    THEN wanted \cup {k} ELSE wanted

\* Mutant: the gate ignores the mode.
BlockingInAnyMode == BlockWithoutState

Blocking == BlockWithoutState /\ mode = "force"

Tracked == {r \in Requests : requests[r] # NoBinding}

Lookup(k) == IF k = NoKey THEN {NoIdentity} ELSE {host[AuthOf[k]], NoIdentity}

\* Mutant: a retry leaves the candidate of the previous attempt.
ForgetBinding(r) ==
    /\ requests' = [requests EXCEPT ![r] = NoBinding]
    /\ UNCHANGED candidates

\* A request's binding and candidate go together.
Forget(r) ==
    /\ requests' = [requests EXCEPT ![r] = NoBinding]
    /\ candidates' = [candidates EXCEPT ![r] = NoCandidate]

\* interceptAfter up to the credential lookup: whatever a previous attempt of
\* the same request left is dropped, in scope or not.
Begin(r) ==
    /\ hook[r].step \in {"idle", "upstream"} /\ hook[r].attempts < MaxAttempts
    /\ ws[r] = NoEvent \/ WsOverlapsRetry
    /\ refresh' = IF requests[r] = NoBinding THEN refresh
                  ELSE Demand(refresh, requests[r].key, "credential_retry")
    /\ Forget(r)
    /\ attempt' = [attempt EXCEPT ![r] = NoAttempt]
    /\ \/ \E k \in Keys : \E i \in Lookup(k) :
            hook' = [hook EXCEPT ![r].step = "bind", ![r].key = k,
                                 ![r].identity = i, ![r].attempts = @ + 1]
       \/ hook' = [hook EXCEPT ![r].step = "upstream", ![r].key = NoKey,
                               ![r].identity = NoIdentity, ![r].attempts = @ + 1]
    /\ UNCHANGED <<storeVars, hostVars, ws>>

\* The attempt leaves for upstream, for whatever account the file holds now.
SendUpstream(r, v) ==
    /\ hook' = [hook EXCEPT ![r].step = "upstream", ![r].identity = NoIdentity]
    /\ attempt' = [attempt EXCEPT ![r].sent = v,
                                  ![r].account = host[AuthOf[hook[r].key]]]

Foreign(s, i) == s # NoState /\ s.identity # i

\* interceptAfter after the lookup, when the request is out of scope.
PassUnbound(r) ==
    /\ hook[r].step = "bind"
    /\ \/ ~accepting \/ selected[hook[r].key] = {}
       \/ ~Blocking /\ hook[r].identity \notin selected[hook[r].key]
    /\ SendUpstream(r, NoValue)
    /\ UNCHANGED <<storeVars, hostVars, requests, candidates, refresh, ws>>

\* blockRequestLocked: the host ends the request instead of sending it.
Block(r) ==
    /\ refresh' = Demand(refresh, hook[r].key, "missing_state")
    /\ Forget(r)
    /\ hook' = [hook EXCEPT ![r] = Done]
    /\ attempt' = [attempt EXCEPT ![r] = NoAttempt]

BlockUnverified(r) ==
    /\ hook[r].step = "bind" /\ accepting /\ selected[hook[r].key] # {}
    /\ Blocking /\ hook[r].identity \notin selected[hook[r].key]
    /\ Block(r)
    /\ UNCHANGED <<storeVars, hostVars, ws>>

\* The binding a verified request has when the header is chosen: fresh, or
\* Go's zero binding when the table of requests is full.
FreshBinding(r) ==
    IF Cardinality(Tracked) < MaxRequests
    THEN [EmptyBinding EXCEPT !.key = hook[r].key, !.identity = hook[r].identity]
    ELSE EmptyBinding

\* Mutant: the key is selected, for whatever account.
VerifiedKey(r) ==
    hook[r].step = "bind" /\ accepting /\ selected[hook[r].key] # {}

Verified(r) ==
    /\ hook[r].step = "bind" /\ accepting
    /\ hook[r].identity \in selected[hook[r].key]

\* Mutant: the standby takes the place of another account's active state.
PairForNext(r) ==
    LET k == hook[r].key
        q == Promote(slots[k], selected[k], now)
    IN  IF Foreign(q.active, hook[r].identity)
        THEN [active |-> q.standby, standby |-> NoState] ELSE q

\* The pair of the request's key after interceptAfter's promotion and its
\* removal of another account's states.
PairFor(r) ==
    LET k == hook[r].key
        q == Promote(slots[k], selected[k], now)
    IN  IF Foreign(q.active, hook[r].identity) THEN EmptyPair ELSE q

\* Mutant: a state is used because it is there.
CachedAtAll(r) == PairFor(r).active # NoState

Cached(r) == Usable(PairFor(r).active, selected[hook[r].key], now)

\* interceptAfter with nothing usable cached: pass, or block and ask for more.
BindWithoutState(r) ==
    /\ Verified(r) /\ ~Cached(r)
    /\ slots' = [slots EXCEPT ![hook[r].key] = PairFor(r)]
    /\ IF Blocking
       THEN Block(r)
       ELSE /\ requests' = IF FreshBinding(r) = EmptyBinding THEN requests
                           ELSE [requests EXCEPT ![r] = FreshBinding(r)]
            /\ refresh' = IF OnMissing
                          THEN Demand(refresh, hook[r].key, "missing_state") ELSE refresh
            /\ SendUpstream(r, NoValue)
            /\ UNCHANGED candidates
    /\ UNCHANGED <<selected, now, hostVars, ws>>

\* interceptAfter that leaves the header alone: observe mode, replace_only
\* with nothing to replace, or a dry run (which stores its binding even when
\* the table is full, as BindWithState does).
BindAndObserve(r) ==
    /\ Verified(r) /\ Cached(r) /\ mode # "force"
    /\ slots' = [slots EXCEPT ![hook[r].key] = PairFor(r)]
    /\ requests' = IF FreshBinding(r) = EmptyBinding /\ mode # "dry_run" THEN requests
                   ELSE [requests EXCEPT ![r] = FreshBinding(r)]
    /\ SendUpstream(r, NoValue)
    /\ UNCHANGED <<selected, now, hostVars, candidates, refresh, ws>>

\* interceptAfter that replaces the header.  The binding is stored back even
\* when the table was full and the binding is the zero one.
BindWithState(r) ==
    /\ Verified(r) /\ Cached(r) /\ mode \in {"force", "replace_only"}
    /\ slots' = [slots EXCEPT ![hook[r].key] = PairFor(r)]
    /\ requests' = [requests EXCEPT ![r] =
                       [FreshBinding(r) EXCEPT !.used = PairFor(r).active.value]]
    /\ SendUpstream(r, PairFor(r).active.value)
    /\ UNCHANGED <<selected, now, hostVars, candidates, refresh, ws>>

----------------------------------------------------------------------------

BoundKey(r) == IF requests[r] = NoBinding THEN NoKey ELSE requests[r].key

StillSelected(b) == b.key # NoKey /\ b.identity \in selected[b.key]

\* captureCandidate: the token of a response header or of WebSocket metadata
\* is attributed to whatever binding the request has at that moment (complete
\* never caches one of the zero binding, which is left out here).
Captured(r, v) ==
    IF /\ requests[r] # NoBinding /\ accepting
       /\ StillSelected(requests[r]) /\ Fresh(v, now)
    THEN [candidates EXCEPT ![r] = [key |-> requests[r].key,
                                    identity |-> requests[r].identity, value |-> v]]
    ELSE candidates

\* Upstream answers the current attempt with a token minted by now.
Answer(r, v) ==
    /\ hook[r].step = "upstream" /\ Issued[v] <= now
    /\ Cardinality(attempt[r].values \cup {v}) <= MaxTokens
    /\ attempt' = [attempt EXCEPT ![r].values = @ \cup {v}]

\* interceptResponse, or interceptStreamChunk's header chunk.
Capture(r, v) ==
    /\ Answer(r, v)
    /\ candidates' = Captured(r, v)
    /\ UNCHANGED <<storeVars, hostVars, requests, refresh, hook, ws>>

\* observeWebSocket reads the binding, compares it with the event's
\* credential and model, and unlocks ...
WsCheck(r, v) ==
    /\ "websocket" \in Transports
    /\ Answer(r, v)
    /\ ws[r] = NoEvent /\ BoundKey(r) # NoKey /\ BoundKey(r) = hook[r].key
    /\ ws' = [ws EXCEPT ![r] = v]
    /\ UNCHANGED <<storeVars, hostVars, requests, candidates, refresh, hook>>

\* ... and captures the token in a second locked section.
WsCapture(r) ==
    /\ ws[r] # NoEvent
    /\ candidates' = Captured(r, ws[r])
    /\ ws' = [ws EXCEPT ![r] = NoEvent]
    /\ UNCHANGED <<storeVars, hostVars, requests, refresh, hook, attempt>>

\* observeModel: a report translated by the host never replaces one read from
\* the upstream event itself.
Observed(b, m, upstream) ==
    IF m = "missing" \/ (b.upstream /\ ~upstream) THEN b
    ELSE [b EXCEPT !.model = m, !.upstream = upstream]

\* updateTerminal
Ended(b, end) ==
    [b EXCEPT !.completed = @ \/ end = "completed", !.failed = @ \/ end = "failed"]

Witness(r, m, end) ==
    /\ hook[r].step = "upstream"
    /\ end = "completed" => ~attempt[r].completed
    /\ end = "failed" => ~attempt[r].failed
    /\ TerminalOnce => ~attempt[r].completed /\ ~attempt[r].failed
    /\ attempt' = [attempt EXCEPT ![r].reports = @ \cup ({m} \ {"missing"}),
                                  ![r].completed = @ \/ end = "completed",
                                  ![r].failed = @ \/ end = "failed"]

\* One event of the response: an early upstream event that names the model
\* (WebSocket only; at most one is modelled), or a terminal event.
Report(r, m, upstream, end) ==
    /\ upstream => "websocket" \in Transports
    /\ end = "open" => upstream /\ m # "missing" /\ attempt[r].reports = {}
    /\ Witness(r, m, end)
    /\ requests' = IF requests[r] = NoBinding THEN requests
                   ELSE [requests EXCEPT ![r] = Ended(Observed(@, m, upstream), end)]
    /\ UNCHANGED <<storeVars, hostVars, candidates, refresh, hook, ws>>

\* observeStreamFailure on a classified error event: the attempt failed, its
\* candidate goes, and the key asks for a refresh.
StreamFailure(r, m) ==
    /\ "stream" \in Transports
    /\ Witness(r, m, "failed")
    /\ IF requests[r] = NoBinding
       THEN UNCHANGED <<requests, candidates, refresh>>
       ELSE /\ requests' = [requests EXCEPT ![r] = Ended(Observed(@, m, FALSE), "failed")]
            /\ candidates' = [candidates EXCEPT ![r] = NoCandidate]
            /\ refresh' = Demand(refresh, requests[r].key, "upstream_error")
    /\ UNCHANGED <<storeVars, hostVars, hook, ws>>

----------------------------------------------------------------------------

\* complete up to the credential lookup.
ReadOwner(r, outcome) ==
    /\ hook[r].step = "upstream"
    /\ ws[r] = NoEvent \/ WsOverlapsRetry
    /\ \E i \in Lookup(BoundKey(r)) :
        hook' = [hook EXCEPT ![r] = [@ EXCEPT !.step = "complete", !.identity = i,
                                              !.outcome = outcome]]
    /\ UNCHANGED <<storeVars, hostVars, requests, candidates, refresh, ws, attempt>>

BindingOf(r) == IF requests[r] = NoBinding THEN EmptyBinding ELSE requests[r]

SameAccount(r) == BoundKey(r) # NoKey /\ hook[r].identity = requests[r].identity

\* Mutant: the host's success is enough, the stream need not complete.
SuccessfulForHost(r) == hook[r].outcome = "succeeded" /\ ~BindingOf(r).failed

Successful(r) ==
    hook[r].outcome = "succeeded" /\ BindingOf(r).completed /\ ~BindingOf(r).failed

Mismatched(r) ==
    SameAccount(r) /\ ModelRejection(requests[r].model) = "model_mismatch"

Acceptable(r) ==
    /\ candidates[r] # NoCandidate
    /\ SameAccount(r) /\ StillSelected(requests[r])
    /\ ModelRejection(requests[r].model) = ""
    /\ accepting /\ Successful(r)

CandidateState(r) ==
    [value |-> candidates[r].value, identity |-> candidates[r].identity,
     model |-> requests[r].model, source |-> "business"]

Release(r) ==
    /\ Forget(r)
    /\ hook' = [hook EXCEPT ![r] = Done]
    /\ attempt' = [attempt EXCEPT ![r] = NoAttempt]

FailureDemand(r, wanted) ==
    IF hook[r].outcome = "overload" THEN Demand(wanted, BoundKey(r), "upstream_error")
    ELSE wanted

\* complete after the lookup: the answer came from another model.
CommitMismatch(r) ==
    /\ hook[r].step = "complete" /\ Mismatched(r)
    /\ LET b == requests[r]
           q == IF b.used = NoValue THEN slots[b.key]
                ELSE Invalidate(slots[b.key], b.used, b.identity, selected[b.key], now)
       IN  /\ slots' = [slots EXCEPT ![b.key] = q]
           /\ refresh' = FailureDemand(r,
                  IF Usable(q.active, selected[b.key], now) THEN refresh
                  ELSE Demand(refresh, b.key, "model_mismatch"))
    /\ Release(r)
    /\ UNCHANGED <<selected, now, hostVars, ws>>

\* complete after the lookup: the candidate is offered to the slots, and the
\* demand for the key is met whatever the slots made of it.
CommitCandidate(r) ==
    /\ hook[r].step = "complete" /\ Acceptable(r)
    /\ LET k == candidates[r].key
       IN  /\ slots' = [slots EXCEPT ![k] = Accept(@, CandidateState(r), selected[k], now)]
           /\ refresh' = refresh \ {k}
    /\ Release(r)
    /\ UNCHANGED <<selected, now, hostVars, ws>>

\* complete after the lookup, with nothing to cache.
CommitNothing(r) ==
    /\ hook[r].step = "complete" /\ ~Mismatched(r) /\ ~Acceptable(r)
    /\ refresh' = FailureDemand(r, refresh)
    /\ Release(r)
    /\ UNCHANGED <<storeVars, hostVars, ws>>

----------------------------------------------------------------------------

\* runProbe caches a state it acquired; Acquisition models how it got there.
ProbeAccept(k, v) ==
    LET i == host[AuthOf[k]]
    IN  /\ accepting /\ i \in selected[k] /\ Issued[v] <= now
        /\ slots' = [slots EXCEPT ![k] = Accept(@, [value |-> v, identity |-> i,
                         model |-> "match", source |-> "probe"], selected[k], now)]
        /\ refresh' = refresh \ {k}
        /\ UNCHANGED <<selected, now, hostVars, requests, candidates, hook, ws, attempt>>

\* What updateSelection read of a credential a while ago.
Readable(a) ==
    {i \in Identities : AccountOf[i] = a /\ (i = host[a] \/ rotations > 0)}

\* updateSelection: the chosen keys admit the account that was read for their
\* credential; demands, bindings and candidates outside the new selection go.
Reselect(chosen, read) ==
    /\ SelectionRequired
    /\ selected' = [k \in Keys |-> IF k \in chosen THEN {read[AuthOf[k]]} ELSE {}]
    /\ refresh' = refresh \cap chosen
    /\ LET dropped == {r \in Tracked :
                          requests[r].key = NoKey
                          \/ requests[r].identity \notin selected'[requests[r].key]}
       IN  /\ requests' = [r \in Requests |->
                              IF r \in dropped THEN NoBinding ELSE requests[r]]
           /\ candidates' = [r \in Requests |->
                              IF r \in dropped THEN NoCandidate ELSE candidates[r]]
           /\ attempt' = [r \in Requests |->
                 IF hook[r].step \in {"upstream", "complete"} /\ hook[r].key # NoKey
                    /\ attempt[r].account \notin selected'[hook[r].key]
                 THEN [attempt[r] EXCEPT !.withdrawn = TRUE] ELSE attempt[r]]
    /\ UNCHANGED <<slots, now, hostVars, hook, ws>>

\* management /mode
SetMode(m) ==
    /\ mode' = m
    /\ UNCHANGED <<storeVars, host, rotations, accepting, requests, candidates,
                   refresh, hook, ws, attempt>>

\* setAccepting(false), as seen by the hooks.
Quiesce ==
    /\ MayQuiesce /\ accepting /\ accepting' = FALSE
    /\ UNCHANGED <<storeVars, host, rotations, mode, requests, candidates,
                   refresh, hook, ws, attempt>>

\* The auth file of a credential now holds another account.
Rotate(a, i) ==
    /\ rotations < MaxRotations /\ AccountOf[i] = a /\ i # host[a]
    /\ host' = [host EXCEPT ![a] = i]
    /\ rotations' = rotations + 1
    /\ UNCHANGED <<storeVars, mode, accepting, requests, candidates, refresh,
                   hook, ws, attempt>>

Tick ==
    /\ now < MaxTime
    /\ now' = now + 1
    /\ UNCHANGED <<slots, selected, hostVars, requests, candidates, refresh,
                   hook, ws, attempt>>

Commit(r) == CommitMismatch(r) \/ CommitCandidate(r) \/ CommitNothing(r)

Intercept(r) ==
    \/ Begin(r) \/ PassUnbound(r) \/ BlockUnverified(r)
    \/ BindWithoutState(r) \/ BindAndObserve(r) \/ BindWithState(r)

Respond(r) ==
    \/ \E v \in Values : Capture(r, v) \/ WsCheck(r, v)
    \/ WsCapture(r)
    \/ \E m \in Evidence, up \in BOOLEAN, end \in {"open", "completed", "failed"} :
            Report(r, m, up, end)
    \/ \E m \in Evidence : StreamFailure(r, m)

Next ==
    \/ \E r \in Requests :
        \/ Intercept(r) \/ Respond(r) \/ Commit(r)
        \/ \E o \in HostOutcomes : ReadOwner(r, o)
    \/ \E k \in Keys, v \in Values : ProbeAccept(k, v)
    \/ \E chosen \in SUBSET Keys, read \in {f \in [Auths -> Identities] :
                                         \A a \in Auths : f[a] \in Readable(a)} :
            Reselect(chosen, read)
    \/ \E m \in Modes : SetMode(m)
    \/ Quiesce
    \/ \E a \in Auths, i \in Identities : Rotate(a, i)
    \/ Tick

Spec == Init /\ [][Next]_vars

----------------------------------------------------------------------------

TypeOK ==
    /\ slots \in [Keys -> Pair]
    /\ selected \in [Keys -> SUBSET Identities]
    /\ now \in Nat
    /\ host \in [Auths -> Identities]
    /\ rotations \in Nat /\ mode \in Modes /\ accepting \in BOOLEAN
    /\ requests \in [Requests -> Binding \cup {NoBinding}]
    /\ candidates \in [Requests -> Candidate \cup {NoCandidate}]
    /\ refresh \subseteq Keys
    /\ hook \in [Requests -> Hook]
    /\ ws \in [Requests -> Values \cup {NoEvent}]

Stored(k) == {slots[k].active, slots[k].standby} \ {NoState}
StoredNext(k) == {slots'[k].active, slots'[k].standby} \ {NoState}

\* "Never retain a previous attempt's candidate": a candidate always belongs
\* to the attempt its request is making now, for the key and account it is
\* bound to.
CandidateOfAttempt ==
    \A r \in Requests : candidates[r] # NoCandidate =>
        /\ requests[r] # NoBinding
        /\ candidates[r].key = requests[r].key
        /\ candidates[r].identity = requests[r].identity
        /\ candidates[r].value \in attempt[r].values

\* No binding and no demand outlives the selection it was made under.
NothingOutsideSelection ==
    /\ \A r \in Tracked : requests[r].key # NoKey => StillSelected(requests[r])
    /\ \A k \in refresh : selected[k] # {}

\* The fail-closed gate ("Observation and dry-run modes do not stop business
\* traffic"): a request in scope is stopped only in force mode with
\* block_without_state; there, none goes upstream without a state; and the
\* other modes that promise to leave requests alone do.
GateHolds ==
    [][\A r \in Requests :
        /\ hook[r].step = "bind" /\ hook'[r].step # "bind"
        /\ accepting /\ selected[hook[r].key] # {}
        => /\ hook'[r].step = "done" => BlockWithoutState /\ mode = "force"
           /\ BlockWithoutState /\ mode = "force"
                  => hook'[r].step = "done" \/ attempt'[r].sent # NoValue
           /\ mode \in {"observe", "dry_run"} => attempt'[r].sent = NoValue]_vars

\* Whether a request of the identity that is sent at this moment may carry s:
\* younger than the lifetime of a token, issued no further ahead of the local
\* clock than is allowed for, and of the model that was asked for.  Stated
\* apart from Usable, by which the hooks decide.
MayCarry(s, identity) ==
    /\ s.identity = identity
    /\ now - Issued[s.value] < TTL
    /\ Issued[s.value] - now <= Skew
    /\ RequireModelMatch => s.model = "match"

\* A request never carries a state that is expired, deselected or captured
\* for another account than the one it was verified for.
HeaderIsSound ==
    [][\A r \in Requests :
        attempt'[r].sent \notin {attempt[r].sent, NoValue} =>
            \E s \in Stored(hook[r].key) :
                /\ s.value = attempt'[r].sent
                /\ MayCarry(s, hook[r].identity)
                /\ s.identity \in selected[hook[r].key]]_vars

\* "Cache only after terminal success, host completion, exact reported/executed
\* model agreement" (README.md:39): a state captured from business traffic
\* enters the slots only from an attempt that was answered with it, for the
\* account it is stored under, that completed without failure and reported the
\* requested model.
AdmissionIsEarned ==
    [][\A k \in Keys : \A s \in StoredNext(k) \ Stored(k) :
        s.source = "business" => \E r \in Requests :
            /\ hook[r].key = k /\ hook[r].outcome = "succeeded"
            /\ attempt[r].account = s.identity
            /\ s.value \in attempt[r].values
            /\ attempt[r].completed /\ ~attempt[r].failed /\ ~attempt[r].withdrawn
            /\ RequireModelMatch => "match" \in attempt[r].reports]_vars

\* A completed request takes away no state but the one it used, unless it
\* brought a usable one that takes its place.
OnlyOwnStateRemoved ==
    [][\A r \in Requests : Commit(r) =>
        \A k \in Keys : \A s \in Stored(k) \ StoredNext(k) :
            \/ k = hook[r].key /\ s.value = attempt[r].sent
            \/ /\ k = hook[r].key
               /\ \E u \in StoredNext(k) :
                    Usable(u, selected[k], now)
                    /\ (Usable(s, selected[k], now) => Better(u, s))]_vars

\* "An explicit business model mismatch invalidates ... the value actually
\* used": when every report of a completed attempt names another model and
\* its account (where the hook looks) and selection are unchanged, the value
\* it carried is gone.
MismatchInvalidatesUsed ==
    [][\A r \in Requests :
        /\ Commit(r) /\ RequireModelMatch
        /\ attempt[r].reports = {"mismatch"} /\ ~attempt[r].withdrawn
        /\ attempt[r].sent # NoValue
        /\ BoundKey(r) # NoKey => hook[r].identity = attempt[r].account
        => ~\E s \in StoredNext(hook[r].key) :
                Matches(s, attempt[r].sent, attempt[r].account)]_vars

\* The hooks do to the slots what SlotStore allows, and nothing else.
Store == INSTANCE SlotStore WITH
    Selections <- {{}, Identities} \cup {{i} : i \in Identities}

StoreSpec == Store!Spec
==============================================================================
