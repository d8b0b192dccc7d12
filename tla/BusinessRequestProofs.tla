------------------------ MODULE BusinessRequestProofs ------------------------
(***************************************************************************)
(* Theorems about BusinessRequest, for any keys, credentials, accounts,    *)
(* tokens and number of requests, in any mode and whatever the cap on      *)
(* tracked requests: types, that what a request is bound to was selected,  *)
(* that every header is sound and the gate holds, and that the hooks do to *)
(* the slots what SlotStore allows.                                        *)
(*                                                                         *)
(* That a candidate belongs to the attempt it was captured in, that what   *)
(* is cached was earned and that only the own state is removed also need   *)
(* that the host delivers an attempt's events before it retries; that a    *)
(* mismatch removes what was used needs room in the table for every        *)
(* request.  Each theorem names what it assumes.                           *)
(***************************************************************************)
EXTENDS BusinessRequest, TurnSlotsProofs, FiniteSetTheorems

Attempt == [sent : Values \cup {NoValue}, account : Identities \cup {NoIdentity},
            values : SUBSET Values, reports : SUBSET Evidence,
            completed : BOOLEAN, failed : BOOLEAN, withdrawn : BOOLEAN]

\* TypeOK, what really happened upstream, and that a hook that binds or
\* completes a request knows the key.
Typed ==
    /\ TypeOK
    /\ attempt \in [Requests -> Attempt]
    /\ \A r \in Requests : hook[r].step = "bind" => hook[r].key \in Keys

----------------------------------------------------------------------------
(* What the operators return.                                              *)

\* A demand adds a key at most.
LEMMA DemandTyped ==
    ASSUME NEW wanted \in SUBSET Keys, NEW k, NEW reason
    PROVE  /\ Demand(wanted, k, reason) \in SUBSET Keys
           /\ wanted \subseteq Demand(wanted, k, reason)
           /\ \A j \in Demand(wanted, k, reason) \ wanted : selected[j] # {}
  BY DEF Demand

\* So does what a failed request asks for.
LEMMA FailureDemandTyped ==
    ASSUME NEW wanted \in SUBSET Keys, NEW r
    PROVE  /\ FailureDemand(r, wanted) \in SUBSET Keys
           /\ \A j \in FailureDemand(r, wanted) \ wanted : selected[j] # {}
  BY DemandTyped DEF FailureDemand

\* Nobody's binding is a binding.
LEMMA EmptyBindingTyped == EmptyBinding \in Binding
  BY DEF EmptyBinding, Binding, Evidence

\* What an event adds to a binding leaves it the binding of the same key and
\* account.
LEMMA ReportTyped ==
    ASSUME NEW b \in Binding, NEW m \in Evidence, NEW up \in BOOLEAN, NEW end
    PROVE  LET c == Ended(Observed(b, m, up), end)
           IN  c \in Binding /\ c.key = b.key /\ c.identity = b.identity /\ c.used = b.used
<1> DEFINE o == Observed(b, m, up)
<1>1. o \in Binding /\ o.key = b.key /\ o.identity = b.identity /\ o.used = b.used
    BY DEF Observed, Binding
<1> HIDE DEF o
<1> DEFINE done == o.completed \/ end = "completed"
           lost == o.failed \/ end = "failed"
<1>2. done \in BOOLEAN /\ lost \in BOOLEAN
    OBVIOUS
<1>3. Ended(o, end) = [o EXCEPT !.completed = done, !.failed = lost]
    BY DEF Ended
<1> HIDE DEF done, lost
<1>4. Ended(o, end) \in Binding /\ Ended(o, end).key = o.key
      /\ Ended(o, end).identity = o.identity /\ Ended(o, end).used = o.used
    BY <1>1, <1>2, <1>3 DEF Binding
<1> QED BY <1>1, <1>4 DEF o

\* The binding of a verified request is one of its key and account, or of
\* nobody.
LEMMA FreshBindingTyped ==
    ASSUME Typed, NEW r \in Requests, hook[r].step = "bind", NEW v \in Values \cup {NoValue}
    PROVE  LET b == [FreshBinding(r) EXCEPT !.used = v]
           IN  /\ FreshBinding(r) \in Binding /\ b \in Binding
               /\ b.key = FreshBinding(r).key /\ b.identity = FreshBinding(r).identity
               /\ \/ b.key = NoKey
                  \/ b.key = hook[r].key /\ b.identity = hook[r].identity
<1>1. hook[r].key \in Keys /\ hook[r].identity \in Identities \cup {NoIdentity}
    BY DEF Typed, TypeOK, Hook
<1>2. /\ FreshBinding(r) \in Binding
      /\ \/ FreshBinding(r).key = NoKey
         \/ FreshBinding(r).key = hook[r].key /\ FreshBinding(r).identity = hook[r].identity
    BY <1>1, EmptyBindingTyped DEF FreshBinding, EmptyBinding, Binding
<1> QED BY <1>2 DEF Binding

\* The slots part of interceptAfter.
LEMMA PairForTyped ==
    ASSUME Typed, NEW r \in Requests, hook[r].step = "bind"
    PROVE  PairFor(r) \in Pair
<1>1. slots[hook[r].key] \in Pair
    BY DEF Typed, TypeOK
<1>2. Promote(slots[hook[r].key], selected[hook[r].key], now) \in Pair
    BY <1>1, PromoteTyped
<1>3. EmptyPair \in Pair
    BY DEF EmptyPair, Pair, Slot
<1> QED BY <1>2, <1>3 DEF PairFor

----------------------------------------------------------------------------
(* Types.                                                                  *)

\* What the hooks share: a request without binding and candidate, a request
\* that is over, and one on its way upstream.
LEMMA RestTyped ==
    /\ Done \in Hook /\ Done.step # "bind" /\ Idle \in Hook /\ Idle.step # "bind"
    /\ NoAttempt \in Attempt /\ EmptyPair \in Pair
  BY DEF Done, Idle, Hook, Outcomes, NoAttempt, Attempt, EmptyPair, Pair, Slot

LEMMA ForgetTyped ==
    ASSUME Typed, NEW r \in Requests, Forget(r)
    PROVE  /\ requests' \in [Requests -> Binding \cup {NoBinding}]
           /\ candidates' \in [Requests -> Candidate \cup {NoCandidate}]
  BY DEF Typed, TypeOK, Forget

LEMMA ReleaseTyped ==
    ASSUME Typed, NEW r \in Requests, hook' = [hook EXCEPT ![r] = Done],
           attempt' = [attempt EXCEPT ![r] = NoAttempt]
    PROVE  /\ hook' \in [Requests -> Hook] /\ attempt' \in [Requests -> Attempt]
           /\ \A q \in Requests : hook'[q].step = "bind" => hook'[q].key \in Keys
  BY RestTyped DEF Typed, TypeOK

LEMMA SendTyped ==
    ASSUME Typed, NEW r \in Requests, hook[r].step = "bind", NEW v \in Values \cup {NoValue},
           SendUpstream(r, v)
    PROVE  /\ hook' \in [Requests -> Hook] /\ attempt' \in [Requests -> Attempt]
           /\ \A q \in Requests : hook'[q].step = "bind" => hook'[q].key \in Keys
<1>1. host[AuthOf[hook[r].key]] \in Identities
    BY RequestAssumption DEF Typed, TypeOK
<1>2. [hook[r] EXCEPT !.step = "upstream", !.identity = NoIdentity] \in Hook
      /\ [hook[r] EXCEPT !.step = "upstream", !.identity = NoIdentity].step # "bind"
    BY DEF Typed, TypeOK, Hook
<1>3. [attempt[r] EXCEPT !.sent = v, !.account = host[AuthOf[hook[r].key]]] \in Attempt
    BY <1>1 DEF Typed, Attempt
<1>4. hook' = [hook EXCEPT ![r] = [hook[r] EXCEPT !.step = "upstream", !.identity = NoIdentity]]
    BY DEF SendUpstream, Typed, TypeOK
<1>5. attempt' = [attempt EXCEPT ![r] =
          [attempt[r] EXCEPT !.sent = v, !.account = host[AuthOf[hook[r].key]]]]
    BY DEF SendUpstream, Typed, TypeOK
<1> QED BY <1>2, <1>3, <1>4, <1>5 DEF Typed, TypeOK

\* interceptAfter keeps the types.
LEMMA InterceptTyped ==
    ASSUME Typed, NEW r \in Requests, Intercept(r)
    PROVE  Typed'
<1>1. CASE Begin(r)
    <2>1. refresh' \in SUBSET Keys
        <3>1. refresh' = refresh \/ refresh' = Demand(refresh, requests[r].key, "credential_retry")
            BY <1>1 DEF Begin
        <3>2. refresh \in SUBSET Keys
            BY DEF Typed, TypeOK
        <3> QED BY <3>1, <3>2, DemandTyped
    <2>2. requests' \in [Requests -> Binding \cup {NoBinding}]
          /\ candidates' \in [Requests -> Candidate \cup {NoCandidate}]
        BY <1>1, ForgetTyped DEF Begin
    <2>3. attempt' \in [Requests -> Attempt]
        BY <1>1, RestTyped DEF Begin, Typed
    <2>4. PICK h : /\ hook' = [hook EXCEPT ![r] = h] /\ h \in Hook
                   /\ h.step = "bind" => h.key \in Keys
        <3>1. ASSUME NEW k \in Keys, NEW i \in Lookup(k),
                     hook' = [hook EXCEPT ![r].step = "bind", ![r].key = k,
                                          ![r].identity = i, ![r].attempts = @ + 1]
              PROVE  \E h : /\ hook' = [hook EXCEPT ![r] = h] /\ h \in Hook
                            /\ h.step = "bind" => h.key \in Keys
            <4> DEFINE h == [hook[r] EXCEPT !.step = "bind", !.key = k,
                                            !.identity = i, !.attempts = @ + 1]
            <4>1. i \in Identities \cup {NoIdentity}
                BY RequestAssumption DEF Lookup, Typed, TypeOK
            <4>2. hook[r] \in Hook /\ hook[r].attempts + 1 \in Nat
                BY DEF Typed, TypeOK, Hook
            <4>3. h \in Hook /\ h.key = k
                BY <4>1, <4>2 DEF Hook
            <4>4. hook' = [hook EXCEPT ![r] = h]
                BY <3>1 DEF Typed, TypeOK
            <4> HIDE DEF h
            <4> QED BY <4>3, <4>4
        <3>2. ASSUME hook' = [hook EXCEPT ![r].step = "upstream", ![r].key = NoKey,
                                          ![r].identity = NoIdentity, ![r].attempts = @ + 1]
              PROVE  \E h : /\ hook' = [hook EXCEPT ![r] = h] /\ h \in Hook
                            /\ h.step = "bind" => h.key \in Keys
            <4> DEFINE h == [hook[r] EXCEPT !.step = "upstream", !.key = NoKey,
                                            !.identity = NoIdentity, !.attempts = @ + 1]
            <4>2. hook[r] \in Hook /\ hook[r].attempts + 1 \in Nat
                BY DEF Typed, TypeOK, Hook
            <4>3. h \in Hook /\ h.step = "upstream"
                BY <4>2 DEF Hook
            <4>4. hook' = [hook EXCEPT ![r] = h]
                BY <3>2 DEF Typed, TypeOK
            <4> HIDE DEF h
            <4> QED BY <4>3, <4>4
        <3> QED BY <1>1, <3>1, <3>2 DEF Begin
    <2>5. hook' \in [Requests -> Hook]
          /\ \A q \in Requests : hook'[q].step = "bind" => hook'[q].key \in Keys
        BY <2>4 DEF Typed, TypeOK
    <2>6. UNCHANGED <<storeVars, hostVars, ws>>
        BY <1>1 DEF Begin
    <2> QED BY <2>1, <2>2, <2>3, <2>5, <2>6 DEF Typed, TypeOK, storeVars, hostVars
<1>2. CASE PassUnbound(r)
    <2>1. /\ hook' \in [Requests -> Hook] /\ attempt' \in [Requests -> Attempt]
          /\ \A q \in Requests : hook'[q].step = "bind" => hook'[q].key \in Keys
        BY <1>2, SendTyped DEF PassUnbound
    <2> QED BY <1>2, <2>1 DEF PassUnbound, Typed, TypeOK, storeVars, hostVars
<1>3. ASSUME Block(r) PROVE /\ refresh' \in SUBSET Keys
                            /\ requests' \in [Requests -> Binding \cup {NoBinding}]
                            /\ candidates' \in [Requests -> Candidate \cup {NoCandidate}]
                            /\ hook' \in [Requests -> Hook] /\ attempt' \in [Requests -> Attempt]
                            /\ \A q \in Requests :
                                  hook'[q].step = "bind" => hook'[q].key \in Keys
    <2>1. refresh' \in SUBSET Keys
        BY <1>3, DemandTyped DEF Block, Typed, TypeOK
    <2> QED BY <1>3, <2>1, ForgetTyped, ReleaseTyped DEF Block
<1>4. CASE BlockUnverified(r)
    BY <1>3, <1>4 DEF BlockUnverified, Typed, TypeOK, storeVars, hostVars
<1>5. ASSUME hook[r].step = "bind", slots' = [slots EXCEPT ![hook[r].key] = PairFor(r)]
      PROVE  slots' \in [Keys -> Pair]
    BY <1>5, PairForTyped DEF Typed, TypeOK
<1>6. CASE BindWithoutState(r)
    <2>1. hook[r].step = "bind" /\ slots' \in [Keys -> Pair]
        BY <1>5, <1>6 DEF BindWithoutState, Verified
    <2>2. CASE Blocking
        BY <1>3, <1>6, <2>1, <2>2 DEF BindWithoutState, Typed, TypeOK, hostVars
    <2>3. CASE ~Blocking
        <3>1. refresh' \in SUBSET Keys
            BY <1>6, <2>3, DemandTyped DEF BindWithoutState, Typed, TypeOK
        <3>2. FreshBinding(r) \in Binding
            BY <2>1, FreshBindingTyped
        <3>3. requests' \in [Requests -> Binding \cup {NoBinding}]
            BY <1>6, <2>3, <3>2 DEF BindWithoutState, Typed, TypeOK
        <3>4. /\ hook' \in [Requests -> Hook] /\ attempt' \in [Requests -> Attempt]
              /\ \A q \in Requests : hook'[q].step = "bind" => hook'[q].key \in Keys
            BY <1>6, <2>1, <2>3, SendTyped DEF BindWithoutState
        <3> QED BY <1>6, <2>1, <2>3, <3>1, <3>3, <3>4 DEF BindWithoutState, Typed, TypeOK,
               hostVars
    <2> QED BY <2>2, <2>3
<1>7. CASE BindAndObserve(r)
    <2>1. hook[r].step = "bind" /\ slots' \in [Keys -> Pair]
        BY <1>5, <1>7 DEF BindAndObserve, Verified
    <2>2. FreshBinding(r) \in Binding
        BY <2>1, FreshBindingTyped
    <2>3. requests' \in [Requests -> Binding \cup {NoBinding}]
        BY <1>7, <2>2 DEF BindAndObserve, Typed, TypeOK
    <2>4. /\ hook' \in [Requests -> Hook] /\ attempt' \in [Requests -> Attempt]
          /\ \A q \in Requests : hook'[q].step = "bind" => hook'[q].key \in Keys
        BY <1>7, <2>1, SendTyped DEF BindAndObserve
    <2> QED BY <1>7, <2>1, <2>3, <2>4 DEF BindAndObserve, Typed, TypeOK, hostVars
<1>8. CASE BindWithState(r)
    <2>1. hook[r].step = "bind" /\ slots' \in [Keys -> Pair]
        BY <1>5, <1>8 DEF BindWithState, Verified
    <2>2. PairFor(r).active.value \in Values
        BY <1>8, <2>1, PairForTyped DEF BindWithState, Cached, Usable, Valid, Pair, Slot, State
    <2>3. [FreshBinding(r) EXCEPT !.used = PairFor(r).active.value] \in Binding
        BY <2>1, <2>2, FreshBindingTyped
    <2>4. requests' \in [Requests -> Binding \cup {NoBinding}]
        BY <1>8, <2>3 DEF BindWithState, Typed, TypeOK
    <2>5. /\ hook' \in [Requests -> Hook] /\ attempt' \in [Requests -> Attempt]
          /\ \A q \in Requests : hook'[q].step = "bind" => hook'[q].key \in Keys
        BY <1>8, <2>1, <2>2, SendTyped DEF BindWithState
    <2> QED BY <1>8, <2>1, <2>4, <2>5 DEF BindWithState, Typed, TypeOK, hostVars
<1> QED BY <1>1, <1>2, <1>4, <1>6, <1>7, <1>8 DEF Intercept

\* What upstream does to an attempt.
LEMMA AnswerTyped ==
    ASSUME Typed, NEW r \in Requests, NEW v \in Values, Answer(r, v)
    PROVE  attempt' \in [Requests -> Attempt]
<1>1. [attempt[r] EXCEPT !.values = attempt[r].values \cup {v}] \in Attempt
    BY DEF Typed, Attempt
<1>2. attempt' = [attempt EXCEPT ![r] = [attempt[r] EXCEPT !.values = attempt[r].values \cup {v}]]
    BY DEF Answer, Typed
<1> QED BY <1>1, <1>2 DEF Typed

LEMMA WitnessTyped ==
    ASSUME Typed, NEW r \in Requests, NEW m \in Evidence, NEW end, Witness(r, m, end)
    PROVE  attempt' \in [Requests -> Attempt]
<1> DEFINE reports == attempt[r].reports \cup ({m} \ {"missing"})
           done == attempt[r].completed \/ end = "completed"
           lost == attempt[r].failed \/ end = "failed"
<1>1. attempt' = [attempt EXCEPT ![r] =
          [attempt[r] EXCEPT !.reports = reports, !.completed = done, !.failed = lost]]
    BY DEF Witness, Typed
<1>2. reports \in SUBSET Evidence /\ done \in BOOLEAN /\ lost \in BOOLEAN
    BY DEF Typed, Attempt
<1> HIDE DEF reports, done, lost
<1>3. [attempt[r] EXCEPT !.reports = reports, !.completed = done, !.failed = lost] \in Attempt
    BY <1>2 DEF Typed, Attempt
<1> QED BY <1>1, <1>3 DEF Typed

\* A token that is captured is a candidate of its binding.
LEMMA CapturedTyped ==
    ASSUME Typed, NEW r \in Requests, NEW v \in Values
    PROVE  Captured(r, v) \in [Requests -> Candidate \cup {NoCandidate}]
<1>1. CASE requests[r] # NoBinding /\ accepting /\ StillSelected(requests[r]) /\ Fresh(v, now)
    <2>1. requests[r] \in Binding /\ requests[r].key \in Keys
        BY <1>1 DEF Typed, TypeOK, StillSelected, Binding
    <2>2. requests[r].identity \in Identities
        BY <1>1, <2>1 DEF Typed, TypeOK, StillSelected
    <2>3. [key |-> requests[r].key, identity |-> requests[r].identity, value |-> v] \in Candidate
        BY <2>1, <2>2 DEF Candidate
    <2> QED BY <1>1, <2>3 DEF Captured, Typed, TypeOK
<1>2. CASE ~(requests[r] # NoBinding /\ accepting /\ StillSelected(requests[r]) /\ Fresh(v, now))
    BY <1>2 DEF Captured, Typed, TypeOK
<1> QED BY <1>1, <1>2

\* The hooks of a response keep the types.
LEMMA RespondTyped ==
    ASSUME Typed, NEW r \in Requests, Respond(r)
    PROVE  Typed'
<1>1. ASSUME NEW v \in Values, Capture(r, v) PROVE Typed'
    BY <1>1, AnswerTyped, CapturedTyped DEF Capture, Typed, TypeOK, storeVars, hostVars
<1>2. ASSUME NEW v \in Values, WsCheck(r, v) PROVE Typed'
    <2>1. ws' \in [Requests -> Values \cup {NoEvent}]
        BY <1>2 DEF WsCheck, Typed, TypeOK
    <2> QED BY <1>2, <2>1, AnswerTyped DEF WsCheck, Typed, TypeOK, storeVars, hostVars
<1>3. CASE WsCapture(r)
    <2>1. ws[r] \in Values /\ ws' \in [Requests -> Values \cup {NoEvent}]
        BY <1>3 DEF WsCapture, Typed, TypeOK
    <2> QED BY <1>3, <2>1, CapturedTyped DEF WsCapture, Typed, TypeOK, storeVars, hostVars
<1>4. ASSUME NEW m \in Evidence, NEW up \in BOOLEAN, NEW end, Report(r, m, up, end)
      PROVE  Typed'
    <2> DEFINE b == Ended(Observed(requests[r], m, up), end)
    <2>1. requests[r] # NoBinding => b \in Binding
        BY ReportTyped DEF Typed, TypeOK
    <2>2. requests' = requests \/ (requests[r] # NoBinding /\ requests' = [requests EXCEPT ![r] = b])
        BY <1>4 DEF Report
    <2> HIDE DEF b
    <2>3. requests' \in [Requests -> Binding \cup {NoBinding}]
        BY <2>1, <2>2 DEF Typed, TypeOK
    <2>4. attempt' \in [Requests -> Attempt]
        BY <1>4, WitnessTyped DEF Report
    <2> QED BY <1>4, <2>3, <2>4 DEF Report, Typed, TypeOK, storeVars, hostVars
<1>5. ASSUME NEW m \in Evidence, StreamFailure(r, m) PROVE Typed'
    <2> DEFINE b == Ended(Observed(requests[r], m, FALSE), "failed")
               wanted == Demand(refresh, requests[r].key, "upstream_error")
    <2>0. (requests[r] # NoBinding => b \in Binding) /\ wanted \in SUBSET Keys
        <3>1. requests[r] \in Binding \cup {NoBinding} /\ refresh \in SUBSET Keys
              /\ FALSE \in BOOLEAN
            BY DEF Typed, TypeOK
        <3>2. wanted \in SUBSET Keys
            BY <3>1, DemandTyped
        <3>3. requests[r] # NoBinding => b \in Binding
            BY <3>1, ReportTyped
        <3> QED BY <3>2, <3>3
    <2>4. /\ requests' = requests \/ (requests[r] # NoBinding /\ requests' = [requests EXCEPT ![r] = b])
          /\ refresh' = refresh \/ refresh' = wanted
        BY <1>5 DEF StreamFailure
    <2> HIDE DEF b, wanted
    <2>1. requests' \in [Requests -> Binding \cup {NoBinding}]
        BY <2>0, <2>4 DEF Typed, TypeOK
    <2>2. refresh' \in SUBSET Keys
        BY <2>0, <2>4 DEF Typed, TypeOK
    <2>3. candidates' \in [Requests -> Candidate \cup {NoCandidate}]
        BY <1>5 DEF StreamFailure, Typed, TypeOK
    <2> QED BY <1>5, <2>1, <2>2, <2>3, WitnessTyped DEF StreamFailure, Typed, TypeOK, storeVars,
           hostVars
<1> QED BY <1>1, <1>2, <1>3, <1>4, <1>5 DEF Respond

\* What complete offers is a state, of the account the candidate is of.
LEMMA CandidateTyped ==
    ASSUME Typed, NEW r \in Requests, Acceptable(r)
    PROVE  /\ candidates[r] \in Candidate /\ candidates[r].key \in Keys
           /\ CandidateState(r) \in State
<1>1. candidates[r] \in Candidate
    BY DEF Acceptable, Typed, TypeOK
<1>2. requests[r] \in Binding
    BY DEF Acceptable, SameAccount, BoundKey, Typed, TypeOK
<1>3. requests[r].model \in Evidence
    BY <1>2 DEF Binding
<1> QED BY <1>1, <1>3 DEF Candidate, CandidateState, State, Sources

\* complete keeps the types.
LEMMA CommitTyped ==
    ASSUME Typed, NEW r \in Requests, Commit(r)
    PROVE  Typed'
<1>1. ASSUME Release(r)
      PROVE  /\ requests' \in [Requests -> Binding \cup {NoBinding}]
             /\ candidates' \in [Requests -> Candidate \cup {NoCandidate}]
             /\ hook' \in [Requests -> Hook] /\ attempt' \in [Requests -> Attempt]
             /\ \A q \in Requests : hook'[q].step = "bind" => hook'[q].key \in Keys
    BY <1>1, ForgetTyped, ReleaseTyped DEF Release
<1>2. CASE CommitMismatch(r)
    <2> DEFINE b == requests[r]
               q == IF b.used = NoValue THEN slots[b.key]
                    ELSE Invalidate(slots[b.key], b.used, b.identity, selected[b.key], now)
               wanted == IF Usable(q.active, selected[b.key], now) THEN refresh
                         ELSE Demand(refresh, b.key, "model_mismatch")
    <2>1. slots' = [slots EXCEPT ![b.key] = q] /\ refresh' = FailureDemand(r, wanted)
        BY <1>2 DEF CommitMismatch
    <2>2. b \in Binding /\ b.key \in Keys
        BY <1>2 DEF CommitMismatch, Mismatched, SameAccount, BoundKey, Typed, TypeOK, Binding
    <2>3. slots[b.key] \in Pair /\ refresh \in SUBSET Keys
        BY <2>2 DEF Typed, TypeOK
    <2>4. q \in Pair
        BY <2>3, InvalidateTyped
    <2>5. wanted \in SUBSET Keys
        BY <2>3, DemandTyped
    <2> HIDE DEF q, wanted
    <2>6. refresh' \in SUBSET Keys
        BY <2>1, <2>5, FailureDemandTyped
    <2>7. slots' \in [Keys -> Pair]
        BY <2>1, <2>4 DEF Typed, TypeOK
    <2> QED BY <1>1, <1>2, <2>6, <2>7 DEF CommitMismatch, Typed, TypeOK, hostVars
<1>3. CASE CommitCandidate(r)
    <2> DEFINE k == candidates[r].key
    <2>1. k \in Keys /\ CandidateState(r) \in State
        BY <1>3, CandidateTyped DEF CommitCandidate
    <2>2. Accept(slots[k], CandidateState(r), selected[k], now) \in Pair
        BY <2>1, AcceptTyped DEF Typed, TypeOK
    <2>3. slots' \in [Keys -> Pair] /\ refresh' \in SUBSET Keys
        BY <1>3, <2>2 DEF CommitCandidate, Typed, TypeOK
    <2> QED BY <1>1, <1>3, <2>3 DEF CommitCandidate, Typed, TypeOK, hostVars
<1>4. CASE CommitNothing(r)
    <2>1. refresh' \in SUBSET Keys
        BY <1>4, FailureDemandTyped DEF CommitNothing, Typed, TypeOK
    <2> QED BY <1>1, <1>4, <2>1 DEF CommitNothing, Typed, TypeOK, hostVars, storeVars
<1> QED BY <1>2, <1>3, <1>4 DEF Commit

\* A request on its way to complete.
LEMMA ReadOwnerTyped ==
    ASSUME Typed, NEW r \in Requests, NEW o \in HostOutcomes, ReadOwner(r, o)
    PROVE  Typed'
<1>1. PICK i \in Lookup(BoundKey(r)) :
          hook' = [hook EXCEPT ![r] = [hook[r] EXCEPT !.step = "complete", !.identity = i,
                                                      !.outcome = o]]
    BY DEF ReadOwner
<1>2. i \in Identities \cup {NoIdentity}
    <2>1. BoundKey(r) \in Keys \cup {NoKey}
        BY DEF BoundKey, Typed, TypeOK, Binding
    <2> QED BY <2>1, RequestAssumption DEF Lookup, Typed, TypeOK
<1>3. o \in Outcomes
    BY RequestAssumption DEF Outcomes
<1>4. [hook[r] EXCEPT !.step = "complete", !.identity = i, !.outcome = o] \in Hook
      /\ [hook[r] EXCEPT !.step = "complete", !.identity = i, !.outcome = o].step # "bind"
    BY <1>2, <1>3 DEF Typed, TypeOK, Hook
<1>5. hook' \in [Requests -> Hook]
      /\ \A q \in Requests : hook'[q].step = "bind" => hook'[q].key \in Keys
    BY <1>1, <1>4 DEF Typed, TypeOK
<1> QED BY <1>5 DEF ReadOwner, Typed, TypeOK, storeVars, hostVars

\* A state that an acquisition brings home is a state.
LEMMA ProbeStateTyped ==
    ASSUME Typed, NEW k \in Keys, NEW v \in Values
    PROVE  [value |-> v, identity |-> host[AuthOf[k]], model |-> "match", source |-> "probe"]
           \in State
<1>1. host[AuthOf[k]] \in Identities
    BY RequestAssumption DEF Typed, TypeOK
<1> QED BY <1>1 DEF State, Evidence, Sources

\* Every step keeps the types.
LEMMA TypedStep == Typed /\ [Next]_vars => Typed'
<1> SUFFICES ASSUME Typed, [Next]_vars PROVE Typed'
    OBVIOUS
<1>1. ASSUME NEW k \in Keys, NEW v \in Values, ProbeAccept(k, v) PROVE Typed'
    <2> DEFINE s == [value |-> v, identity |-> host[AuthOf[k]], model |-> "match",
                     source |-> "probe"]
    <2>1. slots' = [slots EXCEPT ![k] = Accept(slots[k], s, selected[k], now)]
          /\ refresh' = refresh \ {k}
        BY <1>1 DEF ProbeAccept
    <2>2. s \in State
        BY ProbeStateTyped
    <2> HIDE DEF s
    <2>3. Accept(slots[k], s, selected[k], now) \in Pair
        BY <2>2, AcceptTyped DEF Typed, TypeOK
    <2>4. slots' \in [Keys -> Pair] /\ refresh' \in SUBSET Keys
        BY <2>1, <2>3 DEF Typed, TypeOK
    <2> QED BY <1>1, <2>4 DEF ProbeAccept, Typed, TypeOK, hostVars
<1>2. ASSUME NEW chosen \in SUBSET Keys, NEW seen \in [Auths -> Identities],
             Reselect(chosen, seen)
      PROVE  Typed'
    <2>1. selected' \in [Keys -> SUBSET Identities]
        BY <1>2, RequestAssumption DEF Reselect
    <2>2. \E dropped \in SUBSET Requests :
             /\ requests' = [r \in Requests |-> IF r \in dropped THEN NoBinding ELSE requests[r]]
             /\ candidates' = [r \in Requests |->
                                  IF r \in dropped THEN NoCandidate ELSE candidates[r]]
        BY <1>2 DEF Reselect, Tracked
    <2>3. requests' \in [Requests -> Binding \cup {NoBinding}]
          /\ candidates' \in [Requests -> Candidate \cup {NoCandidate}]
        BY <2>2 DEF Typed, TypeOK
    <2>4. ASSUME NEW r \in Requests
          PROVE  [attempt[r] EXCEPT !.withdrawn = TRUE] \in Attempt
        BY DEF Typed, Attempt
    <2>5. attempt' \in [Requests -> Attempt]
        BY <1>2, <2>4 DEF Reselect, Typed
    <2> QED BY <1>2, <2>1, <2>3, <2>5 DEF Reselect, Typed, TypeOK, hostVars
<1>3. CASE (\E m \in Modes : SetMode(m)) \/ Quiesce \/ Tick \/ UNCHANGED vars
    <2>1. ASSUME NEW m \in Modes, SetMode(m) PROVE Typed'
        BY <2>1 DEF SetMode, Typed, TypeOK, storeVars
    <2>2. CASE Quiesce
        BY <2>2 DEF Quiesce, Typed, TypeOK, storeVars
    <2>3. CASE Tick
        BY <2>3 DEF Tick, Typed, TypeOK, hostVars
    <2>4. CASE UNCHANGED vars
        BY <2>4 DEF Typed, TypeOK, vars, storeVars, hostVars
    <2> QED BY <1>3, <2>1, <2>2, <2>3, <2>4
<1>4. ASSUME NEW a \in Auths, NEW i \in Identities, Rotate(a, i) PROVE Typed'
    BY <1>4 DEF Rotate, Typed, TypeOK, storeVars
<1> QED
    BY <1>1, <1>2, <1>3, <1>4, InterceptTyped, RespondTyped, CommitTyped, ReadOwnerTyped DEF Next

\* The types hold at first.
LEMMA InitTyped == Init => Typed
<1> SUFFICES ASSUME Init PROVE Typed
    OBVIOUS
<1>1. selected \in [Keys -> SUBSET Identities] /\ slots \in [Keys -> Pair]
    BY RestTyped DEF Init
<1>2. /\ hook \in [Requests -> Hook] /\ attempt \in [Requests -> Attempt]
      /\ \A r \in Requests : hook[r].step # "bind"
    BY RestTyped DEF Init
<1> QED BY <1>1, <1>2 DEF Init, Typed, TypeOK

\* Type correctness of the request path.
THEOREM TypeCorrect == Spec => []TypeOK
<1>1. Typed => TypeOK
    BY DEF Typed
<1> QED BY InitTyped, TypedStep, <1>1, PTL DEF Spec

----------------------------------------------------------------------------
(* Nothing outside the selection.                                          *)

\* What a change of the bindings and demands alone has to keep.
LEMMA ScopeKept ==
    ASSUME Typed, NothingOutsideSelection, UNCHANGED selected,
           \A q \in Requests : requests'[q] \in
               {requests[q], NoBinding} \cup {b \in Binding : b.key # NoKey => StillSelected(b)},
           \A k \in refresh' \ refresh : selected[k] # {}
    PROVE  NothingOutsideSelection'
  BY DEF NothingOutsideSelection, Tracked, StillSelected

\* Forgetting a binding keeps it.
LEMMA ForgetScoped ==
    ASSUME Typed, NEW r \in Requests, Forget(r)
    PROVE  \A q \in Requests : requests'[q] \in {requests[q], NoBinding}
  BY DEF Forget, Typed, TypeOK

\* interceptAfter binds a request to a selected account only.
LEMMA InterceptScoped ==
    ASSUME Typed, NothingOutsideSelection, NEW r \in Requests, Intercept(r)
    PROVE  NothingOutsideSelection'
<1> DEFINE Within == {b \in Binding : b.key # NoKey => StillSelected(b)}
<1>0. refresh \in SUBSET Keys
    BY DEF Typed, TypeOK
<1>1. CASE Begin(r)
    <2>1. refresh' = refresh \/ refresh' = Demand(refresh, requests[r].key, "credential_retry")
        BY <1>1 DEF Begin
    <2>2. \A k \in refresh' \ refresh : selected[k] # {}
        BY <1>0, <2>1, DemandTyped
    <2>3. UNCHANGED selected /\ Forget(r)
        BY <1>1 DEF Begin, storeVars
    <2> QED BY <2>2, <2>3, ForgetScoped, ScopeKept
<1>2. CASE PassUnbound(r)
    BY <1>2 DEF PassUnbound, NothingOutsideSelection, Tracked, StillSelected, storeVars
<1>3. ASSUME Block(r), UNCHANGED selected PROVE NothingOutsideSelection'
    <2>1. \A k \in refresh' \ refresh : selected[k] # {}
        BY <1>0, <1>3, DemandTyped DEF Block
    <2> QED BY <1>3, <2>1, ForgetScoped, ScopeKept DEF Block
<1>4. CASE BlockUnverified(r)
    BY <1>3, <1>4 DEF BlockUnverified, storeVars
<1>5. ASSUME Verified(r), NEW v \in Values \cup {NoValue}
      PROVE  FreshBinding(r) \in Within /\ [FreshBinding(r) EXCEPT !.used = v] \in Within
    <2>1. hook[r].step = "bind" /\ hook[r].identity \in selected[hook[r].key]
        BY <1>5 DEF Verified
    <2>2. LET b == [FreshBinding(r) EXCEPT !.used = v]
          IN  /\ FreshBinding(r) \in Binding /\ b \in Binding
              /\ b.key = FreshBinding(r).key /\ b.identity = FreshBinding(r).identity
              /\ \/ b.key = NoKey
                 \/ b.key = hook[r].key /\ b.identity = hook[r].identity
        BY <2>1, FreshBindingTyped
    <2> QED BY <2>1, <2>2 DEF StillSelected
<1> HIDE DEF Within
<1>6. CASE BindWithoutState(r)
    <2>1. CASE Blocking
        BY <1>3, <1>6, <2>1 DEF BindWithoutState
    <2>2. CASE ~Blocking
        <3>1. refresh' = refresh \/ refresh' = Demand(refresh, hook[r].key, "missing_state")
            BY <1>6, <2>2 DEF BindWithoutState
        <3>2. \A k \in refresh' \ refresh : selected[k] # {}
            BY <1>0, <3>1, DemandTyped
        <3>3. \A q \in Requests : requests'[q] \in {requests[q], NoBinding} \cup Within
            BY <1>5, <1>6, <2>2 DEF BindWithoutState, Typed, TypeOK
        <3> QED BY <1>6, <3>2, <3>3, ScopeKept DEF BindWithoutState, Within
    <2> QED BY <2>1, <2>2
<1>7. CASE BindAndObserve(r)
    <2>1. \A q \in Requests : requests'[q] \in {requests[q], NoBinding} \cup Within
        BY <1>5, <1>7 DEF BindAndObserve, Typed, TypeOK
    <2> QED BY <1>7, <2>1, ScopeKept DEF BindAndObserve, Within
<1>8. CASE BindWithState(r)
    <2>1. PairFor(r).active.value \in Values
        BY <1>8, PairForTyped
        DEF BindWithState, Verified, Cached, Usable, Valid, Pair, Slot, State
    <2>2. \A q \in Requests : requests'[q] \in {requests[q], NoBinding} \cup Within
        BY <1>5, <1>8, <2>1 DEF BindWithState, Typed, TypeOK
    <2> QED BY <1>8, <2>2, ScopeKept DEF BindWithState, Within
<1> QED BY <1>1, <1>2, <1>4, <1>6, <1>7, <1>8 DEF Intercept

\* An event leaves a request bound to what it was bound to.
LEMMA RespondScoped ==
    ASSUME Typed, NothingOutsideSelection, NEW r \in Requests, Respond(r)
    PROVE  NothingOutsideSelection'
<1> DEFINE Within == {b \in Binding : b.key # NoKey => StillSelected(b)}
<1>0. refresh \in SUBSET Keys
    BY DEF Typed, TypeOK
<1>1. ASSUME NEW m \in Evidence, NEW up \in BOOLEAN, NEW end, requests[r] # NoBinding
      PROVE  Ended(Observed(requests[r], m, up), end) \in Within
    <2>1. requests[r] \in Binding /\ (requests[r].key # NoKey => StillSelected(requests[r]))
        BY <1>1 DEF Typed, TypeOK, NothingOutsideSelection, Tracked
    <2>2. LET c == Ended(Observed(requests[r], m, up), end)
          IN  c \in Binding /\ c.key = requests[r].key /\ c.identity = requests[r].identity
        BY <2>1, ReportTyped
    <2> QED BY <2>1, <2>2 DEF StillSelected
<1> HIDE DEF Within
<1>2. ASSUME NEW v \in Values, Capture(r, v) \/ WsCheck(r, v) PROVE NothingOutsideSelection'
    BY <1>2 DEF Capture, WsCheck, NothingOutsideSelection, Tracked, StillSelected, storeVars
<1>3. CASE WsCapture(r)
    BY <1>3 DEF WsCapture, NothingOutsideSelection, Tracked, StillSelected, storeVars
<1>4. ASSUME NEW m \in Evidence, NEW up \in BOOLEAN, NEW end, Report(r, m, up, end)
      PROVE  NothingOutsideSelection'
    <2> DEFINE b == Ended(Observed(requests[r], m, up), end)
    <2>1. requests' = requests \/ (requests[r] # NoBinding /\ requests' = [requests EXCEPT ![r] = b])
        BY <1>4 DEF Report
    <2>2. requests[r] # NoBinding => b \in Within
        BY <1>1
    <2> HIDE DEF b
    <2>3. \A q \in Requests : requests'[q] \in {requests[q], NoBinding} \cup Within
        BY <2>1, <2>2 DEF Typed, TypeOK
    <2> QED BY <1>4, <2>3, ScopeKept DEF Report, Within, storeVars
<1>5. ASSUME NEW m \in Evidence, StreamFailure(r, m) PROVE NothingOutsideSelection'
    <2> DEFINE b == Ended(Observed(requests[r], m, FALSE), "failed")
               wanted == Demand(refresh, requests[r].key, "upstream_error")
    <2>1. /\ requests' = requests \/ (requests[r] # NoBinding /\ requests' = [requests EXCEPT ![r] = b])
          /\ refresh' = refresh \/ refresh' = wanted
        BY <1>5 DEF StreamFailure
    <2>2. requests[r] # NoBinding => b \in Within
        BY <1>1
    <2>3. \A k \in wanted \ refresh : selected[k] # {}
        BY <1>0, DemandTyped
    <2> HIDE DEF b, wanted
    <2>4. \A q \in Requests : requests'[q] \in {requests[q], NoBinding} \cup Within
        BY <2>1, <2>2 DEF Typed, TypeOK
    <2>5. \A k \in refresh' \ refresh : selected[k] # {}
        BY <2>1, <2>3
    <2> QED BY <1>5, <2>4, <2>5, ScopeKept DEF StreamFailure, Within, storeVars
<1> QED BY <1>2, <1>3, <1>4, <1>5 DEF Respond

\* complete forgets the binding, and asks for selected keys only.
LEMMA CommitScoped ==
    ASSUME Typed, NothingOutsideSelection, NEW r \in Requests, Commit(r)
    PROVE  NothingOutsideSelection'
<1>0. refresh \in SUBSET Keys
    BY DEF Typed, TypeOK
<1>1. \A q \in Requests : requests'[q] \in {requests[q], NoBinding}
    BY ForgetScoped DEF Commit, CommitMismatch, CommitCandidate, CommitNothing, Release
<1>2. UNCHANGED selected
    BY DEF Commit, CommitMismatch, CommitCandidate, CommitNothing, storeVars
<1>3. CASE CommitMismatch(r)
    <2> DEFINE b == requests[r]
               q == IF b.used = NoValue THEN slots[b.key]
                    ELSE Invalidate(slots[b.key], b.used, b.identity, selected[b.key], now)
               wanted == IF Usable(q.active, selected[b.key], now) THEN refresh
                         ELSE Demand(refresh, b.key, "model_mismatch")
    <2>1. refresh' = FailureDemand(r, wanted)
        BY <1>3 DEF CommitMismatch
    <2>2. wanted \in SUBSET Keys /\ \A k \in wanted \ refresh : selected[k] # {}
        BY <1>0, DemandTyped
    <2> HIDE DEF wanted
    <2>3. \A k \in refresh' \ wanted : selected[k] # {}
        BY <2>1, <2>2, FailureDemandTyped
    <2> QED BY <1>1, <1>2, <2>2, <2>3, ScopeKept
<1>4. CASE CommitCandidate(r)
    <2>1. refresh' \subseteq refresh
        BY <1>4 DEF CommitCandidate
    <2> QED BY <1>1, <1>2, <2>1, ScopeKept
<1>5. CASE CommitNothing(r)
    <2>1. \A k \in refresh' \ refresh : selected[k] # {}
        BY <1>0, <1>5, FailureDemandTyped DEF CommitNothing
    <2> QED BY <1>1, <1>2, <2>1, ScopeKept
<1> QED BY <1>3, <1>4, <1>5 DEF Commit

\* Every step keeps bindings and demands within the selection.
LEMMA ScopedStep == Typed /\ NothingOutsideSelection /\ [Next]_vars => NothingOutsideSelection'
<1> SUFFICES ASSUME Typed, NothingOutsideSelection, [Next]_vars PROVE NothingOutsideSelection'
    OBVIOUS
<1>1. ASSUME NEW r \in Requests, NEW o \in HostOutcomes, ReadOwner(r, o)
      PROVE  NothingOutsideSelection'
    BY <1>1 DEF ReadOwner, NothingOutsideSelection, Tracked, StillSelected, storeVars
<1>2. ASSUME NEW k \in Keys, NEW v \in Values, ProbeAccept(k, v)
      PROVE  NothingOutsideSelection'
    BY <1>2 DEF ProbeAccept, NothingOutsideSelection, Tracked, StillSelected
<1>3. ASSUME NEW chosen \in SUBSET Keys, NEW seen \in [Auths -> Identities],
             Reselect(chosen, seen)
      PROVE  NothingOutsideSelection'
    <2>1. /\ selected' = [k \in Keys |-> IF k \in chosen THEN {seen[AuthOf[k]]} ELSE {}]
          /\ refresh' = refresh \cap chosen
          /\ requests' = [r \in Requests |->
                 IF r \in {q \in Tracked : \/ requests[q].key = NoKey
                                           \/ requests[q].identity \notin selected'[requests[q].key]}
                 THEN NoBinding ELSE requests[r]]
        BY <1>3 DEF Reselect
    <2>2. \A k \in refresh' : selected'[k] # {}
        BY <2>1 DEF Typed, TypeOK
    <2>3. \A r \in Requests : requests'[r] # NoBinding =>
              /\ requests'[r] = requests[r] /\ requests[r].key # NoKey
              /\ requests[r].identity \in selected'[requests[r].key]
        BY <2>1 DEF Tracked
    <2> QED BY <2>2, <2>3 DEF NothingOutsideSelection, Tracked, StillSelected
<1>4. CASE (\E m \in Modes : SetMode(m)) \/ Quiesce \/ Tick \/ UNCHANGED vars
    BY <1>4 DEF SetMode, Quiesce, Tick, NothingOutsideSelection, Tracked, StillSelected, vars,
       storeVars
<1>5. ASSUME NEW a \in Auths, NEW i \in Identities, Rotate(a, i) PROVE NothingOutsideSelection'
    BY <1>5 DEF Rotate, NothingOutsideSelection, Tracked, StillSelected, storeVars
<1> QED
    BY <1>1, <1>2, <1>3, <1>4, <1>5, InterceptScoped, RespondScoped, CommitScoped DEF Next

\* In every reachable state bindings and demands are within the selection.
LEMMA Scope == Spec => [](Typed /\ NothingOutsideSelection)
<1>1. Init => NothingOutsideSelection
    BY DEF Init, NothingOutsideSelection, Tracked
<1> QED BY <1>1, InitTyped, TypedStep, ScopedStep, PTL DEF Spec

\* No binding and no demand outlives the selection it was made under,
\* whenever a selection is saved and however long before it was read.
THEOREM SelectionRules == Spec => []NothingOutsideSelection
<1> QED BY Scope, PTL

----------------------------------------------------------------------------
(* A candidate belongs to its attempt.                                     *)

\* The inductive form of CandidateOfAttempt: there is a candidate only
\* between an attempt's answer and its completion, and a WebSocket event that
\* was checked is still one of the attempt under way.
HeldFor(r) ==
    /\ candidates[r] # NoCandidate =>
          /\ hook[r].step \in {"upstream", "complete"}
          /\ requests[r] # NoBinding
          /\ candidates[r].key = requests[r].key
          /\ candidates[r].identity = requests[r].identity
          /\ candidates[r].value \in attempt[r].values
    /\ ws[r] # NoEvent => hook[r].step = "upstream" /\ ws[r] \in attempt[r].values

Held == ~WsOverlapsRetry /\ \A r \in Requests : HeldFor(r)

\* A step of r's hooks leaves the other requests alone.
Only(r) ==
    \A q \in Requests \ {r} :
        /\ requests'[q] = requests[q] /\ candidates'[q] = candidates[q]
        /\ hook'[q] = hook[q] /\ ws'[q] = ws[q] /\ attempt'[q] = attempt[q]

LEMMA OnlyOne ==
    ASSUME Typed, Held, NEW r \in Requests, Only(r), HeldFor(r)'
    PROVE  Held'
  BY DEF Held, HeldFor, Only

LEMMA ForgetOnly ==
    ASSUME Typed, NEW r \in Requests, Forget(r)
    PROVE  /\ candidates'[r] = NoCandidate
           /\ \A q \in Requests \ {r} :
                 requests'[q] = requests[q] /\ candidates'[q] = candidates[q]
  BY DEF Typed, TypeOK, Forget

LEMMA DoneOnly ==
    ASSUME Typed, NEW r \in Requests, Forget(r), hook' = [hook EXCEPT ![r] = Done],
           attempt' = [attempt EXCEPT ![r] = NoAttempt], UNCHANGED ws
    PROVE  Only(r) /\ candidates'[r] = NoCandidate
  BY ForgetOnly DEF Typed, TypeOK, Only

LEMMA SendOnly ==
    ASSUME Typed, NEW r \in Requests, NEW v, SendUpstream(r, v)
    PROVE  /\ hook'[r].step = "upstream" /\ attempt'[r].values = attempt[r].values
           /\ \A q \in Requests \ {r} : hook'[q] = hook[q] /\ attempt'[q] = attempt[q]
  BY DEF SendUpstream, Typed, TypeOK, Hook, Attempt

\* A request that is sent upstream has no candidate yet.
LEMMA SendHeld ==
    ASSUME Typed, Held, NEW r \in Requests, hook[r].step = "bind", NEW v, SendUpstream(r, v),
           UNCHANGED <<candidates, ws>>,
           \A q \in Requests \ {r} : requests'[q] = requests[q]
    PROVE  Held'
<1>1. candidates[r] = NoCandidate /\ ws[r] = NoEvent
    BY DEF Held, HeldFor
<1>2. HeldFor(r)'
    BY <1>1 DEF HeldFor
<1>3. Only(r)
    BY SendOnly DEF Only
<1> QED BY <1>2, <1>3, OnlyOne

\* A request that is over has none either.
LEMMA DoneHeld ==
    ASSUME Typed, Held, NEW r \in Requests, hook[r].step \in {"bind", "complete"}, Forget(r),
           hook' = [hook EXCEPT ![r] = Done],
           attempt' = [attempt EXCEPT ![r] = NoAttempt], UNCHANGED ws
    PROVE  Held'
<1>1. ws[r] = NoEvent
    BY DEF Held, HeldFor
<1>2. HeldFor(r)'
    BY <1>1, DoneOnly DEF HeldFor
<1> QED BY <1>2, DoneOnly, OnlyOne

\* interceptAfter drops the candidate of an earlier attempt.
LEMMA InterceptHeld ==
    ASSUME Typed, Held, NEW r \in Requests, Intercept(r)
    PROVE  Held'
<1>1. CASE Begin(r)
    <2>1. ws[r] = NoEvent /\ UNCHANGED ws
        BY <1>1 DEF Begin, Held
    <2>2. candidates'[r] = NoCandidate
        BY <1>1, ForgetOnly DEF Begin
    <2>3. HeldFor(r)'
        BY <2>1, <2>2 DEF HeldFor
    <2>4. \A q \in Requests \ {r} : hook'[q] = hook[q] /\ attempt'[q] = attempt[q]
        BY <1>1 DEF Begin, Typed, TypeOK
    <2>5. Only(r)
        BY <1>1, <2>1, <2>4, ForgetOnly DEF Begin, Only
    <2> QED BY <2>3, <2>5, OnlyOne
<1>2. CASE PassUnbound(r)
    BY <1>2, SendHeld DEF PassUnbound
<1>3. CASE BlockUnverified(r)
    BY <1>3, DoneHeld DEF BlockUnverified, Block
<1>4. CASE BindWithoutState(r)
    <2>1. CASE Blocking
        BY <1>4, <2>1, DoneHeld DEF BindWithoutState, Verified, Block
    <2>2. CASE ~Blocking
        BY <1>4, <2>2, SendHeld DEF BindWithoutState, Verified, Typed, TypeOK
    <2> QED BY <2>1, <2>2
<1>5. CASE BindAndObserve(r)
    BY <1>5, SendHeld DEF BindAndObserve, Verified, Typed, TypeOK
<1>6. CASE BindWithState(r)
    BY <1>6, SendHeld DEF BindWithState, Verified, Typed, TypeOK
<1> QED BY <1>1, <1>2, <1>3, <1>4, <1>5, <1>6 DEF Intercept

\* What is captured was answered in the attempt under way.
LEMMA CapturedHeld ==
    ASSUME Typed, Held, NEW r \in Requests, NEW v \in Values, candidates' = Captured(r, v),
           hook[r].step = "upstream", UNCHANGED <<requests, hook>>,
           v \in attempt'[r].values, attempt[r].values \subseteq attempt'[r].values,
           ws'[r] \in {ws[r], NoEvent}, \A q \in Requests \ {r} : ws'[q] = ws[q],
           \A q \in Requests \ {r} : attempt'[q] = attempt[q]
    PROVE  Held'
<1>1. \A q \in Requests \ {r} : candidates'[q] = candidates[q]
    BY DEF Captured, Typed, TypeOK
<1>2. \/ candidates'[r] = candidates[r]
      \/ /\ requests[r] # NoBinding
         /\ candidates'[r] = [key |-> requests[r].key, identity |-> requests[r].identity,
                              value |-> v]
    BY DEF Captured, Typed, TypeOK
<1>3. HeldFor(r)'
    BY <1>2 DEF Held, HeldFor
<1>4. Only(r)
    BY <1>1 DEF Only
<1> QED BY <1>3, <1>4, OnlyOne

\* An answer adds its token to those of the attempt.
LEMMA AnswerAdds ==
    ASSUME Typed, NEW r \in Requests, NEW v \in Values, Answer(r, v)
    PROVE  /\ hook[r].step = "upstream" /\ attempt'[r].values = attempt[r].values \cup {v}
           /\ \A q \in Requests \ {r} : attempt'[q] = attempt[q]
  BY DEF Answer, Typed, Attempt

\* An event changes neither the tokens of an attempt nor its binding's key.
LEMMA EventHeld ==
    ASSUME Typed, Held, NEW r \in Requests, NEW m \in Evidence, NEW up \in BOOLEAN, NEW end,
           Witness(r, m, end), UNCHANGED <<hook, ws>>,
           \/ requests' = requests
           \/ /\ requests[r] # NoBinding
              /\ requests' = [requests EXCEPT ![r] = Ended(Observed(@, m, up), end)],
           candidates' \in {candidates, [candidates EXCEPT ![r] = NoCandidate]}
    PROVE  Held'
<1> DEFINE b == Ended(Observed(requests[r], m, up), end)
<1>1. requests[r] # NoBinding =>
          b # NoBinding /\ b.key = requests[r].key /\ b.identity = requests[r].identity
    <2>1. requests[r] # NoBinding => requests[r] \in Binding
        BY DEF Typed, TypeOK
    <2> QED BY <2>1, ReportTyped, NothingAssumption
<1>2. requests' = requests
      \/ (requests[r] # NoBinding /\ requests' = [requests EXCEPT ![r] = b])
    OBVIOUS
<1> HIDE DEF b
<1>3. /\ attempt'[r].values = attempt[r].values
      /\ \A q \in Requests \ {r} : attempt'[q] = attempt[q]
    BY DEF Witness, Typed, Attempt
<1>4. \A q \in Requests \ {r} : requests'[q] = requests[q] /\ candidates'[q] = candidates[q]
    BY <1>2 DEF Typed, TypeOK
<1>5. /\ candidates'[r] \in {candidates[r], NoCandidate}
      /\ requests'[r] = requests[r] \/ (requests[r] # NoBinding /\ requests'[r] = b)
    BY <1>2 DEF Typed, TypeOK
<1>6. HeldFor(r)'
    BY <1>1, <1>3, <1>5 DEF Held, HeldFor
<1>7. Only(r)
    BY <1>3, <1>4 DEF Only
<1> QED BY <1>6, <1>7, OnlyOne

\* The hooks of a response.
LEMMA RespondHeld ==
    ASSUME Typed, Held, NEW r \in Requests, Respond(r)
    PROVE  Held'
<1>1. ASSUME NEW v \in Values, Capture(r, v) PROVE Held'
    BY <1>1, AnswerAdds, CapturedHeld DEF Capture
<1>2. ASSUME NEW v \in Values, WsCheck(r, v) PROVE Held'
    <2>1. /\ hook[r].step = "upstream" /\ attempt'[r].values = attempt[r].values \cup {v}
          /\ \A q \in Requests \ {r} : attempt'[q] = attempt[q]
        BY <1>2, AnswerAdds DEF WsCheck
    <2>2. ws'[r] = v /\ (\A q \in Requests \ {r} : ws'[q] = ws[q])
          /\ UNCHANGED <<requests, candidates, hook>>
        BY <1>2 DEF WsCheck, Typed, TypeOK
    <2>3. HeldFor(r)'
        BY <2>1, <2>2 DEF Held, HeldFor
    <2> QED BY <2>1, <2>2, <2>3, OnlyOne DEF Only
<1>3. CASE WsCapture(r)
    <2>1. ws[r] \in Values /\ ws[r] \in attempt[r].values /\ hook[r].step = "upstream"
        BY <1>3 DEF WsCapture, Held, HeldFor, Typed, TypeOK
    <2>2. ws'[r] = NoEvent /\ \A q \in Requests \ {r} : ws'[q] = ws[q]
        BY <1>3 DEF WsCapture, Typed, TypeOK
    <2> QED BY <1>3, <2>1, <2>2, CapturedHeld DEF WsCapture
<1>4. ASSUME NEW m \in Evidence, NEW up \in BOOLEAN, NEW end, Report(r, m, up, end)
      PROVE  Held'
    BY <1>4, EventHeld DEF Report
<1>5. ASSUME NEW m \in Evidence, StreamFailure(r, m) PROVE Held'
    <2>1. FALSE \in BOOLEAN
        OBVIOUS
    <2> QED BY <1>5, <2>1, EventHeld DEF StreamFailure
<1> QED BY <1>1, <1>2, <1>3, <1>4, <1>5 DEF Respond

\* Every step keeps candidates with their attempts.
LEMMA HeldStep == Typed /\ Held /\ [Next]_vars => Held'
<1> SUFFICES ASSUME Typed, Held, [Next]_vars PROVE Held'
    OBVIOUS
<1>1. ASSUME NEW r \in Requests, NEW o \in HostOutcomes, ReadOwner(r, o) PROVE Held'
    <2>1. hook[r].step = "upstream" /\ ws[r] = NoEvent
          /\ UNCHANGED <<requests, candidates, ws, attempt>>
        BY <1>1 DEF ReadOwner, Held
    <2>2. hook'[r].step = "complete" /\ \A q \in Requests \ {r} : hook'[q] = hook[q]
        BY <1>1 DEF ReadOwner, Typed, TypeOK, Hook
    <2>3. HeldFor(r)'
        BY <2>1, <2>2 DEF Held, HeldFor
    <2> QED BY <2>1, <2>2, <2>3, OnlyOne DEF Only
<1>2. ASSUME NEW r \in Requests, Commit(r) PROVE Held'
    BY <1>2, DoneHeld DEF Commit, CommitMismatch, CommitCandidate, CommitNothing, Release
<1>3. ASSUME UNCHANGED <<requests, candidates, hook, ws, attempt>> PROVE Held'
    BY <1>3 DEF Held, HeldFor
<1>4. ASSUME NEW chosen \in SUBSET Keys, NEW seen \in [Auths -> Identities],
             Reselect(chosen, seen)
      PROVE  Held'
    <2>1. UNCHANGED <<hook, ws>>
        BY <1>4 DEF Reselect
    <2>2. \A r \in Requests : attempt'[r].values = attempt[r].values
        BY <1>4 DEF Reselect, Typed, Attempt
    <2>3. \A r \in Requests :
              \/ candidates'[r] = NoCandidate
              \/ candidates'[r] = candidates[r] /\ requests'[r] = requests[r]
        BY <1>4 DEF Reselect
    <2> QED BY <2>1, <2>2, <2>3 DEF Held, HeldFor
<1>5. CASE \/ \E k \in Keys, v \in Values : ProbeAccept(k, v)
           \/ \E m \in Modes : SetMode(m)
           \/ Quiesce
           \/ \E a \in Auths, i \in Identities : Rotate(a, i)
           \/ Tick \/ UNCHANGED vars
    BY <1>3, <1>5 DEF ProbeAccept, SetMode, Quiesce, Rotate, Tick, vars
<1> QED BY <1>1, <1>2, <1>4, <1>5, InterceptHeld, RespondHeld DEF Next

\* A candidate is of the attempt its request is making now, for the key and
\* account it is bound to, if the host delivers an attempt's WebSocket events
\* before it retries.
THEOREM CandidatesStayWithAttempts == ~WsOverlapsRetry /\ Spec => []CandidateOfAttempt
<1>1. ~WsOverlapsRetry /\ Init => Held
    BY DEF Init, Held, HeldFor
<1>2. Held => CandidateOfAttempt
    BY DEF Held, HeldFor, CandidateOfAttempt
<1> QED BY <1>1, <1>2, InitTyped, TypedStep, HeldStep, PTL DEF Spec
----------------------------------------------------------------------------
(* The hooks implement the store.                                          *)

\* SlotStore's operators are those of TurnSlots.
LEMMA StoreUsable ==
    ASSUME NEW s, NEW sel, NEW t
    PROVE  Store!Usable(s, sel, t) <=> Usable(s, sel, t)
  BY DEF Usable, Valid, Fresh, ModelRejection,
     Store!Usable, Store!Valid, Store!Fresh, Store!ModelRejection

LEMMA StoreOrder ==
    ASSUME NEW s, NEW u
    PROVE  (Store!Better(s, u) <=> Better(s, u)) /\ (Store!Upgrades(s, u) <=> Upgrades(s, u))
  BY DEF Better, Upgrades, IsShort, IsLong,
     Store!Better, Store!Upgrades, Store!IsShort, Store!IsLong

LEMMA StorePromote ==
    ASSUME NEW p, NEW sel, NEW t
    PROVE  Store!Promote(p, sel, t) = Promote(p, sel, t)
<1>1. Store!Promotable(p, sel, t) <=> Promotable(p, sel, t)
    BY StoreUsable, StoreOrder DEF Promotable, Store!Promotable
<1> QED BY <1>1, StoreUsable DEF Promote, Store!Promote

LEMMA StoreAccept ==
    ASSUME NEW p, NEW c, NEW sel, NEW t
    PROVE  Store!Accept(p, c, sel, t) = Accept(p, c, sel, t)
<1> DEFINE q == Promote(p, sel, t)
           a == Placement(q, c, sel, t)
<1>1. Store!Holds(q, c.value) <=> Holds(q, c.value)
    BY DEF Holds, Store!Holds
<1>2. Store!Placement(q, c, sel, t) = a
    BY <1>1, StoreUsable, StoreOrder DEF Placement, Store!Placement
<1> HIDE DEF a
<1>3. Store!Place(q, c, a, sel, t) = Place(q, c, a, sel, t)
    BY StoreUsable, StoreOrder DEF Place, Store!Place
<1> QED BY <1>2, <1>3, StoreUsable, StorePromote DEF Accept, Store!Accept, a

LEMMA StoreInvalidate ==
    ASSUME NEW p, NEW v, NEW i, NEW sel, NEW t
    PROVE  Store!Invalidate(p, v, i, sel, t) = Invalidate(p, v, i, sel, t)
<1>1. Store!Without(p, v, i) = Without(p, v, i)
    BY DEF Without, Matches, Store!Without, Store!Matches
<1> QED BY <1>1, StorePromote DEF Invalidate, Store!Invalidate

\* Binding a verified request is the store's Attempt.
LEMMA BindIsAttempt ==
    ASSUME Typed, NEW r \in Requests, Verified(r),
           slots' = [slots EXCEPT ![hook[r].key] = PairFor(r)], UNCHANGED <<selected, now>>
    PROVE  Store!Next
<1> DEFINE k == hook[r].key
           i == hook[r].identity
<1>1. k \in Keys /\ i \in selected[k] /\ i \in Identities
    BY DEF Typed, TypeOK, Verified
<1>2. Store!AfterAttempt(slots[k], i, selected[k], now) = PairFor(r)
    BY StorePromote DEF PairFor, Foreign, EmptyPair, Store!AfterAttempt, Store!EmptyPair
<1>3. Store!Attempt(k, i)
    BY <1>1, <1>2 DEF Store!Attempt
<1> QED BY <1>1, <1>3 DEF Store!Next

\* What a request or a probe brings home is offered to the store.
LEMMA AcceptIsOffer ==
    ASSUME Typed, NEW k \in Keys, NEW c \in State,
           slots' = [slots EXCEPT ![k] = Accept(@, c, selected[k], now)],
           UNCHANGED <<selected, now>>
    PROVE  Store!Next
<1>1. c \in Store!State
    BY DEF State, Evidence, Sources, Store!State, Store!Evidence, Store!Sources
<1>2. Store!Offer(k, c)
    BY StoreAccept DEF Store!Offer
<1> QED BY <1>1, <1>2 DEF Store!Next

\* A completed request.
LEMMA CommitStores ==
    ASSUME Typed, NothingOutsideSelection, NEW r \in Requests, Commit(r)
    PROVE  Store!Next \/ UNCHANGED storeVars
<1>1. CASE CommitMismatch(r)
    <2> DEFINE b == requests[r]
               q == Invalidate(slots[b.key], b.used, b.identity, selected[b.key], now)
    <2>1. b # NoBinding /\ b.key # NoKey
        BY <1>1 DEF CommitMismatch, Mismatched, SameAccount, BoundKey
    <2>2. b \in Binding /\ b.key \in Keys /\ b.identity \in selected[b.key]
        BY <2>1 DEF Typed, TypeOK, Binding, NothingOutsideSelection, Tracked, StillSelected
    <2>3. b.identity \in Identities /\ slots \in [Keys -> Pair]
        BY <2>2 DEF Typed, TypeOK
    <2>4. CASE b.used = NoValue
        BY <1>1, <2>2, <2>3, <2>4 DEF CommitMismatch, storeVars
    <2>5. CASE b.used # NoValue
        <3>1. b.used \in Values
            BY <2>2, <2>5 DEF Binding
        <3>2. slots' = [slots EXCEPT ![b.key] = q] /\ UNCHANGED <<selected, now>>
            BY <1>1, <2>5 DEF CommitMismatch
        <3>3. Store!Mismatch(b.key, b.used, b.identity)
            BY <3>2, StoreInvalidate DEF Store!Mismatch
        <3> QED BY <2>2, <2>3, <3>1, <3>3 DEF Store!Next
    <2> QED BY <2>4, <2>5
<1>2. CASE CommitCandidate(r)
    <2>1. candidates[r].key \in Keys /\ CandidateState(r) \in State
        BY <1>2, CandidateTyped DEF CommitCandidate
    <2> QED BY <1>2, <2>1, AcceptIsOffer DEF CommitCandidate
<1>3. CASE CommitNothing(r)
    BY <1>3 DEF CommitNothing
<1> QED BY <1>1, <1>2, <1>3 DEF Commit

\* A saved selection admits one account for a chosen key, none for another.
LEMMA ReselectStores ==
    ASSUME NEW chosen \in SUBSET Keys, NEW seen \in [Auths -> Identities],
           Reselect(chosen, seen)
    PROVE  Store!Next
<1>1. selected' \in [Keys -> {{}, Identities} \cup {{i} : i \in Identities}]
    BY RequestAssumption DEF Reselect
<1>2. Store!Reselect(selected')
    BY DEF Reselect, Store!Reselect
<1> QED BY <1>1, <1>2 DEF Store!Next

\* Every step is one of the store's, or leaves the store alone.
LEMMA StepStores ==
    Typed /\ NothingOutsideSelection /\ [Next]_vars => [Store!Next]_(Store!vars)
<1> SUFFICES ASSUME Typed, NothingOutsideSelection, [Next]_vars
             PROVE  Store!Next \/ UNCHANGED storeVars
    BY DEF storeVars, Store!vars
<1>1. ASSUME NEW r \in Requests, Intercept(r) PROVE Store!Next \/ UNCHANGED storeVars
    <2>1. CASE Begin(r) \/ PassUnbound(r) \/ BlockUnverified(r)
        BY <2>1 DEF Begin, PassUnbound, BlockUnverified
    <2>2. CASE BindWithoutState(r)
        BY <2>2, BindIsAttempt DEF BindWithoutState
    <2>3. CASE BindAndObserve(r)
        BY <2>3, BindIsAttempt DEF BindAndObserve
    <2>4. CASE BindWithState(r)
        BY <2>4, BindIsAttempt DEF BindWithState
    <2> QED BY <1>1, <2>1, <2>2, <2>3, <2>4 DEF Intercept
<1>2. ASSUME NEW r \in Requests, Respond(r) PROVE UNCHANGED storeVars
    BY <1>2 DEF Respond, Capture, WsCheck, WsCapture, Report, StreamFailure
<1>3. ASSUME NEW r \in Requests, NEW o \in HostOutcomes, ReadOwner(r, o)
      PROVE  UNCHANGED storeVars
    BY <1>3 DEF ReadOwner
<1>4. ASSUME NEW k \in Keys, NEW v \in Values, ProbeAccept(k, v) PROVE Store!Next
    <2>1. slots' = [slots EXCEPT ![k] = Accept(@, [value |-> v, identity |-> host[AuthOf[k]],
                         model |-> "match", source |-> "probe"], selected[k], now)]
          /\ UNCHANGED <<selected, now>>
        BY <1>4 DEF ProbeAccept
    <2> QED BY <2>1, ProbeStateTyped, AcceptIsOffer
<1>5. ASSUME NEW chosen \in SUBSET Keys, NEW seen \in [Auths -> Identities],
             Reselect(chosen, seen)
      PROVE  Store!Next
    BY <1>5, ReselectStores
<1>6. ASSUME (\E m \in Modes : SetMode(m)) \/ Quiesce
             \/ (\E a \in Auths, i \in Identities : Rotate(a, i))
      PROVE  UNCHANGED storeVars
    BY <1>6 DEF SetMode, Quiesce, Rotate
<1>7. ASSUME Tick PROVE Store!Next
    BY <1>7 DEF Tick, Store!Tick, Store!Next
<1> QED BY <1>1, <1>2, <1>3, <1>4, <1>5, <1>6, <1>7, CommitStores DEF Next, vars

\* The hooks do to the slots what SlotStore allows, so that whatever is proved
\* of SlotStore holds of the slots under the hooks.
THEOREM HooksImplementStore == Spec => StoreSpec
<1>1. Init => Store!Init
    BY DEF Init, Store!Init, EmptyPair, Store!EmptyPair
<1> QED BY <1>1, Scope, StepStores, PTL DEF Spec, StoreSpec, Store!Spec
----------------------------------------------------------------------------
(* What a request is sent with.                                            *)

\* A header is chosen, and a request that was looked up is dealt with, by
\* interceptAfter alone.
LEMMA OnlyInterceptSends ==
    ASSUME Typed, [Next]_vars, NEW r \in Requests, ~Intercept(r)
    PROVE  /\ attempt'[r].sent \in {attempt[r].sent, NoValue}
           /\ hook[r].step = "bind" => hook'[r].step = "bind"
<1> USE DEF Typed, TypeOK
<1> NoAttempt.sent = NoValue
    BY DEF NoAttempt
<1>1. ASSUME NEW q \in Requests, Intercept(q)
      PROVE  hook'[r] = hook[r] /\ attempt'[r] = attempt[r]
    <2>1. q # r
        BY <1>1
    <2>2. CASE Begin(q)
        BY <2>1, <2>2 DEF Begin
    <2>3. ASSUME NEW v, SendUpstream(q, v) PROVE hook'[r] = hook[r] /\ attempt'[r] = attempt[r]
        BY <2>1, <2>3, SendOnly
    <2>4. CASE Block(q)
        BY <2>1, <2>4 DEF Block
    <2> QED BY <1>1, <2>2, <2>3, <2>4 DEF Intercept, PassUnbound, BlockUnverified,
           BindWithoutState, BindAndObserve, BindWithState
<1>2. ASSUME NEW q \in Requests, Respond(q)
      PROVE  hook'[r] = hook[r] /\ attempt'[r].sent = attempt[r].sent
    <2>1. ASSUME NEW v, Answer(q, v) PROVE attempt'[r].sent = attempt[r].sent
        BY <2>1 DEF Answer, Attempt
    <2>2. ASSUME NEW m, NEW end, Witness(q, m, end) PROVE attempt'[r].sent = attempt[r].sent
        BY <2>2 DEF Witness, Attempt
    <2> QED BY <1>2, <2>1, <2>2 DEF Respond, Capture, WsCheck, WsCapture, Report, StreamFailure
<1>3. ASSUME NEW q \in Requests, Commit(q)
      PROVE  /\ attempt'[r].sent \in {attempt[r].sent, NoValue}
             /\ hook[r].step = "bind" => hook'[r] = hook[r]
    BY <1>3 DEF Commit, CommitMismatch, CommitCandidate, CommitNothing, Release
<1>4. ASSUME NEW q \in Requests, NEW o, ReadOwner(q, o)
      PROVE  attempt'[r] = attempt[r] /\ (hook[r].step = "bind" => hook'[r] = hook[r])
    BY <1>4 DEF ReadOwner
<1>5. ASSUME NEW chosen, NEW seen, Reselect(chosen, seen)
      PROVE  hook'[r] = hook[r] /\ attempt'[r].sent = attempt[r].sent
    BY <1>5 DEF Reselect, Attempt
<1>6. CASE \/ \E k \in Keys, v \in Values : ProbeAccept(k, v)
           \/ \E m \in Modes : SetMode(m)
           \/ Quiesce
           \/ \E a \in Auths, i \in Identities : Rotate(a, i)
           \/ Tick \/ UNCHANGED vars
    BY <1>6 DEF ProbeAccept, SetMode, Quiesce, Rotate, Tick, vars
<1> QED BY <1>1, <1>2, <1>3, <1>4, <1>5, <1>6 DEF Next

\* interceptAfter's promotion brings nothing into the pair, and what is then
\* cached for the request may be used.
LEMMA CachedIsSound ==
    ASSUME NEW r \in Requests, Cached(r)
    PROVE  LET s == PairFor(r).active
           IN  /\ s \in Stored(hook[r].key) /\ s.identity = hook[r].identity
               /\ Usable(s, selected[hook[r].key], now)
<1> DEFINE k == hook[r].key
           q == Promote(slots[k], selected[k], now)
<1>1. PairFor(r).active # NoState
    BY DEF Cached, Usable, Valid
<1>2. PairFor(r) = q /\ ~Foreign(q.active, hook[r].identity)
    BY <1>1 DEF PairFor, EmptyPair
<1>3. q.active \in InSlots(slots[k])
    BY <1>1, <1>2, PromoteRearranges DEF InSlots
<1> QED BY <1>1, <1>2, <1>3 DEF Cached, Foreign, InSlots, Stored

\* What Usable admits may be carried: its two comparisons are the age limit
\* and the allowance for a clock that is behind.
LEMMA UsableMayBeCarried ==
    ASSUME Typed, NEW k \in Keys, NEW s \in Stored(k), Usable(s, selected[k], now)
    PROVE  MayCarry(s, s.identity) /\ s.identity \in selected[k]
<1>1. s \in State
    BY DEF Typed, TypeOK, Stored, Pair, Slot
<1>2. s.value \in Values /\ s.model \in Evidence
    BY <1>1 DEF State
<1>3. Issued[s.value] \in Nat /\ now \in Nat /\ TTL \in Nat /\ Skew \in Nat
    BY <1>2, SlotAssumption DEF Typed, TypeOK
<1>4. Issued[s.value] <= now + Skew /\ now < Issued[s.value] + TTL
    BY DEF Usable, Valid, Fresh
<1>5. RequireModelMatch => s.model = "match"
    BY <1>2 DEF Usable, Valid, ModelRejection, Evidence
<1>6. now - Issued[s.value] < TTL /\ Issued[s.value] - now <= Skew
    BY <1>3, <1>4
<1> QED BY <1>5, <1>6 DEF MayCarry, Usable

\* interceptAfter never sends a state that is expired, deselected or captured
\* for another account than the one it verified.
THEOREM HeadersAreSound == Spec => HeaderIsSound
<1>1. ASSUME Typed, [Next]_vars, NEW r \in Requests,
             attempt'[r].sent \notin {attempt[r].sent, NoValue}
      PROVE  \E s \in Stored(hook[r].key) :
                 /\ s.value = attempt'[r].sent
                 /\ MayCarry(s, hook[r].identity)
                 /\ s.identity \in selected[hook[r].key]
    <2>1. Intercept(r)
        BY <1>1, OnlyInterceptSends
    <2>2. ASSUME NEW v, SendUpstream(r, v) PROVE attempt'[r].sent = v
        BY <1>1, <2>2 DEF SendUpstream, Typed, Attempt
    <2>3. CASE BindWithState(r)
        <3> DEFINE s == PairFor(r).active
        <3>1. /\ s \in Stored(hook[r].key) /\ s.identity = hook[r].identity
              /\ Usable(s, selected[hook[r].key], now)
            BY <2>3, CachedIsSound DEF BindWithState
        <3>2. attempt'[r].sent = s.value
            BY <2>2, <2>3 DEF BindWithState
        <3>3. hook[r].key \in Keys
            BY <1>1, <2>3 DEF BindWithState, Verified, Typed
        <3>4. MayCarry(s, s.identity) /\ s.identity \in selected[hook[r].key]
            BY <1>1, <3>1, <3>3, UsableMayBeCarried
        <3> QED BY <3>1, <3>2, <3>4
    <2>4. Block(r) \/ Begin(r) => attempt'[r].sent = NoValue
        <3>1. attempt' = [attempt EXCEPT ![r] = NoAttempt] => attempt'[r].sent = NoValue
            BY <1>1 DEF NoAttempt, Typed
        <3>2. Begin(r) => attempt' = [attempt EXCEPT ![r] = NoAttempt]
            BY DEF Begin
        <3> QED BY <3>1, <3>2 DEF Block
    <2>5. ~BindWithState(r) => attempt'[r].sent = NoValue
        BY <2>1, <2>2, <2>4 DEF Intercept, PassUnbound, BlockUnverified, BindWithoutState,
           BindAndObserve
    <2> QED BY <1>1, <2>3, <2>5
<1>2. Typed /\ [Next]_vars =>
        [\A r \in Requests :
            attempt'[r].sent \notin {attempt[r].sent, NoValue} =>
                \E s \in Stored(hook[r].key) :
                    /\ s.value = attempt'[r].sent
                    /\ MayCarry(s, hook[r].identity)
                    /\ s.identity \in selected[hook[r].key]]_vars
    BY <1>1
<1> QED BY <1>2, Scope, PTL DEF HeaderIsSound, Spec

\* The gate stops requests in scope in force mode only, lets none of them
\* through without a state, and leaves requests alone in the other modes.
THEOREM TheGateHolds == Spec => GateHolds
<1> DEFINE Gate(r) ==
        /\ hook[r].step = "bind" /\ hook'[r].step # "bind"
        /\ accepting /\ selected[hook[r].key] # {}
        => /\ hook'[r].step = "done" => BlockWithoutState /\ mode = "force"
           /\ BlockWithoutState /\ mode = "force"
                  => hook'[r].step = "done" \/ attempt'[r].sent # NoValue
           /\ mode \in {"observe", "dry_run"} => attempt'[r].sent = NoValue
<1>1. ASSUME Typed, [Next]_vars, NEW r \in Requests PROVE Gate(r)
    <2> SUFFICES ASSUME hook[r].step = "bind", hook'[r].step # "bind",
                        accepting, selected[hook[r].key] # {}
                 PROVE  Gate(r)
        OBVIOUS
    <2>1. Intercept(r)
        BY <1>1, OnlyInterceptSends
    <2>2. ASSUME NEW v, SendUpstream(r, v)
          PROVE  attempt'[r].sent = v /\ hook'[r].step = "upstream"
        BY <1>1, <2>2 DEF SendUpstream, Typed, TypeOK, Attempt, Hook
    <2>3. CASE PassUnbound(r)
        BY <2>2, <2>3 DEF PassUnbound, Blocking
    <2>4. ASSUME Block(r) PROVE hook'[r].step = "done" /\ attempt'[r].sent = NoValue
        BY <1>1, <2>4 DEF Block, Done, NoAttempt, Typed, TypeOK
    <2>5. CASE BlockUnverified(r)
        BY <2>4, <2>5 DEF BlockUnverified, Blocking
    <2>6. CASE BindWithoutState(r)
        BY <2>2, <2>4, <2>6 DEF BindWithoutState, Blocking
    <2>7. CASE BindAndObserve(r)
        BY <2>2, <2>7 DEF BindAndObserve
    <2>8. CASE BindWithState(r)
        <3>1. PairFor(r).active.value # NoValue
            <4>1. PairFor(r) \in Pair
                BY <1>1, PairForTyped
            <4> QED BY <2>8, <4>1, NothingAssumption
                   DEF BindWithState, Cached, Usable, Valid, Pair, Slot, State
        <3> QED BY <2>2, <2>8, <3>1 DEF BindWithState
    <2> QED BY <2>1, <2>3, <2>5, <2>6, <2>7, <2>8 DEF Intercept, Begin
<1>2. Typed /\ [Next]_vars => [\A r \in Requests : Gate(r)]_vars
    BY <1>1
<1> QED BY <1>2, Scope, PTL DEF GateHolds, Spec
----------------------------------------------------------------------------
(* What a request brings home.                                             *)

\* What an event adds to a binding.
LEMMA ReportSees ==
    ASSUME NEW b \in Binding, NEW m \in Evidence, NEW up \in BOOLEAN, NEW end
    PROVE  LET c == Ended(Observed(b, m, up), end)
           IN  /\ c.completed <=> b.completed \/ end = "completed"
               /\ c.failed <=> b.failed \/ end = "failed"
               /\ c.model = b.model \/ (c.model = m /\ m # "missing")
<1> DEFINE o == Observed(b, m, up)
<1>1. /\ o \in Binding /\ o.completed = b.completed /\ o.failed = b.failed
      /\ o.model = b.model \/ (o.model = m /\ m # "missing")
    BY DEF Observed, Binding
<1> HIDE DEF o
<1> DEFINE done == o.completed \/ end = "completed"
           lost == o.failed \/ end = "failed"
<1>2. Ended(o, end) = [o EXCEPT !.completed = done, !.failed = lost]
    BY DEF Ended
<1>3. (done <=> b.completed \/ end = "completed") /\ (lost <=> b.failed \/ end = "failed")
    BY <1>1
<1> HIDE DEF done, lost
<1>4. Ended(o, end).completed = done /\ Ended(o, end).failed = lost
      /\ Ended(o, end).model = o.model
    BY <1>1, <1>2 DEF Binding
<1> QED BY <1>1, <1>3, <1>4 DEF o

\* Unless files change hands twice, the account a request is bound to, i, is
\* the one its attempt was sent for, a, or the credential's file has moved on
\* from it and will not come back.
Faithful(i, a, k) ==
    MaxRotations <= 1 => a = i \/ (rotations >= 1 /\ host[AuthOf[k]] # i)

\* What the code knows of the attempt under way is true of it.
TrueTo(b, a, h) ==
    /\ h.step \in {"upstream", "complete"} /\ h.key = b.key
    /\ b.used # NoValue => a.sent = b.used
    /\ b.completed => a.completed
    /\ a.failed => b.failed
    /\ b.model = "match" => "match" \in a.reports
    /\ a.account = b.identity => ~a.withdrawn
    /\ h.step = "upstream" => Faithful(b.identity, a.account, b.key)
    /\ h.step = "complete" /\ h.identity = b.identity /\ MaxRotations <= 1
           => a.account = b.identity

Known(r) ==
    /\ requests[r] # NoBinding /\ requests[r].key # NoKey
           => TrueTo(requests[r], attempt[r], hook[r])
    /\ hook[r].step = "bind" =>
           /\ requests[r] = NoBinding /\ attempt[r] = NoAttempt
           /\ hook[r].identity # NoIdentity
                  => Faithful(hook[r].identity, host[AuthOf[hook[r].key]], hook[r].key)

Truthful == \A r \in Requests : Known(r)

\* The zero binding and a fresh one have seen nothing.
LEMMA FreshBindingSawNothing ==
    ASSUME Typed, NEW r \in Requests, hook[r].step = "bind", NEW v \in Values \cup {NoValue}
    PROVE  LET b == [FreshBinding(r) EXCEPT !.used = v]
           IN  ~b.completed /\ ~b.failed /\ b.model = "missing" /\ b.used = v
<1>1. ~FreshBinding(r).completed /\ ~FreshBinding(r).failed /\ FreshBinding(r).model = "missing"
    BY DEF FreshBinding, EmptyBinding
<1> QED BY <1>1, FreshBindingTyped DEF Binding

\* A step of r's hooks leaves what is known of the other requests alone.
LEMMA OnlyOneKnown ==
    ASSUME Typed, Truthful, NEW r \in Requests, UNCHANGED <<host, rotations>>, Known(r)',
           \A q \in Requests \ {r} : /\ requests'[q] = requests[q] /\ hook'[q] = hook[q]
                                     /\ attempt'[q] = attempt[q]
    PROVE  Truthful'
<1>1. ASSUME NEW q \in Requests \ {r} PROVE Known(q)'
    BY <1>1 DEF Truthful, Known, TrueTo, Faithful
<1> QED BY <1>1 DEF Truthful

\* A request that is over is bound to nothing.
LEMMA DoneKnown ==
    ASSUME Typed, Truthful, NEW r \in Requests, UNCHANGED <<host, rotations>>, Forget(r),
           hook' = [hook EXCEPT ![r] = Done], attempt' = [attempt EXCEPT ![r] = NoAttempt]
    PROVE  Truthful'
<1>1. requests'[r] = NoBinding /\ hook'[r].step = "done"
    BY DEF Forget, Done, Typed, TypeOK
<1>2. Known(r)'
    BY <1>1 DEF Known
<1>3. \A q \in Requests \ {r} : /\ requests'[q] = requests[q] /\ hook'[q] = hook[q]
                                /\ attempt'[q] = attempt[q]
    BY DEF Forget, Typed, TypeOK
<1> QED BY <1>2, <1>3, OnlyOneKnown

\* A request that is sent upstream is bound to what was verified, or to
\* nothing.
LEMMA SendKnown ==
    ASSUME Typed, Truthful, NEW r \in Requests, hook[r].step = "bind",
           NEW v, SendUpstream(r, v), UNCHANGED <<host, rotations>>,
           NEW u \in (Values \cup {NoValue}) \cap {v, NoValue},
           \/ requests' = requests
           \/ /\ hook[r].identity \in Identities
              /\ requests' = [requests EXCEPT ![r] = [FreshBinding(r) EXCEPT !.used = u]]
    PROVE  Truthful'
<1> DEFINE k == hook[r].key
           b == [FreshBinding(r) EXCEPT !.used = u]
<1>1. /\ hook'[r].step = "upstream" /\ hook'[r].key = k /\ attempt'[r].sent = v
      /\ attempt'[r].account = host[AuthOf[k]]
      /\ ~attempt'[r].failed /\ ~attempt'[r].withdrawn
      /\ \A q \in Requests \ {r} : hook'[q] = hook[q] /\ attempt'[q] = attempt[q]
    <2>1. attempt[r] = NoAttempt
        BY DEF Truthful, Known
    <2>2. attempt' = [attempt EXCEPT ![r] =
              [NoAttempt EXCEPT !.sent = v, !.account = host[AuthOf[k]]]]
        BY <2>1 DEF SendUpstream, Typed
    <2>3. hook' = [hook EXCEPT ![r] = [@ EXCEPT !.step = "upstream", !.identity = NoIdentity]]
        BY DEF SendUpstream, Typed, TypeOK
    <2> QED BY <2>2, <2>3 DEF Typed, TypeOK, Hook, NoAttempt
<1>2. CASE requests' = requests
    <2>1. requests'[r] = NoBinding
        BY <1>2 DEF Truthful, Known
    <2>2. Known(r)'
        BY <1>1, <2>1 DEF Known
    <2> QED BY <1>1, <1>2, <2>2, OnlyOneKnown
<1>3. CASE /\ hook[r].identity \in Identities
           /\ requests' = [requests EXCEPT ![r] = b]
    <2>1. /\ ~b.completed /\ ~b.failed /\ b.model = "missing" /\ b.used \in {v, NoValue}
          /\ b.key = NoKey \/ (b.key = k /\ b.identity = hook[r].identity)
        BY FreshBindingTyped, FreshBindingSawNothing
    <2>2. requests'[r] = b /\ \A q \in Requests \ {r} : requests'[q] = requests[q]
        BY <1>3 DEF Typed, TypeOK
    <2> HIDE DEF b
    <2>3. Faithful(hook[r].identity, host[AuthOf[k]], k)
        BY <1>3, NothingAssumption DEF Truthful, Known
    <2>4. Known(r)'
        BY <1>1, <2>1, <2>2, <2>3 DEF Known, TrueTo, Faithful
    <2> QED BY <1>1, <2>2, <2>4, OnlyOneKnown
<1> QED BY <1>2, <1>3

\* interceptAfter.
LEMMA InterceptKnown ==
    ASSUME Typed, Truthful, NEW r \in Requests, Intercept(r)
    PROVE  Truthful'
<1>0. UNCHANGED <<host, rotations>>
    BY DEF Intercept, Begin, PassUnbound, BlockUnverified, BindWithoutState, BindAndObserve,
       BindWithState, hostVars
<1>1. CASE Begin(r)
    <2>1. requests'[r] = NoBinding
          /\ \A q \in Requests \ {r} : requests'[q] = requests[q]
        BY <1>1 DEF Begin, Forget, Typed, TypeOK
    <2>2. attempt'[r] = NoAttempt /\ \A q \in Requests \ {r} : attempt'[q] = attempt[q]
        BY <1>1 DEF Begin, Typed
    <2>3. hook'[r].step = "bind" =>
              hook'[r].identity \in {host[AuthOf[hook'[r].key]], NoIdentity}
        <3>1. ASSUME NEW k \in Keys, NEW i \in Lookup(k),
                     hook' = [hook EXCEPT ![r].step = "bind", ![r].key = k,
                                          ![r].identity = i, ![r].attempts = @ + 1]
              PROVE  hook'[r].identity \in {host[AuthOf[hook'[r].key]], NoIdentity}
            <4>1. hook'[r].key = k /\ hook'[r].identity = i
                BY <3>1 DEF Typed, TypeOK, Hook
            <4> QED BY <4>1, NothingAssumption DEF Lookup
        <3>2. ASSUME hook' = [hook EXCEPT ![r].step = "upstream", ![r].key = NoKey,
                                          ![r].identity = NoIdentity, ![r].attempts = @ + 1]
              PROVE  hook'[r].step = "upstream"
            BY <3>2 DEF Typed, TypeOK, Hook
        <3> QED BY <1>1, <3>1, <3>2 DEF Begin
    <2>4. \A q \in Requests \ {r} : hook'[q] = hook[q]
        BY <1>1 DEF Begin, Typed, TypeOK
    <2>5. Known(r)'
        BY <1>0, <2>1, <2>2, <2>3 DEF Known, Faithful
    <2> QED BY <1>0, <2>1, <2>2, <2>4, <2>5, OnlyOneKnown
<1>2. CASE PassUnbound(r)
    BY <1>0, <1>2, SendKnown DEF PassUnbound
<1>3. CASE BlockUnverified(r)
    BY <1>0, <1>3, DoneKnown DEF BlockUnverified, Block
<1>4. ASSUME Verified(r) PROVE /\ hook[r].step = "bind" /\ hook[r].identity \in Identities
                               /\ FreshBinding(r) = [FreshBinding(r) EXCEPT !.used = NoValue]
    <2>1. hook[r].step = "bind" /\ hook[r].identity \in Identities
        BY <1>4 DEF Verified, Typed, TypeOK
    <2>2. FreshBinding(r) \in Binding /\ FreshBinding(r).used = NoValue
        BY <2>1, FreshBindingTyped DEF FreshBinding, EmptyBinding
    <2> QED BY <2>1, <2>2 DEF Binding
<1>5. CASE BindWithoutState(r)
    <2>1. CASE Blocking
        BY <1>0, <1>4, <1>5, <2>1, DoneKnown DEF BindWithoutState, Block
    <2>2. CASE ~Blocking
        BY <1>0, <1>4, <1>5, <2>2, SendKnown DEF BindWithoutState
    <2> QED BY <2>1, <2>2
<1>6. CASE BindAndObserve(r)
    BY <1>0, <1>4, <1>6, SendKnown DEF BindAndObserve
<1>7. CASE BindWithState(r)
    <2>1. PairFor(r).active.value \in Values
        BY <1>4, <1>7, PairForTyped DEF BindWithState, Cached, Usable, Valid, Pair, Slot, State
    <2> QED BY <1>0, <1>4, <1>7, <2>1, SendKnown DEF BindWithState
<1> QED BY <1>1, <1>2, <1>3, <1>5, <1>6, <1>7 DEF Intercept

\* An event of the response is seen by the binding and by the attempt alike.
LEMMA EventKnown ==
    ASSUME Typed, Truthful, NEW r \in Requests, NEW m \in Evidence, NEW up \in BOOLEAN, NEW end,
           Witness(r, m, end), UNCHANGED <<hook, host, rotations>>,
           requests' = IF requests[r] = NoBinding THEN requests
                       ELSE [requests EXCEPT ![r] = Ended(Observed(@, m, up), end)]
    PROVE  Truthful'
<1> DEFINE b == requests[r]
           c == Ended(Observed(b, m, up), end)
<1>1. /\ attempt'[r].account = attempt[r].account /\ attempt'[r].sent = attempt[r].sent
      /\ attempt'[r].withdrawn = attempt[r].withdrawn
      /\ attempt'[r].reports = attempt[r].reports \cup ({m} \ {"missing"})
      /\ attempt'[r].completed <=> attempt[r].completed \/ end = "completed"
      /\ attempt'[r].failed <=> attempt[r].failed \/ end = "failed"
    BY DEF Witness, Typed, Attempt
<1>2. \A q \in Requests \ {r} : attempt'[q] = attempt[q] /\ requests'[q] = requests[q]
    BY DEF Witness, Typed, TypeOK
<1>3. hook[r].step = "upstream"
    BY DEF Witness
<1>4. CASE b = NoBinding
    <2>1. requests'[r] = NoBinding
        BY <1>4
    <2>2. Known(r)'
        BY <1>3, <2>1 DEF Known
    <2> QED BY <1>2, <2>2, OnlyOneKnown
<1>5. CASE b # NoBinding
    <2>1. b \in Binding
        BY <1>5 DEF Typed, TypeOK
    <2>2. /\ c.key = b.key /\ c.identity = b.identity /\ c.used = b.used
          /\ c.completed <=> b.completed \/ end = "completed"
          /\ c.failed <=> b.failed \/ end = "failed"
          /\ c.model = b.model \/ (c.model = m /\ m # "missing")
        BY <2>1, ReportTyped, ReportSees
    <2>3. requests'[r] = c
        BY <1>5 DEF Typed, TypeOK
    <2>4. b.key # NoKey => TrueTo(b, attempt[r], hook[r])
        BY <1>5 DEF Truthful, Known
    <2> HIDE DEF b, c
    <2>5. Known(r)'
        BY <1>1, <1>3, <2>2, <2>3, <2>4 DEF Known, TrueTo, Faithful
    <2> QED BY <1>2, <2>5, OnlyOneKnown
<1> QED BY <1>4, <1>5

\* The hooks of a response.
LEMMA RespondKnown ==
    ASSUME Typed, Truthful, NEW r \in Requests, Respond(r)
    PROVE  Truthful'
<1>1. ASSUME UNCHANGED <<requests, hook, host, rotations>>, hook[r].step = "upstream",
             NEW v \in Values, attempt' = [attempt EXCEPT ![r].values = @ \cup {v}]
      PROVE  Truthful'
    <2>1. /\ attempt'[r].account = attempt[r].account /\ attempt'[r].sent = attempt[r].sent
          /\ attempt'[r].withdrawn = attempt[r].withdrawn
          /\ attempt'[r].reports = attempt[r].reports
          /\ attempt'[r].completed = attempt[r].completed
          /\ attempt'[r].failed = attempt[r].failed
          /\ \A q \in Requests \ {r} : attempt'[q] = attempt[q]
        BY <1>1 DEF Typed, Attempt
    <2>2. Known(r)'
        BY <1>1, <2>1 DEF Truthful, Known, TrueTo, Faithful
    <2> QED BY <1>1, <2>1, <2>2, OnlyOneKnown
<1>2. ASSUME NEW v \in Values, Capture(r, v) \/ WsCheck(r, v) PROVE Truthful'
    BY <1>1, <1>2 DEF Capture, WsCheck, Answer, hostVars
<1>3. CASE WsCapture(r)
    BY <1>3 DEF WsCapture, Truthful, Known, TrueTo, Faithful, hostVars
<1>4. ASSUME NEW m \in Evidence, NEW up \in BOOLEAN, NEW end, Report(r, m, up, end)
      PROVE  Truthful'
    BY <1>4, EventKnown DEF Report, hostVars
<1>5. ASSUME NEW m \in Evidence, StreamFailure(r, m) PROVE Truthful'
    <2>1. FALSE \in BOOLEAN
        OBVIOUS
    <2> QED BY <1>5, <2>1, EventKnown DEF StreamFailure, hostVars
<1> QED BY <1>2, <1>3, <1>4, <1>5 DEF Respond

\* complete reads the account the credential's file holds now.
LEMMA ReadOwnerKnown ==
    ASSUME Typed, Truthful, NothingOutsideSelection, NEW r \in Requests, NEW o, ReadOwner(r, o)
    PROVE  Truthful'
<1>1. PICK i \in Lookup(BoundKey(r)) :
          hook' = [hook EXCEPT ![r] = [@ EXCEPT !.step = "complete", !.identity = i, !.outcome = o]]
    BY DEF ReadOwner
<1>2. /\ hook'[r].step = "complete" /\ hook'[r].identity = i /\ hook'[r].key = hook[r].key
      /\ \A q \in Requests \ {r} : hook'[q] = hook[q]
    BY <1>1 DEF Typed, TypeOK, Hook
<1>3. hook[r].step = "upstream" /\ UNCHANGED <<requests, attempt, host, rotations>>
    BY DEF ReadOwner, hostVars
<1>4. ASSUME requests[r] # NoBinding, requests[r].key # NoKey, i = requests[r].identity
      PROVE  MaxRotations <= 1 => attempt[r].account = i
    <2>1. requests[r].identity \in Identities
        <3>1. requests[r] \in Binding
            BY <1>4 DEF Typed, TypeOK
        <3>2. requests[r].identity \in selected[requests[r].key] /\ requests[r].key \in Keys
            BY <1>4, <3>1 DEF NothingOutsideSelection, Tracked, StillSelected, Binding
        <3> QED BY <3>2 DEF Typed, TypeOK
    <2>2. i = host[AuthOf[requests[r].key]]
        BY <1>4, <2>1, NothingAssumption DEF Lookup, BoundKey
    <2> QED BY <1>3, <1>4, <2>2 DEF Truthful, Known, TrueTo, Faithful
<1>5. Known(r)'
    BY <1>2, <1>3, <1>4 DEF Truthful, Known, TrueTo, Faithful
<1> QED BY <1>2, <1>3, <1>5, OnlyOneKnown

\* A saved selection withdraws the attempts of the accounts it leaves out,
\* and their bindings.
LEMMA ReselectKnown ==
    ASSUME Typed, Truthful, NEW chosen, NEW seen, Reselect(chosen, seen)
    PROVE  Truthful'
<1>1. UNCHANGED <<hook, host, rotations>>
    BY DEF Reselect, hostVars
<1>2. ASSUME NEW r \in Requests
      PROVE  /\ requests'[r] = NoBinding
                \/ /\ requests'[r] = requests[r]
                   /\ requests[r] # NoBinding => requests[r].key # NoKey
                                /\ requests[r].identity \in selected'[requests[r].key]
             /\ attempt'[r] = attempt[r]
                \/ /\ attempt'[r] = [attempt[r] EXCEPT !.withdrawn = TRUE]
                   /\ hook[r].step \in {"upstream", "complete"}
                   /\ attempt[r].account \notin selected'[hook[r].key]
    BY DEF Reselect, Tracked
<1>3. ASSUME NEW r \in Requests PROVE Known(r)'
    <2>1. Known(r) /\ attempt[r] \in Attempt
        BY DEF Truthful, Typed
    <2>2. CASE attempt'[r] = attempt[r]
        BY <1>1, <1>2, <2>1, <2>2 DEF Known, TrueTo, Faithful
    <2>3. CASE /\ attempt'[r] = [attempt[r] EXCEPT !.withdrawn = TRUE]
               /\ hook[r].step \in {"upstream", "complete"}
               /\ attempt[r].account \notin selected'[hook[r].key]
        <3>1. /\ attempt'[r].account = attempt[r].account /\ attempt'[r].sent = attempt[r].sent
              /\ attempt'[r].reports = attempt[r].reports
              /\ attempt'[r].completed = attempt[r].completed
              /\ attempt'[r].failed = attempt[r].failed
            BY <2>1, <2>3 DEF Attempt
        <3>2. requests'[r] # NoBinding /\ requests'[r].key # NoKey
                  => requests'[r] = requests[r] /\ attempt[r].account # requests[r].identity
            BY <1>2, <2>1, <2>3 DEF Known, TrueTo
        <3> QED BY <1>1, <2>1, <2>3, <3>1, <3>2 DEF Known, TrueTo, Faithful
    <2> QED BY <1>2, <2>2, <2>3
<1> QED BY <1>3 DEF Truthful

\* A file that changes hands once does not change back.
LEMMA RotateKnown ==
    ASSUME Typed, Truthful, NEW a \in Auths, NEW i \in Identities, Rotate(a, i)
    PROVE  Truthful'
<1>1. MaxRotations <= 1 => rotations = 0 /\ rotations' = 1
    <2>1. rotations \in Nat /\ MaxRotations \in Nat
        BY RequestAssumption DEF Typed, TypeOK
    <2>2. rotations < MaxRotations /\ rotations' = rotations + 1
        BY DEF Rotate
    <2> QED BY <2>1, <2>2
<1>2. UNCHANGED <<requests, attempt, hook>>
    BY DEF Rotate
<1>3. ASSUME NEW r \in Requests PROVE Known(r)'
    <2>1. Known(r)
        BY DEF Truthful
    <2> QED BY <1>1, <1>2, <2>1 DEF Known, TrueTo, Faithful
<1> QED BY <1>3 DEF Truthful

\* Every step keeps what the code knows true.
LEMMA TruthfulStep ==
    Typed /\ NothingOutsideSelection /\ Truthful /\ [Next]_vars => Truthful'
<1> SUFFICES ASSUME Typed, NothingOutsideSelection, Truthful, [Next]_vars PROVE Truthful'
    OBVIOUS
<1>1. ASSUME UNCHANGED <<requests, hook, attempt, host, rotations>> PROVE Truthful'
    BY <1>1 DEF Truthful, Known, TrueTo, Faithful
<1>2. CASE \/ \E k \in Keys, v \in Values : ProbeAccept(k, v)
           \/ \E m \in Modes : SetMode(m)
           \/ Quiesce \/ Tick \/ UNCHANGED vars
    BY <1>1, <1>2 DEF ProbeAccept, SetMode, Quiesce, Tick, vars, hostVars
<1>3. ASSUME NEW r \in Requests, Commit(r) PROVE Truthful'
    BY <1>3, DoneKnown DEF Commit, CommitMismatch, CommitCandidate, CommitNothing, Release,
       hostVars
<1> QED BY <1>2, <1>3, InterceptKnown, RespondKnown, ReadOwnerKnown, ReselectKnown, RotateKnown
       DEF Next

\* A new state of business traffic is the candidate of a request that is
\* being completed.
LEMMA OnlyCommitsAdmit ==
    ASSUME Typed, [Next]_vars, NEW k \in Keys, NEW s \in StoredNext(k) \ Stored(k),
           s.source = "business"
    PROVE  \E r \in Requests : /\ hook[r].step = "complete" /\ Acceptable(r)
                               /\ candidates[r].key = k /\ s = CandidateState(r)
<1>0. Stored(k) = InSlots(slots[k]) /\ StoredNext(k) = InSlots(slots'[k])
    BY DEF Stored, StoredNext, InSlots
<1>1. ~UNCHANGED slots
    BY DEF Stored, StoredNext
<1>2. ASSUME NEW r \in Requests, Verified(r),
             slots' = [slots EXCEPT ![hook[r].key] = PairFor(r)]
      PROVE  FALSE
    <2>1. InSlots(PairFor(r)) \subseteq InSlots(slots[hook[r].key])
        <3>1. InSlots(EmptyPair) = {}
            BY DEF InSlots, EmptyPair
        <3> QED BY <3>1, PromoteRearranges DEF PairFor
    <2>2. slots'[k] = IF k = hook[r].key THEN PairFor(r) ELSE slots[k]
        BY <1>2 DEF Typed, TypeOK
    <2> QED BY <1>0, <2>1, <2>2
<1>3. ASSUME NEW r \in Requests, CommitMismatch(r) PROVE FALSE
    <2> DEFINE b == requests[r]
               q == IF b.used = NoValue THEN slots[b.key]
                    ELSE Invalidate(slots[b.key], b.used, b.identity, selected[b.key], now)
    <2>1. InSlots(q) \subseteq InSlots(slots[b.key])
        <3>1. InSlots(Without(slots[b.key], b.used, b.identity)) \subseteq InSlots(slots[b.key])
            BY DEF Without, InSlots
        <3> QED BY <3>1, PromoteRearranges DEF Invalidate
    <2>2. slots' = [slots EXCEPT ![b.key] = q]
        BY <1>3 DEF CommitMismatch
    <2> HIDE DEF q
    <2>3. slots'[k] = IF k = b.key THEN q ELSE slots[k]
        BY <2>2 DEF Typed, TypeOK
    <2> QED BY <1>0, <2>1, <2>3
<1>4. ASSUME NEW j \in Keys, NEW c,
             slots' = [slots EXCEPT ![j] = Accept(@, c, selected[j], now)]
      PROVE  j = k /\ s = c
    <2>1. InSlots(Accept(slots[j], c, selected[j], now)) \subseteq InSlots(slots[j]) \cup {c}
        BY AcceptAddsCandidate DEF Typed, TypeOK
    <2>2. slots'[k] = IF k = j THEN Accept(slots[j], c, selected[j], now) ELSE slots[k]
        BY <1>4 DEF Typed, TypeOK
    <2> QED BY <1>0, <2>1, <2>2
<1>5. ASSUME NEW j \in Keys, NEW v \in Values, ProbeAccept(j, v) PROVE FALSE
    <2> DEFINE c == [value |-> v, identity |-> host[AuthOf[j]], model |-> "match",
                     source |-> "probe"]
    <2>1. slots' = [slots EXCEPT ![j] = Accept(@, c, selected[j], now)]
        BY <1>5 DEF ProbeAccept
    <2>2. s = c
        BY <1>4, <2>1
    <2> QED BY <2>2
<1>6. PICK r \in Requests : CommitCandidate(r)
    BY <1>1, <1>2, <1>3, <1>5 DEF Next, Intercept, Begin, PassUnbound, BlockUnverified,
       BindWithoutState, BindAndObserve, BindWithState, Respond, Capture, WsCheck, WsCapture,
       Report, StreamFailure, Commit, CommitNothing, ReadOwner, Reselect, SetMode, Quiesce, Rotate,
       Tick, vars, storeVars
<1>7. candidates[r].key = k /\ s = CandidateState(r)
    <2>1. candidates[r].key \in Keys
        BY <1>6, CandidateTyped DEF CommitCandidate
    <2> QED BY <1>4, <1>6, <2>1 DEF CommitCandidate
<1> QED BY <1>6, <1>7 DEF CommitCandidate

\* A state captured from business traffic enters the slots only from a
\* completed attempt that was answered with it, for the account the attempt
\* was sent for, if an attempt's events come before its retry and no auth
\* file changes hands twice.
THEOREM AdmissionsAreEarned ==
    ~WsOverlapsRetry /\ MaxRotations <= 1 /\ Spec => AdmissionIsEarned
<1> DEFINE Earned(k, s) ==
        \E r \in Requests :
            /\ hook[r].key = k /\ hook[r].outcome = "succeeded"
            /\ attempt[r].account = s.identity
            /\ s.value \in attempt[r].values
            /\ attempt[r].completed /\ ~attempt[r].failed /\ ~attempt[r].withdrawn
            /\ RequireModelMatch => "match" \in attempt[r].reports
<1> SUFFICES ASSUME MaxRotations <= 1 PROVE ~WsOverlapsRetry /\ Spec => AdmissionIsEarned
    OBVIOUS
<1>1. ASSUME Typed, Held, Truthful, [Next]_vars, NEW k \in Keys,
             NEW s \in StoredNext(k) \ Stored(k), s.source = "business"
      PROVE  Earned(k, s)
    <2>1. PICK r \in Requests : /\ hook[r].step = "complete" /\ Acceptable(r)
                                /\ candidates[r].key = k /\ s = CandidateState(r)
        BY <1>1, OnlyCommitsAdmit
    <2>2. /\ requests[r] # NoBinding /\ requests[r].key # NoKey
          /\ hook[r].identity = requests[r].identity
        BY <2>1 DEF Acceptable, SameAccount, BoundKey
    <2>3. /\ candidates[r].key = requests[r].key /\ candidates[r].identity = requests[r].identity
          /\ candidates[r].value \in attempt[r].values
        BY <1>1, <2>1 DEF Acceptable, Held, HeldFor
    <2>4. TrueTo(requests[r], attempt[r], hook[r])
        BY <1>1, <2>2 DEF Truthful, Known
    <2>5. /\ hook[r].outcome = "succeeded" /\ requests[r].completed /\ ~requests[r].failed
          /\ RequireModelMatch => requests[r].model = "match"
        BY <2>1, <2>2 DEF Acceptable, Successful, BindingOf, ModelRejection
    <2>6. s.value = candidates[r].value /\ s.identity = candidates[r].identity
        BY <2>1 DEF CandidateState
    <2> QED BY <1>1, <2>1, <2>2, <2>3, <2>4, <2>5, <2>6 DEF TrueTo
<1>2. Typed /\ Held /\ Truthful /\ [Next]_vars =>
          [\A k \in Keys : \A s \in StoredNext(k) \ Stored(k) :
               s.source = "business" => Earned(k, s)]_vars
    BY <1>1
<1>3. ~WsOverlapsRetry /\ Init => Held
    BY DEF Init, Held, HeldFor
<1>4. Init => Truthful
    BY DEF Init, Truthful, Known, Idle
<1> QED BY <1>2, <1>3, <1>4, Scope, HeldStep, TruthfulStep, PTL DEF AdmissionIsEarned, Spec
----------------------------------------------------------------------------
(* What a completed request takes away.                                    *)

PairsCorrect == \A k \in Keys : PairInv(slots[k])

\* Every step keeps the pairs correct.
LEMMA PairsStep == Typed /\ PairsCorrect /\ [Next]_vars => PairsCorrect'
<1> SUFFICES ASSUME Typed, PairsCorrect, [Next]_vars PROVE PairsCorrect'
    OBVIOUS
<1>1. ASSUME NEW k, NEW q, k \in Keys => PairInv(q), slots' = [slots EXCEPT ![k] = q]
      PROVE  PairsCorrect'
    <2>1. \A j \in Keys : slots'[j] = IF j = k THEN q ELSE slots[j]
        BY <1>1 DEF Typed, TypeOK
    <2> QED BY <1>1, <2>1 DEF PairsCorrect
<1>2. ASSUME NEW r \in Requests, slots' = [slots EXCEPT ![hook[r].key] = PairFor(r)]
      PROVE  PairsCorrect'
    <2>1. hook[r].key \in Keys => PairInv(PairFor(r))
        BY PromotePairInv, EmptyPairInv DEF PairsCorrect, PairFor
    <2> HIDE DEF PairFor
    <2> QED BY <1>1, <1>2, <2>1
<1>3. ASSUME NEW k \in Keys, NEW c \in State,
             slots' = [slots EXCEPT ![k] = Accept(@, c, selected[k], now)]
      PROVE  PairsCorrect'
    <2>1. PairInv(Accept(slots[k], c, selected[k], now))
        BY AcceptPairInv DEF PairsCorrect
    <2> QED BY <1>1, <1>3, <2>1
<1>4. ASSUME NEW r \in Requests, CommitMismatch(r) PROVE PairsCorrect'
    <2> DEFINE b == requests[r]
               q == IF b.used = NoValue THEN slots[b.key]
                    ELSE Invalidate(slots[b.key], b.used, b.identity, selected[b.key], now)
    <2>1. b.key \in Keys => PairInv(q)
        BY InvalidatePairInv DEF PairsCorrect
    <2>2. slots' = [slots EXCEPT ![b.key] = q]
        BY <1>4 DEF CommitMismatch
    <2> HIDE DEF q
    <2> QED BY <1>1, <2>1, <2>2
<1>5. ASSUME NEW r \in Requests, CommitCandidate(r) PROVE PairsCorrect'
    <2>1. candidates[r].key \in Keys /\ CandidateState(r) \in State
        BY <1>5, CandidateTyped DEF CommitCandidate
    <2> QED BY <1>3, <1>5, <2>1 DEF CommitCandidate
<1>6. ASSUME NEW k \in Keys, NEW v \in Values, ProbeAccept(k, v) PROVE PairsCorrect'
    <2> DEFINE c == [value |-> v, identity |-> host[AuthOf[k]], model |-> "match",
                     source |-> "probe"]
    <2>1. c \in State
        BY ProbeStateTyped
    <2>2. slots' = [slots EXCEPT ![k] = Accept(@, c, selected[k], now)]
        BY <1>6 DEF ProbeAccept
    <2> HIDE DEF c
    <2> QED BY <1>3, <2>1, <2>2
<1>7. ASSUME UNCHANGED slots PROVE PairsCorrect'
    BY <1>7 DEF PairsCorrect
<1> QED
    BY <1>2, <1>4, <1>5, <1>6, <1>7 DEF Next, Intercept, Begin, PassUnbound, BlockUnverified,
       BindWithoutState, BindAndObserve, BindWithState, Respond, Capture, WsCheck, WsCapture,
       Report, StreamFailure, Commit, CommitNothing, ReadOwner, Reselect, SetMode, Quiesce, Rotate,
       Tick, vars, storeVars

\* A completed request takes away the state it used or one that a better one
\* replaces, and leaves every other state alone, if an attempt's events come
\* before its retry.
THEOREM OthersStatesStay == ~WsOverlapsRetry /\ Spec => OnlyOwnStateRemoved
<1> DEFINE Excused(r, k, s) ==
        \/ k = hook[r].key /\ s.value = attempt[r].sent
        \/ /\ k = hook[r].key
           /\ \E u \in StoredNext(k) :
                Usable(u, selected[k], now)
                /\ (Usable(s, selected[k], now) => Better(u, s))
<1>0. \A k : Stored(k) = InSlots(slots[k]) /\ StoredNext(k) = InSlots(slots'[k])
    BY DEF Stored, StoredNext, InSlots
<1>1. ASSUME Typed, NothingOutsideSelection, Held, Truthful, PairsCorrect,
             NEW r \in Requests, Commit(r), NEW k \in Keys, NEW s \in Stored(k) \ StoredNext(k)
      PROVE  Excused(r, k, s)
    <2>1. CASE CommitMismatch(r)
        <3> DEFINE b == requests[r]
                   q == Invalidate(slots[k], b.used, b.identity, selected[k], now)
        <3>1. b # NoBinding /\ b.key # NoKey
            BY <2>1 DEF CommitMismatch, Mismatched, SameAccount, BoundKey
        <3>2. b.key = hook[r].key /\ (b.used # NoValue => attempt[r].sent = b.used)
            BY <1>1, <3>1 DEF Truthful, Known, TrueTo
        <3>3. slots'[k] = IF k # b.key \/ b.used = NoValue THEN slots[k] ELSE q
            BY <1>1, <2>1 DEF CommitMismatch, Typed, TypeOK
        <3>4. k = b.key /\ b.used # NoValue /\ s \in InSlots(slots[k]) \ InSlots(q)
            BY <1>0, <1>1, <3>3
        <3>5. Matches(s, b.used, b.identity)
            BY <1>1, <3>4, InvalidateIsExact DEF PairsCorrect
        <3> QED BY <3>2, <3>4, <3>5 DEF Matches
    <2>2. CASE CommitCandidate(r)
        <3> DEFINE c == CandidateState(r)
                   q == Accept(slots[k], c, selected[k], now)
        <3>1. candidates[r].key \in Keys /\ c \in State
            BY <1>1, <2>2, CandidateTyped DEF CommitCandidate
        <3>2. slots'[k] = IF k = candidates[r].key THEN q ELSE slots[k]
            BY <1>1, <2>2 DEF CommitCandidate, Typed, TypeOK
        <3>3. k = candidates[r].key /\ s \in InSlots(slots[k]) \ InSlots(q)
            BY <1>0, <1>1, <3>2
        <3>4. k = hook[r].key
            <4>1. /\ requests[r] # NoBinding /\ requests[r].key # NoKey
                  /\ candidates[r] # NoCandidate
                BY <2>2 DEF CommitCandidate, Acceptable, SameAccount, BoundKey
            <4>2. candidates[r].key = requests[r].key
                BY <1>1, <4>1 DEF Held, HeldFor
            <4> QED BY <1>1, <3>3, <4>1, <4>2 DEF Truthful, Known, TrueTo
        <3>5. PairInv(slots[k])
            BY <1>1 DEF PairsCorrect
        <3> HIDE DEF c
        <3>6. \E u \in InSlots(q) :
                  Usable(u, selected[k], now) /\ (Usable(s, selected[k], now) => Better(u, s))
            BY <3>1, <3>3, <3>5, AcceptDisplaces
        <3> HIDE DEF q
        <3> QED BY <1>0, <3>2, <3>3, <3>4, <3>6
    <2>3. CASE CommitNothing(r)
        BY <1>1, <2>3 DEF CommitNothing, storeVars, Stored, StoredNext
    <2> QED BY <1>1, <2>1, <2>2, <2>3 DEF Commit
<1>2. Typed /\ NothingOutsideSelection /\ Held /\ Truthful /\ PairsCorrect /\ [Next]_vars =>
          [\A r \in Requests : Commit(r) =>
              \A k \in Keys : \A s \in Stored(k) \ StoredNext(k) : Excused(r, k, s)]_vars
    BY <1>1
<1>3. ~WsOverlapsRetry /\ Init => Held
    BY DEF Init, Held, HeldFor
<1>4. Init => Truthful
    BY DEF Init, Truthful, Known, Idle
<1>5. Init => PairsCorrect
    BY EmptyPairInv DEF Init, PairsCorrect
<1> QED
    BY <1>2, <1>3, <1>4, <1>5, Scope, HeldStep, TruthfulStep, PairsStep, PTL
    DEF OnlyOwnStateRemoved, Spec
----------------------------------------------------------------------------
(* What a model mismatch takes away.                                       *)

\* An event that names a model leaves a binding that knows one.
LEMMA ReportNoted ==
    ASSUME NEW b \in Binding, NEW m \in Evidence, NEW up \in BOOLEAN, NEW end,
           b.upstream => b.model # "missing"
    PROVE  LET c == Ended(Observed(b, m, up), end)
           IN  /\ c.upstream => c.model # "missing"
               /\ m # "missing" \/ b.model # "missing" => c.model # "missing"
<1> DEFINE o == Observed(b, m, up)
<1>1. /\ o \in Binding
      /\ o.upstream => o.model # "missing"
      /\ m # "missing" \/ b.model # "missing" => o.model # "missing"
    BY DEF Observed, Binding
<1> HIDE DEF o
<1> DEFINE done == o.completed \/ end = "completed"
           lost == o.failed \/ end = "failed"
<1>2. Ended(o, end) = [o EXCEPT !.completed = done, !.failed = lost]
    BY DEF Ended
<1> HIDE DEF done, lost
<1>3. Ended(o, end).upstream = o.upstream /\ Ended(o, end).model = o.model
    BY <1>1, <1>2 DEF Binding
<1> QED BY <1>1, <1>3 DEF o

\* With room for every request, a request that carries a state is bound to
\* it until a saved selection withdraws the attempt, and its binding knows a
\* reported model.
Accounted(r) ==
    /\ attempt[r].sent # NoValue /\ ~attempt[r].withdrawn =>
           /\ requests[r] # NoBinding /\ requests[r].key # NoKey
           /\ requests[r].used = attempt[r].sent
           /\ requests[r].identity = attempt[r].account
    /\ requests[r] # NoBinding =>
           /\ requests[r].model \in attempt[r].reports \cup {"missing"}
           /\ attempt[r].reports # {} => requests[r].model # "missing"
           /\ requests[r].upstream => requests[r].model # "missing"

RoomForAll ==
    /\ IsFiniteSet(Requests) /\ Cardinality(Requests) <= MaxRequests
    /\ MaxRotations = 0

AllAccounted == rotations = 0 /\ \A r \in Requests : Accounted(r)

LEMMA OnlyOneAccounted ==
    ASSUME AllAccounted, NEW r \in Requests, UNCHANGED rotations, Accounted(r)',
           \A q \in Requests \ {r} : requests'[q] = requests[q] /\ attempt'[q] = attempt[q]
    PROVE  AllAccounted'
<1>1. ASSUME NEW q \in Requests \ {r} PROVE Accounted(q)'
    BY <1>1 DEF AllAccounted, Accounted
<1> QED BY <1>1 DEF AllAccounted

\* The table has room for a request that is not in it.
LEMMA RoomToBind ==
    ASSUME RoomForAll, NEW r \in Requests, requests[r] = NoBinding
    PROVE  Cardinality(Tracked) < MaxRequests
<1>1. IsFiniteSet(Requests \ {r}) /\ Cardinality(Requests \ {r}) = Cardinality(Requests) - 1
    BY FS_RemoveElement DEF RoomForAll
<1>2. Tracked \subseteq Requests \ {r}
    BY DEF Tracked
<1>3. IsFiniteSet(Tracked) /\ Cardinality(Tracked) <= Cardinality(Requests \ {r})
    BY <1>1, <1>2, FS_Subset
<1>4. Cardinality(Tracked) \in Nat /\ Cardinality(Requests) \in Nat /\ MaxRequests \in Nat
    BY <1>3, FS_CardinalityType, RequestAssumption DEF RoomForAll
<1> QED BY <1>1, <1>3, <1>4 DEF RoomForAll

\* A request that is sent upstream.
LEMMA SendAccounted ==
    ASSUME Typed, Truthful, AllAccounted, RoomForAll, NEW r \in Requests,
           hook[r].step = "bind", NEW v \in Values \cup {NoValue}, SendUpstream(r, v),
           UNCHANGED rotations,
           \/ requests' = requests /\ v = NoValue
           \/ /\ hook[r].identity \in Identities
              /\ requests' = [requests EXCEPT ![r] = [FreshBinding(r) EXCEPT !.used = v]]
    PROVE  AllAccounted'
<1> DEFINE k == hook[r].key
           b == [FreshBinding(r) EXCEPT !.used = v]
<1>0. requests[r] = NoBinding /\ attempt[r] = NoAttempt
    BY DEF Truthful, Known
<1>1. /\ attempt'[r].account = host[AuthOf[k]] /\ attempt'[r].sent = v
      /\ attempt'[r].reports = {}
      /\ \A q \in Requests \ {r} : attempt'[q] = attempt[q]
    <2>1. attempt' = [attempt EXCEPT ![r] =
              [NoAttempt EXCEPT !.sent = v, !.account = host[AuthOf[k]]]]
        BY <1>0 DEF SendUpstream, Typed
    <2> QED BY <2>1 DEF Typed, NoAttempt
<1>2. CASE requests' = requests /\ v = NoValue
    <2>1. Accounted(r)'
        BY <1>0, <1>1, <1>2 DEF Accounted
    <2> QED BY <1>1, <1>2, <2>1, OnlyOneAccounted
<1>3. CASE /\ hook[r].identity \in Identities
           /\ requests' = [requests EXCEPT ![r] = b]
    <2>1. /\ b.model = "missing" /\ ~b.upstream /\ b.used = v /\ b \in Binding
          /\ b.key = k /\ b.identity = hook[r].identity
        <3>1. Cardinality(Tracked) < MaxRequests
            BY <1>0, RoomToBind
        <3>2. FreshBinding(r) = [key |-> k, identity |-> hook[r].identity, used |-> NoValue,
                                 model |-> "missing", upstream |-> FALSE,
                                 completed |-> FALSE, failed |-> FALSE]
            BY <3>1 DEF FreshBinding, EmptyBinding
        <3>3. b \in Binding
            BY FreshBindingTyped
        <3> QED BY <3>2, <3>3
    <2>2. k \in Keys
        BY DEF Typed
    <2>3. hook[r].identity = host[AuthOf[k]]
        <3>1. Faithful(hook[r].identity, host[AuthOf[k]], k)
            BY <1>3, NothingAssumption DEF Truthful, Known
        <3>2. MaxRotations = 0 /\ rotations = 0
            BY DEF RoomForAll, AllAccounted
        <3> QED BY <3>1, <3>2 DEF Faithful
    <2>4. requests'[r] = b /\ \A q \in Requests \ {r} : requests'[q] = requests[q]
        BY <1>3 DEF Typed, TypeOK
    <2> HIDE DEF b
    <2>5. Accounted(r)'
        BY <1>1, <2>1, <2>2, <2>3, <2>4, NothingAssumption DEF Accounted
    <2> QED BY <1>1, <2>4, <2>5, OnlyOneAccounted
<1> QED BY <1>2, <1>3

\* interceptAfter.
LEMMA InterceptAccounted ==
    ASSUME Typed, Truthful, AllAccounted, RoomForAll, NEW r \in Requests, Intercept(r)
    PROVE  AllAccounted'
<1>0. UNCHANGED rotations
    BY DEF Intercept, Begin, PassUnbound, BlockUnverified, BindWithoutState, BindAndObserve,
       BindWithState, hostVars
<1>1. ASSUME Forget(r), attempt' = [attempt EXCEPT ![r] = NoAttempt] PROVE AllAccounted'
    <2>1. /\ requests'[r] = NoBinding /\ attempt'[r] = NoAttempt
          /\ \A q \in Requests \ {r} : requests'[q] = requests[q] /\ attempt'[q] = attempt[q]
        BY <1>1 DEF Forget, Typed, TypeOK
    <2>2. Accounted(r)'
        BY <2>1 DEF Accounted, NoAttempt
    <2> QED BY <1>0, <2>1, <2>2, OnlyOneAccounted
<1>2. CASE Begin(r) \/ BlockUnverified(r)
    BY <1>1, <1>2 DEF Begin, BlockUnverified, Block
<1>3. CASE PassUnbound(r)
    BY <1>0, <1>3, SendAccounted DEF PassUnbound
<1>4. ASSUME Verified(r) PROVE /\ hook[r].step = "bind" /\ hook[r].identity \in Identities
                               /\ FreshBinding(r) = [FreshBinding(r) EXCEPT !.used = NoValue]
    <2>1. hook[r].step = "bind" /\ hook[r].identity \in Identities
        BY <1>4 DEF Verified, Typed, TypeOK
    <2>2. FreshBinding(r) \in Binding /\ FreshBinding(r).used = NoValue
        BY <2>1, FreshBindingTyped DEF FreshBinding, EmptyBinding
    <2> QED BY <2>1, <2>2 DEF Binding
<1>5. CASE BindWithoutState(r)
    <2>1. CASE Blocking
        BY <1>1, <1>5, <2>1 DEF BindWithoutState, Block
    <2>2. CASE ~Blocking
        BY <1>0, <1>4, <1>5, <2>2, SendAccounted DEF BindWithoutState
    <2> QED BY <2>1, <2>2
<1>6. CASE BindAndObserve(r)
    BY <1>0, <1>4, <1>6, SendAccounted DEF BindAndObserve
<1>7. CASE BindWithState(r)
    <2>1. PairFor(r).active.value \in Values
        BY <1>4, <1>7, PairForTyped DEF BindWithState, Cached, Usable, Valid, Pair, Slot, State
    <2> QED BY <1>0, <1>4, <1>7, <2>1, SendAccounted DEF BindWithState
<1> QED BY <1>2, <1>3, <1>5, <1>6, <1>7 DEF Intercept

\* An event of the response.
LEMMA EventAccounted ==
    ASSUME Typed, AllAccounted, NEW r \in Requests, NEW m \in Evidence, NEW up \in BOOLEAN,
           NEW end, Witness(r, m, end), UNCHANGED rotations,
           requests' = IF requests[r] = NoBinding THEN requests
                       ELSE [requests EXCEPT ![r] = Ended(Observed(@, m, up), end)]
    PROVE  AllAccounted'
<1> DEFINE b == requests[r]
           c == Ended(Observed(b, m, up), end)
<1>1. /\ attempt'[r].account = attempt[r].account /\ attempt'[r].sent = attempt[r].sent
      /\ attempt'[r].withdrawn = attempt[r].withdrawn
      /\ attempt'[r].reports = attempt[r].reports \cup ({m} \ {"missing"})
    BY DEF Witness, Typed, Attempt
<1>2. \A q \in Requests \ {r} : attempt'[q] = attempt[q] /\ requests'[q] = requests[q]
    BY DEF Witness, Typed, TypeOK
<1>3. CASE b = NoBinding
    <2>1. requests'[r] = NoBinding
        BY <1>3
    <2>2. Accounted(r)'
        BY <1>1, <1>3, <2>1 DEF AllAccounted, Accounted
    <2> QED BY <1>2, <2>2, OnlyOneAccounted
<1>4. CASE b # NoBinding
    <2>1. b \in Binding /\ Accounted(r)
        BY <1>4 DEF Typed, TypeOK, AllAccounted
    <2>2. /\ c \in Binding /\ c.key = b.key /\ c.identity = b.identity /\ c.used = b.used
          /\ c.model = b.model \/ (c.model = m /\ m # "missing")
        BY <2>1, ReportTyped, ReportSees
    <2>3. /\ c.upstream => c.model # "missing"
          /\ m # "missing" \/ b.model # "missing" => c.model # "missing"
        BY <1>4, <2>1, ReportNoted DEF Accounted
    <2>4. requests'[r] = c
        BY <1>4 DEF Typed, TypeOK
    <2> HIDE DEF c
    <2>5. Accounted(r)'
        BY <1>1, <1>4, <2>1, <2>2, <2>3, <2>4, NothingAssumption DEF Accounted
    <2> QED BY <1>2, <2>5, OnlyOneAccounted
<1> QED BY <1>3, <1>4

\* The hooks of a response.
LEMMA RespondAccounted ==
    ASSUME Typed, AllAccounted, NEW r \in Requests, Respond(r)
    PROVE  AllAccounted'
<1>1. ASSUME UNCHANGED <<requests, rotations>>, NEW v,
             attempt' = [attempt EXCEPT ![r].values = @ \cup {v}]
      PROVE  AllAccounted'
    <2>1. /\ attempt'[r].account = attempt[r].account /\ attempt'[r].sent = attempt[r].sent
          /\ attempt'[r].withdrawn = attempt[r].withdrawn
          /\ attempt'[r].reports = attempt[r].reports
          /\ \A q \in Requests \ {r} : attempt'[q] = attempt[q]
        BY <1>1 DEF Typed, Attempt
    <2>2. Accounted(r)'
        BY <1>1, <2>1 DEF AllAccounted, Accounted
    <2> QED BY <1>1, <2>1, <2>2, OnlyOneAccounted
<1>2. ASSUME NEW v \in Values, Capture(r, v) \/ WsCheck(r, v) PROVE AllAccounted'
    BY <1>1, <1>2 DEF Capture, WsCheck, Answer, hostVars
<1>3. CASE WsCapture(r)
    BY <1>3 DEF WsCapture, AllAccounted, Accounted, hostVars
<1>4. ASSUME NEW m \in Evidence, NEW up \in BOOLEAN, NEW end, Report(r, m, up, end)
      PROVE  AllAccounted'
    BY <1>4, EventAccounted DEF Report, hostVars
<1>5. ASSUME NEW m \in Evidence, StreamFailure(r, m) PROVE AllAccounted'
    <2>1. FALSE \in BOOLEAN
        OBVIOUS
    <2> QED BY <1>5, <2>1, EventAccounted DEF StreamFailure, hostVars
<1> QED BY <1>2, <1>3, <1>4, <1>5 DEF Respond

\* A saved selection that drops the binding of an attempt withdraws it.
LEMMA ReselectAccounted ==
    ASSUME Typed, Truthful, AllAccounted, NEW chosen, NEW seen, Reselect(chosen, seen)
    PROVE  AllAccounted'
<1>1. UNCHANGED <<hook, rotations>>
    BY DEF Reselect, hostVars
<1>2. ASSUME NEW r \in Requests
      PROVE  /\ requests'[r] = requests[r]
                \/ /\ requests'[r] = NoBinding /\ requests[r] # NoBinding
                   /\ requests[r].key = NoKey
                      \/ requests[r].identity \notin selected'[requests[r].key]
             /\ attempt'[r] =
                   IF hook[r].step \in {"upstream", "complete"} /\ hook[r].key # NoKey
                      /\ attempt[r].account \notin selected'[hook[r].key]
                   THEN [attempt[r] EXCEPT !.withdrawn = TRUE] ELSE attempt[r]
    BY DEF Reselect, Tracked
<1>3. ASSUME NEW r \in Requests PROVE Accounted(r)'
    <2>1. Known(r) /\ Accounted(r) /\ attempt[r] \in Attempt
        BY DEF Truthful, AllAccounted, Typed
    <2>2. /\ attempt'[r].account = attempt[r].account /\ attempt'[r].sent = attempt[r].sent
          /\ attempt'[r].reports = attempt[r].reports
          /\ ~attempt'[r].withdrawn => attempt'[r] = attempt[r]
        BY <1>2, <2>1 DEF Attempt
    <2>3. attempt[r].sent # NoValue /\ ~attempt'[r].withdrawn => requests'[r] = requests[r]
        <3>1. SUFFICES ASSUME attempt[r].sent # NoValue, ~attempt'[r].withdrawn,
                              requests'[r] # requests[r]
                       PROVE  FALSE
            OBVIOUS
        <3>2. /\ attempt[r].sent # NoValue /\ ~attempt[r].withdrawn
              /\ requests[r] # NoBinding /\ requests[r].key # NoKey
              /\ requests[r].identity = attempt[r].account
            BY <2>1, <2>2, <3>1 DEF Accounted
        <3>3. /\ hook[r].step \in {"upstream", "complete"} /\ hook[r].key = requests[r].key
            BY <2>1, <3>2 DEF Known, TrueTo
        <3>4. attempt'[r] = [attempt[r] EXCEPT !.withdrawn = TRUE]
            BY <1>2, <3>1, <3>2, <3>3
        <3> QED BY <2>1, <3>1, <3>4 DEF Attempt
    <2> QED BY <1>2, <2>1, <2>2, <2>3 DEF Accounted
<1> QED BY <1>1, <1>3 DEF AllAccounted

\* Every step accounts for what requests carry.
LEMMA AccountedStep ==
    RoomForAll /\ Typed /\ Truthful /\ AllAccounted /\ [Next]_vars => AllAccounted'
<1> SUFFICES ASSUME RoomForAll, Typed, Truthful, AllAccounted, [Next]_vars PROVE AllAccounted'
    OBVIOUS
<1>1. ASSUME UNCHANGED <<requests, attempt, rotations>> PROVE AllAccounted'
    BY <1>1 DEF AllAccounted, Accounted
<1>2. CASE \/ \E k \in Keys, v \in Values : ProbeAccept(k, v)
           \/ \E m \in Modes : SetMode(m)
           \/ Quiesce \/ Tick \/ UNCHANGED vars
    BY <1>1, <1>2 DEF ProbeAccept, SetMode, Quiesce, Tick, vars, hostVars
<1>3. ASSUME NEW r \in Requests, Commit(r) PROVE AllAccounted'
    <2>1. /\ Forget(r) /\ attempt' = [attempt EXCEPT ![r] = NoAttempt] /\ UNCHANGED rotations
        BY <1>3 DEF Commit, CommitMismatch, CommitCandidate, CommitNothing, Release, hostVars
    <2>2. /\ requests'[r] = NoBinding /\ attempt'[r] = NoAttempt
          /\ \A q \in Requests \ {r} : requests'[q] = requests[q] /\ attempt'[q] = attempt[q]
        BY <2>1 DEF Forget, Typed, TypeOK
    <2>3. Accounted(r)'
        BY <2>2 DEF Accounted, NoAttempt
    <2> QED BY <2>1, <2>2, <2>3, OnlyOneAccounted
<1>4. ASSUME NEW r \in Requests, NEW o, ReadOwner(r, o) PROVE AllAccounted'
    BY <1>1, <1>4 DEF ReadOwner, hostVars
<1>5. ASSUME NEW a, NEW i, Rotate(a, i) PROVE FALSE
    <2>1. rotations < MaxRotations /\ rotations = 0 /\ MaxRotations = 0
        BY <1>5 DEF Rotate, AllAccounted, RoomForAll
    <2> QED BY <2>1
<1> QED BY <1>2, <1>3, <1>4, <1>5, InterceptAccounted, RespondAccounted, ReselectAccounted DEF Next

\* A completed request whose every report named another model leaves none of
\* its key's states with the value it carried, if the table has room for every
\* request and no auth file changes hands.
THEOREM MismatchesInvalidateTheUsedState == RoomForAll /\ Spec => MismatchInvalidatesUsed
<1> SUFFICES ASSUME RoomForAll PROVE Spec => MismatchInvalidatesUsed
    OBVIOUS
<1> DEFINE Gone(r) ==
        /\ Commit(r) /\ RequireModelMatch
        /\ attempt[r].reports = {"mismatch"} /\ ~attempt[r].withdrawn
        /\ attempt[r].sent # NoValue
        /\ BoundKey(r) # NoKey => hook[r].identity = attempt[r].account
        => ~\E s \in StoredNext(hook[r].key) : Matches(s, attempt[r].sent, attempt[r].account)
<1>1. ASSUME Typed, Truthful, PairsCorrect, AllAccounted, NEW r \in Requests
      PROVE  Gone(r)
    <2> DEFINE b == requests[r]
               q == Invalidate(slots[b.key], b.used, b.identity, selected[b.key], now)
    <2> SUFFICES ASSUME Commit(r), RequireModelMatch, attempt[r].reports = {"mismatch"},
                        ~attempt[r].withdrawn, attempt[r].sent # NoValue,
                        BoundKey(r) # NoKey => hook[r].identity = attempt[r].account
                 PROVE  ~\E s \in StoredNext(hook[r].key) :
                              Matches(s, attempt[r].sent, attempt[r].account)
        OBVIOUS
    <2>1. /\ b # NoBinding /\ b.key # NoKey /\ b.used = attempt[r].sent
          /\ b.identity = attempt[r].account /\ b.model = "mismatch"
        BY <1>1 DEF AllAccounted, Accounted
    <2>2. b.key \in Keys /\ b.key = hook[r].key
        <3>1. b \in Binding
            BY <1>1, <2>1 DEF Typed, TypeOK
        <3> QED BY <1>1, <2>1, <3>1 DEF Binding, Truthful, Known, TrueTo
    <2>3. Mismatched(r)
        BY <2>1 DEF Mismatched, SameAccount, BoundKey, ModelRejection
    <2>4. CommitMismatch(r)
        BY <2>1, <2>3 DEF Commit, CommitCandidate, CommitNothing, Acceptable, Mismatched
    <2>5. slots'[b.key] = q
        BY <1>1, <2>1, <2>2, <2>4 DEF CommitMismatch, Typed, TypeOK
    <2>6. \A s \in InSlots(q) : ~Matches(s, b.used, b.identity)
        BY <1>1, <2>2, InvalidateIsExact DEF PairsCorrect
    <2> HIDE DEF q
    <2> QED BY <2>1, <2>2, <2>5, <2>6 DEF StoredNext, InSlots
<1>2. Typed /\ Truthful /\ PairsCorrect /\ AllAccounted /\ [Next]_vars =>
          [\A r \in Requests : Gone(r)]_vars
    BY <1>1
<1>3. Init => Truthful
    BY DEF Init, Truthful, Known, Idle
<1>4. Init => PairsCorrect
    BY EmptyPairInv DEF Init, PairsCorrect
<1>5. Init => AllAccounted
    BY DEF Init, AllAccounted, Accounted, NoAttempt
<1>6. Typed /\ Truthful /\ AllAccounted /\ [Next]_vars => AllAccounted'
    BY AccountedStep
<1> QED BY <1>2, <1>3, <1>4, <1>5, <1>6, Scope, TruthfulStep, PairsStep, PTL
       DEF MismatchInvalidatesUsed, Spec
==============================================================================
