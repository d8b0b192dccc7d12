------------------------------ MODULE SlotStore ------------------------------
(***************************************************************************)
(* The active and standby slots of every key, with each operation that     *)
(* changes them as one atomic step (each runs under runtimeState.mu).      *)
(* What a caller does around the operation (which request, which probe) is *)
(* left open: this module is what BusinessRequest and Acquisition promise  *)
(* to do to the slots, and BusinessRequest is checked to implement it.     *)
(***************************************************************************)
EXTENDS TurnSlots

CONSTANTS
    Keys,        \* (credential, exact model) pairs
    Selections,  \* the identity sets a saved selection may admit for a key
    MaxTime      \* bound: the clock stops here

ASSUME StoreAssumption ==
    /\ Selections \subseteq SUBSET Identities
    /\ MaxTime \in Nat

VARIABLES
    slots,       \* state.current and state.standby
    selected,    \* identities admitted by state.selection; {} = deselected
    now          \* state.now()

vars == <<slots, selected, now>>

Init ==
    /\ slots = [k \in Keys |-> EmptyPair]
    /\ selected \in [Keys -> Selections]
    /\ now = 0

\* promoteStandbyLocked on its own: the refresh loop, and the status page,
\* ask when the key is due and promote first.
Scan(k) ==
    /\ Promotable(slots[k], selected[k], now)
    /\ slots' = [slots EXCEPT ![k] = Promote(@, selected[k], now)]
    /\ UNCHANGED <<selected, now>>

\* acceptStateLocked with a state a request or a probe brought home.
Offer(k, c) ==
    /\ slots' = [slots EXCEPT ![k] = Accept(@, c, selected[k], now)]
    /\ UNCHANGED <<selected, now>>

\* invalidateUsedStateLocked: the value used on behalf of identity i was
\* answered by another model.
Mismatch(k, v, i) ==
    /\ slots' = [slots EXCEPT ![k] = Invalidate(@, v, i, selected[k], now)]
    /\ UNCHANGED <<selected, now>>

\* The slots part of interceptAfter: promote, then clear the key when the
\* active state belongs to another identity than the request's.
AfterAttempt(p, i, sel, t) ==
    LET q == Promote(p, sel, t)
    IN  IF q.active # NoState /\ q.active.identity # i THEN EmptyPair ELSE q

Attempt(k, i) ==
    /\ i \in selected[k]
    /\ slots' = [slots EXCEPT ![k] = AfterAttempt(@, i, selected[k], now)]
    /\ UNCHANGED <<selected, now>>

\* updateSelection replaces the whole selection and leaves the slots alone.
Reselect(sel) ==
    /\ selected' = sel
    /\ UNCHANGED <<slots, now>>

Tick ==
    /\ now < MaxTime
    /\ now' = now + 1
    /\ UNCHANGED <<slots, selected>>

Next ==
    \/ Tick
    \/ \E sel \in [Keys -> Selections] : Reselect(sel)
    \/ \E k \in Keys :
        \/ Scan(k)
        \/ \E c \in State : Offer(k, c)
        \/ \E v \in Values, i \in Identities : Mismatch(k, v, i)
        \/ \E i \in Identities : Attempt(k, i)

Spec == Init /\ [][Next]_vars

----------------------------------------------------------------------------

TypeOK ==
    /\ slots \in [Keys -> Pair]
    /\ selected \in [Keys -> Selections]
    /\ now \in Nat

\* The two slots of a key never hold the same token: a second copy would
\* survive the invalidation of the first and fake coverage that is not there.
DistinctSlots ==
    \A k \in Keys : \A s \in InSlots(slots[k]) :
        s = slots[k].active /\ slots[k].standby # NoState
            => s.value # slots[k].standby.value

\* With prefer_292, a 292 never waits behind a 332: whatever expired, was
\* deselected or invalidated in between, no order of offers parks the
\* preferred length in the standby slot while a 332 is active.
PreferredFirst ==
    Prefer292 => \A k \in Keys :
        ~(IsLong(slots[k].active) /\ IsShort(slots[k].standby))

\* Under strict admission every stored state carries matching model evidence.
StrictEvidence ==
    RequireModelMatch =>
        \A k \in Keys : \A s \in InSlots(slots[k]) : s.model = "match"

\* What a pair can be used for: no usable state idles behind an unusable one,
\* and no usable 292 behind a 332.
Settled(p, sel, t) ==
    (\E s \in InSlots(p) : Usable(s, sel, t)) =>
        /\ Usable(p.active, sel, t)
        /\ Prefer292 /\ (\E s \in InSlots(p) : IsShort(s) /\ Usable(s, sel, t))
               => IsShort(p.active)

\* The token of c is in p already, on behalf of an account that is not chosen.
HeldForAnother(p, c, sel) ==
    \E s \in InSlots(p) : s.value = c.value /\ s.identity \notin sel

\* Once a usable state was offered the key has a usable active state, whatever
\* it held before, and a 292 if it has a usable one: acceptStateLocked does not
\* "duplicate" or "standby" its way past an active slot nobody can use.  With
\* one exception: it compares tokens only (src/slots.go:85), so a token that is
\* held for an account that was deselected since keeps the same token out for
\* the account that is chosen now.
OfferSettles ==
    \A k \in Keys, c \in State :
        Usable(c, selected[k], now) =>
            LET p == Accept(slots[k], c, selected[k], now)
            IN  /\ Usable(p.active, selected[k], now) \/ HeldForAnother(p, c, selected[k])
                /\ Settled(p, selected[k], now)

\* s is covered by p: p has a usable state at least as good as s.
Covered(s, p, sel, t) ==
    \E u \in InSlots(p) :
        Usable(u, sel, t) /\ (u.value = s.value \/ Better(u, s))

\* Promotion and acceptance never make a key worse off: each state that was
\* usable is still there or is outclassed by a usable one ("Later 332 cannot
\* overwrite valid 292").
NeverWorseOff ==
    [][\A k \in Keys :
        Scan(k) \/ (\E c \in State : Offer(k, c)) =>
            \A s \in InSlots(slots[k]) :
                Usable(s, selected[k], now)
                    => Covered(s, slots'[k], selected[k], now)]_vars

\* "Duplicates never renew age or provenance": a token that stays in the
\* store for the same identity keeps the record it came in with.
EchoKeepsRecord ==
    [][\A k \in Keys :
        \A s \in InSlots(slots[k]), u \in InSlots(slots'[k]) :
            s.value = u.value /\ s.identity = u.identity => u = s]_vars

\* "An explicit business model mismatch invalidates only the value actually
\* used": the value goes, and every other state of the key survives it.
MismatchIsExact ==
    [][\A k \in Keys, v \in Values, i \in Identities :
        Mismatch(k, v, i) =>
            /\ \A s \in InSlots(slots'[k]) : ~Matches(s, v, i)
            /\ \A s \in InSlots(slots[k]) :
                   ~Matches(s, v, i) => s \in InSlots(slots'[k])]_vars
==============================================================================
