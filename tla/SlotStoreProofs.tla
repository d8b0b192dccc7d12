--------------------------- MODULE SlotStoreProofs ---------------------------
(***************************************************************************)
(* Theorems about SlotStore, for any tokens, issuance times, identities,   *)
(* selections and options.  Every operation rewrites one key's pair, so    *)
(* the work is done once per operator of TurnSlots, in TurnSlotsProofs, on *)
(* a single pair; the theorems lift it to all keys and all steps.          *)
(***************************************************************************)
EXTENDS SlotStore, TurnSlotsProofs

\* The inductive invariant: typed, and every pair correct.
IInv ==
    /\ TypeOK
    /\ \A k \in Keys : PairInv(slots[k])

----------------------------------------------------------------------------
(* The inductive invariant of the store.                                   *)

\* What interceptAfter does to the slots keeps a pair correct.
LEMMA AttemptPairInv ==
    ASSUME NEW p, PairInv(p), NEW i, NEW sel, NEW t
    PROVE  PairInv(AfterAttempt(p, i, sel, t))
  BY EmptyPairInv, PromotePairInv DEF AfterAttempt

\* Only the pair of the key a step names changes, and it stays correct.
LEMMA InductiveStep == IInv /\ [Next]_vars => IInv'
<1> SUFFICES ASSUME IInv, [Next]_vars PROVE IInv'
    OBVIOUS
<1> USE DEF IInv, TypeOK
<1>0. ASSUME NEW k \in Keys, NEW q, PairInv(q),
             slots' = [slots EXCEPT ![k] = q], UNCHANGED <<selected, now>>
      PROVE  IInv'
    <2>1. \A j \in Keys : slots'[j] = IF j = k THEN q ELSE slots[j]
        BY <1>0
    <2>2. \A j \in Keys : PairInv(slots'[j])
        BY <2>1, <1>0
    <2>3. slots' \in [Keys -> Pair]
        BY <1>0 DEF PairInv
    <2> QED BY <2>2, <2>3, <1>0
<1>1. ASSUME NEW k \in Keys, Scan(k) PROVE IInv'
    BY <1>0, <1>1, PromotePairInv DEF Scan
<1>2. ASSUME NEW k \in Keys, NEW c \in State, Offer(k, c) PROVE IInv'
    BY <1>0, <1>2, AcceptPairInv DEF Offer
<1>3. ASSUME NEW k \in Keys, NEW v \in Values, NEW i \in Identities, Mismatch(k, v, i)
      PROVE  IInv'
    BY <1>0, <1>3, InvalidatePairInv DEF Mismatch
<1>4. ASSUME NEW k \in Keys, NEW i \in Identities, Attempt(k, i) PROVE IInv'
    BY <1>0, <1>4, AttemptPairInv DEF Attempt
<1>5. ASSUME NEW sel \in [Keys -> Selections], Reselect(sel) PROVE IInv'
    BY <1>5 DEF Reselect
<1>6. CASE Tick
    BY <1>6 DEF Tick
<1>7. CASE UNCHANGED vars
    BY <1>7 DEF vars
<1> QED BY <1>1, <1>2, <1>3, <1>4, <1>5, <1>6, <1>7 DEF Next

\* Every reachable store satisfies the inductive invariant.
LEMMA Invariance == Spec => []IInv
<1>1. Init => IInv
  <2> SUFFICES ASSUME Init PROVE IInv
      OBVIOUS
  <2> QED BY EmptyPairInv, StoreAssumption DEF Init, IInv, TypeOK, PairInv
<1> QED BY <1>1, InductiveStep, PTL DEF Spec

\* Type correctness of the store.
THEOREM TypeCorrect == Spec => []TypeOK
<1>1. IInv => TypeOK
    BY DEF IInv
<1> QED BY <1>1, Invariance, PTL

\* The two slots of a key never hold the same token.
THEOREM SlotsStayDistinct == Spec => []DistinctSlots
<1>1. IInv => DistinctSlots
    BY DEF IInv, PairInv, DistinctSlots, InSlots
<1> QED BY <1>1, Invariance, PTL

\* With prefer_292, no 292 ever waits behind a 332.
THEOREM PreferredStaysFirst == Spec => []PreferredFirst
<1>1. IInv => PreferredFirst
    BY DEF IInv, PairInv, PreferredFirst
<1> QED BY <1>1, Invariance, PTL

\* Under strict admission every stored state carries matching evidence.
THEOREM EvidenceIsStrict == Spec => []StrictEvidence
<1>1. IInv => StrictEvidence
    BY DEF IInv, TypeOK, PairInv, StrictEvidence, InSlots, Pair, Slot, State, Evidence, ModelRejection
<1> QED BY <1>1, Invariance, PTL

----------------------------------------------------------------------------
(* Action properties.                                                      *)

\* A model mismatch removes the value the request used and no other state.
THEOREM MismatchRemovesOnlyTheUsedValue == Spec => MismatchIsExact
<1>1. ASSUME IInv, NEW k \in Keys, NEW v \in Values, NEW i \in Identities, Mismatch(k, v, i)
      PROVE  /\ \A s \in InSlots(slots'[k]) : ~Matches(s, v, i)
             /\ \A s \in InSlots(slots[k]) :
                    ~Matches(s, v, i) => s \in InSlots(slots'[k])
    <2>1. slots'[k] = Invalidate(slots[k], v, i, selected[k], now)
        BY <1>1 DEF Mismatch, IInv, TypeOK
    <2>2. PairInv(slots[k])
        BY <1>1 DEF IInv
    <2> QED BY <2>1, <2>2, InvalidateIsExact
<1>2. IInv /\ [Next]_vars =>
        [\A k \in Keys, v \in Values, i \in Identities :
            Mismatch(k, v, i) =>
                /\ \A s \in InSlots(slots'[k]) : ~Matches(s, v, i)
                /\ \A s \in InSlots(slots[k]) :
                       ~Matches(s, v, i) => s \in InSlots(slots'[k])]_vars
    BY <1>1
<1> QED BY <1>2, Invariance, PTL DEF MismatchIsExact, Spec

\* An accepted state leaves its key settled.
LEMMA AcceptSettles ==
    ASSUME NEW p, PairInv(p), NEW c \in State, NEW sel, NEW t, Usable(c, sel, t)
    PROVE  Settled(Accept(p, c, sel, t), sel, t)
<1> DEFINE q == Promote(p, sel, t)
           a == Placement(q, c, sel, t)
           r == Place(q, c, a, sel, t)
<1>1. PairInv(q)
    BY PromotePairInv
<1>2. Usable(q.active, sel, t) \/ ~Usable(q.standby, sel, t)
    BY DEF Promote, Promotable, Usable, Valid
<1>3. PairInv(r)
    BY <1>1, PlacePairInv
<1>4. Usable(r.active, sel, t) \/ ~Usable(r.standby, sel, t)
    <2>1. CASE a \in {"active", "upgraded_292"}
        BY <2>1 DEF Place
    <2>2. CASE a = "standby"
        BY <2>2 DEF Place, Placement
    <2>3. CASE a \notin AcceptedActions
        BY <2>3, <1>2 DEF Place, AcceptedActions
    <2> QED BY <2>1, <2>2, <2>3 DEF AcceptedActions
<1>5. Settled(r, sel, t)
    BY <1>3, <1>4 DEF Settled, InSlots, PairInv, IsLong, IsShort, Usable, Valid
<1> QED BY <1>5 DEF Accept

\* ... and with a usable active state, unless its token is held for another
\* account.
LEMMA AcceptMakesUsable ==
    ASSUME NEW p, PairInv(p), NEW c \in State, NEW sel, NEW t, Usable(c, sel, t)
    PROVE  LET r == Accept(p, c, sel, t)
           IN  Usable(r.active, sel, t) \/ HeldForAnother(r, c, sel)
<1> DEFINE q == Promote(p, sel, t)
           a == Placement(q, c, sel, t)
           r == Place(q, c, a, sel, t)
<1>1. PairInv(q)
    BY PromotePairInv
<1>2. Usable(q.active, sel, t) \/ ~Usable(q.standby, sel, t)
    BY DEF Promote, Promotable, Usable, Valid
<1> HIDE DEF q
<1>3. CASE a \in {"active", "upgraded_292"}
    BY <1>3 DEF Place, Accept, q
<1>4. CASE a \notin {"active", "upgraded_292"} /\ Usable(q.active, sel, t)
    <2>1. r.active = q.active
        BY <1>4 DEF Place, Placement
    <2> QED BY <1>4, <2>1 DEF Accept, q
<1>5. CASE a \notin {"active", "upgraded_292"} /\ ~Usable(q.active, sel, t)
    <2>1. Holds(q, c.value) /\ r = q
        BY <1>5 DEF Place, Placement
    <2>2. PICK s \in InSlots(q) : s.value = c.value
        BY <2>1 DEF Holds, InSlots
    <2>3. ~Usable(s, sel, t)
        BY <1>2, <1>5, <2>2 DEF InSlots
    <2>4. Valid(s, t)
        BY <1>1, <2>2 DEF InSlots, PairInv, Valid, Usable
    <2>5. HeldForAnother(r, c, sel)
        BY <2>1, <2>2, <2>3, <2>4 DEF HeldForAnother, Usable
    <2> QED BY <2>5 DEF Accept, q
<1> QED BY <1>3, <1>4, <1>5

\* Whenever a usable state is offered, the key ends with a usable active
\* state, a 292 if it has one, unless the token is held for an account that is
\* not chosen any more.
THEOREM OffersSettle == Spec => []OfferSettles
<1>1. IInv => OfferSettles
    BY AcceptSettles, AcceptMakesUsable DEF IInv, OfferSettles
<1> QED BY <1>1, Invariance, PTL

----------------------------------------------------------------------------
(* Promotion and acceptance never make a key worse off.                    *)

\* A promotion keeps every usable state or replaces it by a better one.
LEMMA PromoteCovers ==
    ASSUME NEW p, PairInv(p), NEW sel, NEW t,
           NEW s \in InSlots(p), Usable(s, sel, t)
    PROVE  Covered(s, Promote(p, sel, t), sel, t)
<1> DEFINE q == Promote(p, sel, t)
<1>1. CASE ~Promotable(p, sel, t)
    BY <1>1 DEF Promote, Covered, InSlots
<1>2. CASE Promotable(p, sel, t)
    <2>1. q.active = p.standby /\ Usable(p.standby, sel, t) /\ p.standby \in InSlots(q)
        BY <1>2 DEF Promote, Promotable, InSlots, Usable, Valid
    <2>2. CASE s = p.standby
        BY <2>1, <2>2 DEF Covered
    <2>3. CASE s = p.active
        <3>1. Upgrades(p.standby, p.active)
            BY <1>2, <2>3 DEF Promotable
        <3>2. Better(p.standby, s)
            BY <3>1, <2>3 DEF Upgrades, Better, IsShort, IsLong
        <3> QED BY <2>1, <3>2 DEF Covered
    <2> QED BY <2>2, <2>3 DEF InSlots
<1> QED BY <1>1, <1>2

\* "At least as good" is transitive: length first, then issuance.
LEMMA CoverTransitive ==
    ASSUME NEW s \in State, NEW u \in State, NEW w \in State,
           u.value = s.value \/ Better(u, s),
           w.value = u.value \/ Better(w, u)
    PROVE  w.value = s.value \/ Better(w, s)
<1> /\ s # NoState /\ u # NoState /\ w # NoState
    /\ Issued[s.value] \in Nat /\ Issued[u.value] \in Nat /\ Issued[w.value] \in Nat
    BY SlotAssumption, NoStateAssumption DEF State
<1> QED BY DEF Better, IsShort

\* Placing a usable candidate keeps or outclasses every usable state.
LEMMA PlaceCovers ==
    ASSUME NEW p, PairInv(p), NEW c \in State, NEW sel, NEW t,
           Usable(c, sel, t), ~Promotable(p, sel, t),
           NEW s \in InSlots(p), Usable(s, sel, t)
    PROVE  Covered(s, Place(p, c, Placement(p, c, sel, t), sel, t), sel, t)
<1> DEFINE a == Placement(p, c, sel, t)
           r == Place(p, c, a, sel, t)
<1>0. /\ s \in State /\ s # NoState /\ c # NoState
      /\ Issued[s.value] \in Nat /\ Issued[c.value] \in Nat
    BY InSlotsState, SlotAssumption, NoStateAssumption DEF State
<1>1. Usable(p.active, sel, t)
    BY DEF Promotable, InSlots
<1>2. CASE s \in InSlots(r)
    BY <1>2 DEF Covered
<1>3. CASE s \notin InSlots(r)
    <2>1. CASE a = "active"
        <3>1. r = [active |-> c, standby |-> p.standby] /\ s = p.active
            BY <1>1, <1>3, <2>1 DEF Place, InSlots
        <3>2. Better(c, s)
            BY <1>1, <2>1, <3>1 DEF Placement
        <3> QED BY <1>0, <3>1, <3>2 DEF Covered, InSlots
    <2>2. CASE a = "upgraded_292"
        <3>1. Upgrades(c, p.active)
            BY <2>2 DEF Placement
        <3>2. r.active = c
            BY <2>2 DEF Place
        <3>3. IsLong(s)
            BY <1>0, <3>1 DEF InSlots, PairInv, Upgrades, IsShort, IsLong
        <3>4. Better(c, s)
            BY <1>0, <3>1, <3>3 DEF Better, Upgrades, IsShort, IsLong
        <3> QED BY <1>0, <3>2, <3>4 DEF Covered, InSlots
    <2>3. CASE a = "standby"
        <3>1. r = [p EXCEPT !.standby = c] /\ s = p.standby
            BY <1>0, <1>3, <2>3 DEF Place, InSlots, PairInv, Pair
        <3>2. Better(c, s)
            BY <2>3, <3>1 DEF Placement
        <3> QED BY <1>0, <3>1, <3>2 DEF Covered, InSlots, PairInv, Pair
    <2>4. CASE a \notin AcceptedActions
        BY <1>3, <2>4 DEF Place, AcceptedActions
    <2> QED BY <2>1, <2>2, <2>3, <2>4 DEF AcceptedActions
<1> QED BY <1>2, <1>3

\* After a promotion there is nothing left to promote.
LEMMA PromoteOnce ==
    ASSUME NEW p, PairInv(p), NEW sel, NEW t
    PROVE  ~Promotable(Promote(p, sel, t), sel, t)
<1> DEFINE q == Promote(p, sel, t)
<1>1. Usable(q.active, sel, t) \/ ~Usable(q.standby, sel, t)
    BY DEF Promote, Promotable, Usable, Valid
<1>2. ~Upgrades(q.standby, q.active)
    BY PromotePairInv DEF PairInv, Upgrades
<1> QED BY <1>1, <1>2 DEF Promotable

\* acceptStateLocked keeps or outclasses every usable state of the pair.
LEMMA AcceptCovers ==
    ASSUME NEW p, PairInv(p), NEW c \in State, NEW sel, NEW t,
           NEW s \in InSlots(p), Usable(s, sel, t)
    PROVE  Covered(s, Accept(p, c, sel, t), sel, t)
<1> DEFINE q == Promote(p, sel, t)
           r == Place(q, c, Placement(q, c, sel, t), sel, t)
<1>1. CASE ~Usable(c, sel, t)
    BY <1>1 DEF Accept, Covered
<1>2. CASE Usable(c, sel, t)
    <2>1. PICK u \in InSlots(q) : Usable(u, sel, t) /\ (u.value = s.value \/ Better(u, s))
        BY PromoteCovers DEF Covered
    <2>2. PairInv(q) /\ PairInv(r)
        BY <1>2, PromotePairInv, PlacePairInv
    <2>3. Covered(u, r, sel, t)
        BY <1>2, <2>1, <2>2, PromoteOnce, PlaceCovers
    <2>4. PICK w \in InSlots(r) : Usable(w, sel, t) /\ (w.value = u.value \/ Better(w, u))
        BY <2>3 DEF Covered
    <2>5. w.value = s.value \/ Better(w, s)
        BY <2>1, <2>2, <2>4, InSlotsState, CoverTransitive
    <2> QED BY <1>2, <2>4, <2>5 DEF Accept, Covered
<1> QED BY <1>1, <1>2

\* No promotion and no offered state makes a key worse off.
THEOREM KeysNeverWorseOff == Spec => NeverWorseOff
<1>1. ASSUME IInv, NEW k \in Keys, Scan(k) \/ (\E c \in State : Offer(k, c)),
             NEW s \in InSlots(slots[k]), Usable(s, selected[k], now)
      PROVE  Covered(s, slots'[k], selected[k], now)
    <2>1. PairInv(slots[k])
        BY <1>1 DEF IInv
    <2>2. CASE Scan(k)
        <3>1. slots'[k] = Promote(slots[k], selected[k], now)
            BY <1>1, <2>2 DEF Scan, IInv, TypeOK
        <3> QED BY <1>1, <2>1, <3>1, PromoteCovers
    <2>3. ASSUME NEW c \in State, Offer(k, c)
          PROVE  Covered(s, slots'[k], selected[k], now)
        <3>1. slots'[k] = Accept(slots[k], c, selected[k], now)
            BY <1>1, <2>3 DEF Offer, IInv, TypeOK
        <3> QED BY <1>1, <2>1, <3>1, AcceptCovers
    <2> QED BY <1>1, <2>2, <2>3
<1>2. IInv /\ [Next]_vars =>
        [\A k \in Keys :
            Scan(k) \/ (\E c \in State : Offer(k, c)) =>
                \A s \in InSlots(slots[k]) :
                    Usable(s, selected[k], now)
                        => Covered(s, slots'[k], selected[k], now)]_vars
    BY <1>1
<1> QED BY <1>2, Invariance, PTL DEF NeverWorseOff, Spec

----------------------------------------------------------------------------
(* Duplicates never renew a record.                                        *)

\* A token that is usable for its identity is not evicted by a promotion that
\* an acceptance performs first, so it is recognised as a duplicate.
LEMMA AcceptKeepsRecord ==
    ASSUME NEW p, PairInv(p), NEW c \in State, NEW sel, NEW t,
           NEW s \in InSlots(p), NEW u \in InSlots(Accept(p, c, sel, t)),
           s.value = u.value, s.identity = u.identity
    PROVE  u = s
<1> DEFINE q == Promote(p, sel, t)
           a == Placement(q, c, sel, t)
<1>0. p \in Pair
    BY DEF PairInv
<1>1. CASE u \in InSlots(p)
    BY <1>1, OneRecordPerToken
<1>2. CASE u \notin InSlots(p)
    <2>1. u = c /\ Usable(c, sel, t)
        BY <1>0, <1>2, AcceptAddsCandidate DEF Accept, InSlots
    <2>2. Usable(s, sel, t)
        BY <2>1 DEF Usable, Valid, PairInv, InSlots
    <2>3. s \in InSlots(q)
        <3>1. CASE ~Promotable(p, sel, t)
            BY <3>1 DEF Promote
        <3>2. CASE Promotable(p, sel, t)
            <4>1. s = p.standby
                BY <2>2, <3>2 DEF Promotable, Upgrades, PairInv, InSlots
            <4> QED BY <3>2, <4>1 DEF Promote, InSlots
        <3> QED BY <3>1, <3>2
    <2>4. Holds(q, c.value)
        BY <2>1, <2>3 DEF Holds, InSlots
    <2>5. a = "duplicate"
        BY <2>4 DEF Placement
    <2>6. InSlots(Accept(p, c, sel, t)) = InSlots(q)
        BY <2>1, <2>5 DEF Accept, Place
    <2> QED BY <1>2, <2>6, PromoteRearranges
<1> QED BY <1>1, <1>2

\* Every step but an acceptance leaves a key a subset of what it held.
LEMMA OtherStepsRearrange ==
    ASSUME IInv, [Next]_vars, NEW k \in Keys, ~\E c \in State : Offer(k, c)
    PROVE  InSlots(slots'[k]) \subseteq InSlots(slots[k])
<1> USE DEF IInv, TypeOK
<1>1. ASSUME NEW j \in Keys, Scan(j)
      PROVE  InSlots(slots'[k]) \subseteq InSlots(slots[k])
    BY <1>1, PromoteRearranges DEF Scan
<1>2. ASSUME NEW j \in Keys, NEW c \in State, Offer(j, c)
      PROVE  InSlots(slots'[k]) \subseteq InSlots(slots[k])
    BY <1>2 DEF Offer
<1>3. ASSUME NEW j \in Keys, NEW v \in Values, NEW i \in Identities, Mismatch(j, v, i)
      PROVE  InSlots(slots'[k]) \subseteq InSlots(slots[k])
    <2>1. InSlots(Without(slots[k], v, i)) \subseteq InSlots(slots[k])
        BY DEF Without, InSlots
    <2> QED BY <1>3, <2>1, PromoteRearranges DEF Mismatch, Invalidate
<1>4. ASSUME NEW j \in Keys, NEW i \in Identities, Attempt(j, i)
      PROVE  InSlots(slots'[k]) \subseteq InSlots(slots[k])
    BY <1>4, PromoteRearranges DEF Attempt, AfterAttempt, EmptyPair, InSlots
<1>5. CASE UNCHANGED slots
    BY <1>5
<1> QED BY <1>1, <1>2, <1>3, <1>4, <1>5 DEF Next, Tick, Reselect, vars

\* A token that stays in the store for the same identity keeps its record.
THEOREM EchoesKeepTheirRecord == Spec => EchoKeepsRecord
<1>1. ASSUME IInv, [Next]_vars, NEW k \in Keys,
             NEW s \in InSlots(slots[k]), NEW u \in InSlots(slots'[k]),
             s.value = u.value, s.identity = u.identity
      PROVE  u = s
    <2>0. PairInv(slots[k])
        BY <1>1 DEF IInv
    <2>1. CASE InSlots(slots'[k]) \subseteq InSlots(slots[k])
        BY <1>1, <2>0, <2>1, OneRecordPerToken
    <2>2. ASSUME NEW c \in State, Offer(k, c)
          PROVE  u = s
        <3>1. slots'[k] = Accept(slots[k], c, selected[k], now)
            BY <1>1, <2>2 DEF Offer, IInv, TypeOK
        <3> QED BY <1>1, <2>0, <3>1, AcceptKeepsRecord
    <2>3. CASE ~\E c \in State : Offer(k, c)
        <3>1. InSlots(slots'[k]) \subseteq InSlots(slots[k])
            BY <1>1, <2>3, OtherStepsRearrange
        <3> QED BY <2>1, <3>1
    <2> QED BY <2>2, <2>3
<1>2. IInv /\ [Next]_vars =>
        [\A k \in Keys :
            \A s \in InSlots(slots[k]), u \in InSlots(slots'[k]) :
                s.value = u.value /\ s.identity = u.identity => u = s]_vars
    BY <1>1
<1> QED BY <1>2, Invariance, PTL DEF EchoKeepsRecord, Spec

\* Where a state goes depends on its value alone, if it is usable.
LEMMA PlacementByValue ==
    ASSUME NEW p, NEW c \in State, NEW d \in State, NEW sel, NEW t, c.value = d.value
    PROVE  Placement(p, c, sel, t) = Placement(p, d, sel, t)
<1>1. c # NoState /\ d # NoState
    BY NoStateAssumption
<1> QED BY <1>1 DEF Placement, Holds, Upgrades, Better, IsShort

\* A value that was offered is where it belongs.
LEMMA AcceptTwice ==
    ASSUME NEW p, PairInv(p), NEW c \in State, NEW d \in State, NEW sel, NEW t,
           Usable(c, sel, t), c.value = d.value
    PROVE  Accept(Accept(p, c, sel, t), d, sel, t) = Accept(p, c, sel, t)
<1> DEFINE q == Promote(p, sel, t)
           a == Placement(q, c, sel, t)
           r == Place(q, c, a, sel, t)
<1>1. Accept(p, c, sel, t) = r
    BY DEF Accept
<1>2. PairInv(q) /\ PairInv(r) /\ c # NoState
    BY PromotePairInv, PlacePairInv, NoStateAssumption
<1>3. ~Promotable(r, sel, t)
    <2>1. Usable(r.active, sel, t) \/ ~Usable(r.standby, sel, t)
        <3>1. Settled(r, sel, t)
            BY <1>1, AcceptSettles
        <3> HIDE DEF r
        <3> QED BY <3>1 DEF Settled, InSlots, Usable, Valid
    <2>2. ~Upgrades(r.standby, r.active)
        BY <1>2 DEF PairInv, Upgrades
    <2> QED BY <2>1, <2>2 DEF Promotable
<1>4. CASE a \in AcceptedActions
    <2>1. Holds(r, d.value)
        BY <1>2, <1>4 DEF AcceptedActions, Place, Holds, PairInv, Pair
    <2> HIDE DEF r
    <2>2. Place(r, d, Placement(r, d, sel, t), sel, t) = r
        BY <2>1 DEF Place, Placement
    <2> QED BY <1>1, <1>3, <2>2 DEF Accept, Promote
<1>5. CASE a \notin AcceptedActions
    <2>1. r = q
        BY <1>5 DEF Place, AcceptedActions
    <2>2. Placement(r, d, sel, t) = a
        BY <2>1, PlacementByValue
    <2>3. Place(r, d, a, sel, t) = r
        BY <1>5 DEF Place, AcceptedActions
    <2> HIDE DEF r, a
    <2> QED BY <1>1, <1>3, <2>2, <2>3 DEF Accept, Promote
<1> QED BY <1>4, <1>5

\* Offering a value again changes nothing, whoever offers it and whatever the
\* response said of the model this time.
EchoIsIdle ==
    \A k \in Keys, c, d \in State :
        Usable(c, selected[k], now) /\ c.value = d.value =>
            LET p == Accept(slots[k], c, selected[k], now)
            IN  Accept(p, d, selected[k], now) = p

\* Business responses and acquisitions may bring one token several times, each
\* with another record: the first settles where it goes.
THEOREM EchoesChangeNothing == Spec => []EchoIsIdle
<1>1. IInv => EchoIsIdle
    BY AcceptTwice DEF IInv, EchoIsIdle
<1> QED BY <1>1, Invariance, PTL
=============================================================================
