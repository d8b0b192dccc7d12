--------------------------- MODULE TurnSlotsProofs ---------------------------
(***************************************************************************)
(* Lemmas about the operators of TurnSlots on a single pair, for any       *)
(* tokens, issuance times, identities and options: what they return, which *)
(* states they keep, and that they keep a correct pair correct.  The       *)
(* theorems about SlotStore and SlotFile lift them to all keys and steps.  *)
(***************************************************************************)
EXTENDS TurnSlots, TLAPS

\* promoteStandbyLocked maps pairs to pairs.
LEMMA PromoteTyped ==
    ASSUME NEW p \in Pair, NEW sel, NEW t
    PROVE  Promote(p, sel, t) \in Pair
  BY DEF Promote, Pair, Slot

\* acceptStateLocked maps pairs to pairs.
LEMMA AcceptTyped ==
    ASSUME NEW p \in Pair, NEW c \in State, NEW sel, NEW t
    PROVE  Accept(p, c, sel, t) \in Pair
<1> DEFINE q == Promote(p, sel, t)
<1> SUFFICES ASSUME NEW a PROVE Place(q, c, a, sel, t) \in Pair
    BY DEF Accept
<1>1. q \in Pair /\ c \in Slot
    BY PromoteTyped DEF Slot
<1> HIDE DEF q
<1>2. CASE a = "active"
    BY <1>1, <1>2, NoStateAssumption DEF Place, Pair, Slot
<1>3. CASE a = "upgraded_292"
    BY <1>1, <1>3 DEF Place, Pair, Slot
<1>4. CASE a = "standby"
    BY <1>1, <1>4 DEF Place, Pair, Slot
<1>5. CASE a \notin AcceptedActions
    BY <1>1, <1>5 DEF Place, AcceptedActions
<1> QED BY <1>2, <1>3, <1>4, <1>5 DEF AcceptedActions

\* invalidateUsedStateLocked maps pairs to pairs.
LEMMA InvalidateTyped ==
    ASSUME NEW p \in Pair, NEW v, NEW i, NEW sel, NEW t
    PROVE  Invalidate(p, v, i, sel, t) \in Pair
<1>1. Without(p, v, i) \in Pair
    BY DEF Without, Pair, Slot
<1> QED BY <1>1, PromoteTyped DEF Invalidate

----------------------------------------------------------------------------
(* What the slots hold afterwards.                                         *)

\* Promotion only rearranges states the pair already holds.
LEMMA PromoteRearranges ==
    ASSUME NEW p, NEW sel, NEW t
    PROVE  InSlots(Promote(p, sel, t)) \subseteq InSlots(p)
  BY DEF Promote, InSlots

\* Acceptance adds the candidate at most.
LEMMA AcceptAddsCandidate ==
    ASSUME NEW p \in Pair, NEW c, NEW sel, NEW t
    PROVE  InSlots(Accept(p, c, sel, t)) \subseteq InSlots(p) \cup {c}
<1> DEFINE q == Promote(p, sel, t)
<1>1. InSlots(q) \subseteq InSlots(p)
    BY PromoteRearranges
<1>2. \A a : InSlots(Place(q, c, a, sel, t)) \subseteq InSlots(q) \cup {c}
    <2> TAKE a
    <2>1. CASE a = "active"
        BY <2>1 DEF Place, InSlots
    <2>2. CASE a = "upgraded_292"
        BY <2>2 DEF Place, InSlots
    <2>3. CASE a = "standby"
        BY <2>3, PromoteTyped DEF Place, InSlots, Pair
    <2>4. CASE a \notin AcceptedActions
        BY <2>4 DEF Place, AcceptedActions
    <2> QED BY <2>1, <2>2, <2>3, <2>4 DEF AcceptedActions
<1> QED BY <1>1, <1>2 DEF Accept

----------------------------------------------------------------------------
(* Correct pairs.                                                          *)

\* A pair is correct: typed, two different tokens, no 292 parked behind a
\* 332, and no state that strict admission would have turned away (so that
\* within one identity only age makes a state unusable).
PairInv(p) ==
    /\ p \in Pair
    /\ p.active # NoState /\ p.standby # NoState
           => p.active.value # p.standby.value
    /\ Prefer292 => ~(IsLong(p.active) /\ IsShort(p.standby))
    /\ \A s \in InSlots(p) : ModelRejection(s.model) = ""

\* The states in the slots of a correct pair are states.
LEMMA InSlotsState == ASSUME NEW p, PairInv(p), NEW s \in InSlots(p) PROVE s \in State
  BY DEF PairInv, InSlots, Pair, Slot

\* Two states of a correct pair with one token are one state.
LEMMA OneRecordPerToken ==
    ASSUME NEW p, PairInv(p), NEW s \in InSlots(p), NEW u \in InSlots(p),
           s.value = u.value
    PROVE  s = u
  BY DEF PairInv, InSlots

\* An empty pair is a correct pair.
LEMMA EmptyPairInv == PairInv(EmptyPair)
  BY DEF PairInv, EmptyPair, Pair, Slot, IsLong, IsShort, InSlots

\* promoteStandbyLocked keeps a pair correct.
LEMMA PromotePairInv ==
    ASSUME NEW p, PairInv(p), NEW sel, NEW t
    PROVE  PairInv(Promote(p, sel, t))
<1> DEFINE q == Promote(p, sel, t)
<1>1. CASE Promotable(p, sel, t) /\ Usable(p.active, sel, t)
    <2>1. Upgrades(p.standby, p.active)
        BY <1>1 DEF Promotable
    <2> QED BY <1>1, <2>1 DEF PairInv, Promote, Upgrades, Pair, Slot, IsLong, IsShort, InSlots
<1>2. CASE Promotable(p, sel, t) /\ ~Usable(p.active, sel, t)
    BY <1>2 DEF PairInv, Promote, Pair, Slot, IsLong, IsShort, InSlots
<1>3. CASE ~Promotable(p, sel, t)
    BY <1>3 DEF Promote
<1> QED BY <1>1, <1>2, <1>3

\* acceptStateLocked's placement keeps a promoted pair correct.
LEMMA PlacePairInv ==
    ASSUME NEW p, PairInv(p), NEW c \in State, NEW sel, NEW t, Usable(c, sel, t)
    PROVE  PairInv(Place(p, c, Placement(p, c, sel, t), sel, t))
<1> DEFINE a == Placement(p, c, sel, t)
<1> c # NoState /\ c \in Slot
    BY NoStateAssumption DEF Slot
<1>1. CASE a = "active"
    BY <1>1, NoStateAssumption DEF PairInv, Place, Placement, Pair, Slot, Holds, IsLong, IsShort,
       Better, Upgrades, Usable, Valid, InSlots
<1>2. CASE a = "upgraded_292"
    BY <1>2, NoStateAssumption DEF PairInv, Place, Placement, Pair, Slot, Holds, IsLong, IsShort,
       Better, Upgrades, Usable, Valid, InSlots
<1>3. CASE a = "standby"
    BY <1>3, NoStateAssumption DEF PairInv, Place, Placement, Pair, Slot, Holds, IsLong, IsShort,
       Better, Upgrades, Usable, Valid, InSlots
<1>4. CASE a \notin AcceptedActions
    BY <1>4 DEF Place, AcceptedActions
<1> QED BY <1>1, <1>2, <1>3, <1>4 DEF AcceptedActions

\* acceptStateLocked as a whole keeps a pair correct.
LEMMA AcceptPairInv ==
    ASSUME NEW p, PairInv(p), NEW c \in State, NEW sel, NEW t
    PROVE  PairInv(Accept(p, c, sel, t))
  BY PromotePairInv, PlacePairInv DEF Accept

\* invalidateUsedStateLocked keeps a pair correct.
LEMMA InvalidatePairInv ==
    ASSUME NEW p, PairInv(p), NEW v, NEW i, NEW sel, NEW t
    PROVE  PairInv(Invalidate(p, v, i, sel, t))
<1>1. PairInv(Without(p, v, i))
    BY DEF PairInv, Without, Pair, Slot, IsLong, IsShort, InSlots
<1> QED BY <1>1, PromotePairInv DEF Invalidate

\* Invalidation removes the used value and nothing else from a pair.
LEMMA InvalidateIsExact ==
    ASSUME NEW p, PairInv(p), NEW v, NEW i, NEW sel, NEW t
    PROVE  LET q == Invalidate(p, v, i, sel, t)
           IN  /\ \A s \in InSlots(q) : ~Matches(s, v, i)
               /\ \A s \in InSlots(p) : ~Matches(s, v, i) => s \in InSlots(q)
<1> DEFINE w == Without(p, v, i)
           q == Invalidate(p, v, i, sel, t)
<1>1. CASE ~Matches(p.active, v, i) /\ ~Matches(p.standby, v, i)
    <2>1. w = p
        BY <1>1 DEF PairInv, Pair, Without
    <2> QED BY <2>1, <1>1 DEF Invalidate, InSlots
<1>2. CASE Matches(p.active, v, i)
    <2>1. ~Matches(p.standby, v, i)
        BY <1>2 DEF PairInv, Matches
    <2>2. w = [active |-> NoState, standby |-> p.standby]
        BY <1>2, <2>1 DEF Without
    <2>4. w # p
        BY <2>2, <1>2 DEF Matches
    <2>3. q = w \/ q = [active |-> p.standby, standby |-> NoState]
        BY <2>2, <2>4 DEF Invalidate, Promote, Usable, Valid
    <2> QED BY <1>2, <2>1, <2>2, <2>3, <2>4 DEF InSlots, Matches
<1>3. CASE Matches(p.standby, v, i)
    <2>1. ~Matches(p.active, v, i)
        BY <1>3 DEF PairInv, Matches
    <2>2. w = [active |-> p.active, standby |-> NoState]
        BY <1>3, <2>1 DEF Without
    <2>3. w # p /\ q = w
        BY <2>2, <1>3 DEF Matches, Invalidate, Promote, Promotable, Usable, Valid
    <2> QED BY <1>3, <2>1, <2>2, <2>3 DEF InSlots, Matches
<1> QED BY <1>1, <1>2, <1>3
\* A state that makes way for an accepted one makes way for a usable one, a
\* better one if it was usable itself.
LEMMA AcceptDisplaces ==
    ASSUME NEW p, PairInv(p), NEW c \in State, NEW sel, NEW t,
           NEW s \in InSlots(p) \ InSlots(Accept(p, c, sel, t))
    PROVE  \E u \in InSlots(Accept(p, c, sel, t)) :
               Usable(u, sel, t) /\ (Usable(s, sel, t) => Better(u, s))
<1> DEFINE q == Promote(p, sel, t)
           a == Placement(q, c, sel, t)
           r == Place(q, c, a, sel, t)
<1>0. /\ Usable(c, sel, t) /\ Accept(p, c, sel, t) = r /\ PairInv(q)
      /\ c # NoState /\ s # NoState
    BY PromotePairInv, NoStateAssumption DEF Accept, InSlots
<1>1. CASE s \notin InSlots(q)
    <2>1. /\ q.active = p.standby /\ Usable(q.active, sel, t) /\ s = p.active
          /\ Usable(s, sel, t) => Upgrades(q.active, s)
        BY <1>1 DEF Promote, Promotable, InSlots
    <2>2. CASE q.active \in InSlots(r)
        BY <1>0, <2>1, <2>2 DEF Better, Upgrades, IsShort, IsLong
    <2>3. CASE q.active \notin InSlots(r)
        <3>1. c \in InSlots(r) /\ (Usable(s, sel, t) => Better(c, q.active) /\ ~Upgrades(c, q.active))
            <4>1. q.active # NoState
                BY <2>1 DEF Usable, Valid
            <4>2. a \in {"active", "upgraded_292"}
                BY <2>3, <4>1, <1>0 DEF Place, InSlots, PairInv, Pair
            <4>3. c \in InSlots(r)
                BY <1>0, <4>2 DEF Place, InSlots
            <4>4. a = "active" => Better(c, q.active)
                BY <2>1 DEF Placement
            <4>5. Usable(s, sel, t) => ~Upgrades(c, q.active)
                BY <2>1 DEF Upgrades, IsShort, IsLong
            <4>6. a = "upgraded_292" => Upgrades(c, q.active)
                BY DEF Placement
            <4> QED BY <4>2, <4>3, <4>4, <4>5, <4>6
        <3>2. Usable(s, sel, t) => Better(c, s)
            BY <1>0, <2>1, <3>1 DEF Better, Upgrades, IsShort, IsLong
        <3> QED BY <1>0, <3>1, <3>2
    <2> QED BY <2>2, <2>3
<1>2. CASE s \in InSlots(q)
    <2>1. CASE a = "active"
        <3>1. c \in InSlots(r) /\ r.active = c
            BY <1>0, <2>1 DEF Place, InSlots
        <3>2. Usable(q.active, sel, t) => Better(c, q.active) /\ s = q.active
            BY <1>0, <1>2, <2>1 DEF Place, Placement, InSlots
        <3>3. Usable(q.active, sel, t) \/ ~Usable(q.standby, sel, t)
            BY DEF Promote, Promotable, Usable, Valid
        <3> QED BY <1>0, <1>2, <3>1, <3>2, <3>3 DEF InSlots
    <2>2. CASE a = "upgraded_292"
        <3>1. c \in InSlots(r) /\ Upgrades(c, q.active)
            BY <1>0, <2>2 DEF Place, Placement, InSlots
        <3>2. IsLong(s)
            BY <1>0, <1>2, <3>1 DEF InSlots, PairInv, Upgrades, IsShort, IsLong
        <3>3. Better(c, s)
            BY <1>0, <3>1, <3>2 DEF Better, Upgrades, IsShort, IsLong
        <3> QED BY <1>0, <3>1, <3>3
    <2>3. CASE a = "standby"
        <3>1. r = [q EXCEPT !.standby = c] /\ s = q.standby
            BY <1>0, <1>2, <2>3 DEF Place, InSlots, PairInv, Pair
        <3>2. Usable(s, sel, t) => Better(c, s)
            BY <2>3, <3>1 DEF Placement
        <3>3. c \in InSlots(r)
            BY <1>0, <3>1 DEF InSlots, PairInv, Pair
        <3> QED BY <1>0, <3>2, <3>3
    <2>4. CASE a \notin AcceptedActions
        BY <1>0, <1>2, <2>4 DEF Place, AcceptedActions
    <2> QED BY <2>1, <2>2, <2>3, <2>4 DEF AcceptedActions
<1> QED BY <1>1, <1>2
==============================================================================
