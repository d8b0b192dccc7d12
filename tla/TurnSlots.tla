------------------------------ MODULE TurnSlots ------------------------------
(***************************************************************************)
(* The rules by which one key (credential, exact model) keeps its turn     *)
(* states (src/slots.go, src/guard.go): when a state may be used, which of *)
(* two states is better, and what the active/standby pair becomes when the *)
(* standby is promoted, a new state is offered, or a used state turns out  *)
(* to belong to another model.  Everything here is a pure operator; the    *)
(* modules that EXTEND this one supply the clock and the selection.        *)
(*                                                                         *)
(* A turn state is a Fernet token.  Its length (292 or 332 characters, 10  *)
(* or 12 cipher blocks) and its issuance time are read from the token, so  *)
(* they are functions of the token here.                                   *)
(***************************************************************************)
EXTENDS Integers

CONSTANTS
    Values,             \* tokens that parse, of an accepted length
    Short,              \* the tokens of 292 characters; the others have 332
    Issued,             \* issuance time embedded in each token
    Identities,         \* credential identities (auth file + account), as hashes
    NoState,            \* an empty slot
    TTL,                \* turnStateTTL: lifetime of a token from its issuance
    Skew,               \* how far in the future an issuance may lie
    Prefer292,          \* option prefer_292
    StandbyEnabled,     \* option standby_enabled
    RequireModelMatch   \* option require_model_match

ASSUME SlotAssumption ==
    /\ Short \subseteq Values
    /\ Issued \in [Values -> Nat]
    /\ TTL \in Nat /\ Skew \in Nat
    /\ {Prefer292, StandbyEnabled, RequireModelMatch} \subseteq BOOLEAN

\* What the response said about the model that executed it.
Evidence == {"match", "mismatch", "missing"}
Sources == {"business", "probe"}

State == [value : Values, identity : Identities, model : Evidence, source : Sources]
Slot == State \cup {NoState}
Pair == [active : Slot, standby : Slot]

ASSUME NoStateAssumption == NoState \notin State

EmptyPair == [active |-> NoState, standby |-> NoState]

InSlots(p) == {p.active, p.standby} \ {NoState}

ModelRejection(evidence) ==
    IF ~RequireModelMatch \/ evidence = "match" THEN ""
    ELSE IF evidence = "missing" THEN "model_evidence_missing" ELSE "model_mismatch"

\* Mutant: a token is kept to the very end of its lifetime.
FreshToTheEnd(v, now) == Issued[v] <= now + Skew /\ now <= Issued[v] + TTL

\* sel: the identities the saved selection admits for this key.
Fresh(v, now) == Issued[v] <= now + Skew /\ now < Issued[v] + TTL

Valid(s, now) ==
    /\ s # NoState
    /\ Fresh(s.value, now)
    /\ ModelRejection(s.model) = ""

Usable(s, sel, now) == Valid(s, now) /\ s.identity \in sel

IsShort(s) == s # NoState /\ s.value \in Short
IsLong(s) == s # NoState /\ s.value \notin Short

\* An active 332 gives way to a 292 whatever their ages.
Upgrades(new, active) == Prefer292 /\ IsShort(new) /\ IsLong(active)

Better(candidate, old) ==
    \/ old = NoState
    \/ /\ old # NoState
       /\ candidate.value # old.value
       /\ IF Prefer292 /\ IsShort(candidate) # IsShort(old)
          THEN IsShort(candidate)
          ELSE Issued[candidate.value] >= Issued[old.value]

Promotable(p, sel, now) ==
    /\ Usable(p.standby, sel, now)
    /\ ~Usable(p.active, sel, now) \/ Upgrades(p.standby, p.active)

Promote(p, sel, now) ==
    IF Promotable(p, sel, now)
    THEN [active  |-> p.standby,
          standby |-> IF /\ Usable(p.active, sel, now)
                         /\ Issued[p.active.value] > Issued[p.standby.value]
                      THEN p.active ELSE NoState]
    ELSE p

\* Mutant: only the standby is compared with the offered token.
HoldsStandby(p, v) == p.standby # NoState /\ p.standby.value = v

Holds(p, v) == \E s \in {p.active, p.standby} : s # NoState /\ s.value = v

\* Mutant: a 332 is not replaced by a 292 of another age.
PlacementByAge(p, c, sel, now) ==
    IF Holds(p, c.value) THEN "duplicate"
    ELSE IF ~Usable(p.active, sel, now) THEN "active"
    ELSE IF Issued[c.value] < Issued[p.active.value] THEN "older" ELSE "standby"

\* Mutant: the newest state always takes the standby slot.
PlacementReplacing(p, c, sel, now) ==
    IF Holds(p, c.value) THEN "duplicate"
    ELSE IF ~Usable(p.active, sel, now) THEN "active"
    ELSE IF Upgrades(c, p.active) THEN "upgraded_292"
    ELSE IF Issued[c.value] < Issued[p.active.value] THEN "older" ELSE "standby"

\* Where a usable candidate goes, given the pair after promotion.
Placement(p, c, sel, now) ==
    IF Holds(p, c.value) THEN "duplicate"
    ELSE IF ~Usable(p.active, sel, now) THEN "active"
    ELSE IF Upgrades(c, p.active) THEN "upgraded_292"
    ELSE IF ~StandbyEnabled
         THEN IF Better(c, p.active) THEN "active" ELSE "older"
    ELSE IF Issued[c.value] < Issued[p.active.value] THEN "older"
    ELSE IF ~Usable(p.standby, sel, now) \/ Better(c, p.standby) THEN "standby"
    ELSE "lower_priority"

Place(p, c, action, sel, now) ==
    CASE action = "active" ->
            [active  |-> c,
             standby |-> IF Usable(p.active, sel, now) THEN p.standby ELSE NoState]
      [] action = "upgraded_292" ->
            [active  |-> c,
             standby |-> IF Better(p.active, p.standby) THEN p.active ELSE p.standby]
      [] action = "standby" -> [p EXCEPT !.standby = c]
      [] OTHER -> p

\* Mutant: the pair is not promoted before the candidate is placed.
AcceptUnpromoted(p, c, sel, now) ==
    IF Usable(c, sel, now) THEN Place(p, c, Placement(p, c, sel, now), sel, now) ELSE p

\* acceptStateLocked
Accept(p, c, sel, now) ==
    IF Usable(c, sel, now)
    THEN LET q == Promote(p, sel, now)
         IN  Place(q, c, Placement(q, c, sel, now), sel, now)
    ELSE p

AcceptedActions == {"active", "upgraded_292", "standby"}

\* Drop the slots that hold exactly the value a request used, then promote.
Matches(s, v, identity) == s # NoState /\ s.value = v /\ s.identity = identity

\* Mutant: a value that was demoted to the standby slot is not looked for.
WithoutActive(p, v, identity) ==
    [p EXCEPT !.active = IF Matches(p.active, v, identity) THEN NoState ELSE p.active]

\* Mutant: the whole key is cleared.
WithoutKey(p, v, identity) ==
    IF Matches(p.active, v, identity) \/ Matches(p.standby, v, identity)
    THEN EmptyPair ELSE p

Without(p, v, identity) ==
    [active  |-> IF Matches(p.active, v, identity) THEN NoState ELSE p.active,
     standby |-> IF Matches(p.standby, v, identity) THEN NoState ELSE p.standby]

Invalidate(p, v, identity, sel, now) ==
    IF Without(p, v, identity) = p THEN p
    ELSE Promote(Without(p, v, identity), sel, now)
==============================================================================
