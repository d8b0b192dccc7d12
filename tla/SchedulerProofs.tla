--------------------------- MODULE SchedulerProofs ---------------------------
(***************************************************************************)
(* Theorems about Scheduler, for any keys, limits and delays.              *)
(***************************************************************************)
EXTENDS Scheduler, FiniteSetTheorems, WellFoundedInduction, TLAPS

Times == [refresh : Int, retry : Int, block : Int]

\* As long as a failure asks for backoff, the spacing or the backoff of the
\* key lasts no less.
Guarded(t, c) == c > 0 => t.retry >= c \/ t.block >= c

IInv ==
    /\ at \in [Keys -> Times] /\ cooling \in [Keys -> Nat]
    /\ \A k \in Keys : Guarded(at[k], cooling[k])

----------------------------------------------------------------------------
(* Times.                                                                  *)

\* The later of some times.
LEMMA MaxOfThree ==
    ASSUME NEW a \in Int, NEW b \in Int, NEW c \in Int
    PROVE  /\ Max({a, b, c}) \in {a, b, c}
           /\ Max({a, b, c}) >= a /\ Max({a, b, c}) >= b /\ Max({a, b, c}) >= c
<1> DEFINE S == {a, b, c}
<1>1. \E m \in S : \A y \in S : m >= y
    <2>1. CASE a >= b /\ a >= c
        BY <2>1
    <2>2. CASE b >= a /\ b >= c
        BY <2>2
    <2>3. CASE c >= a /\ c >= b
        BY <2>3
    <2> QED BY <2>1, <2>2, <2>3
<1>2. Max(S) \in S /\ \A y \in S : Max(S) >= y
    BY <1>1, Zenon DEF Max
<1> QED BY <1>2

LEMMA MaxOfTwo ==
    ASSUME NEW a \in Int, NEW b \in Int
    PROVE  Max({a, b}) \in {a, b} /\ Max({a, b}) >= a /\ Max({a, b}) >= b
<1>1. {a, b} = {a, b, b}
    OBVIOUS
<1> QED BY <1>1, MaxOfThree

\* The times that stand for the zero time lie behind.
LEMMA ZeroIsPast == Zero \in Int /\ Spent \in Int /\ Zero < Spent /\ Spent < 0
<1>1. Cardinality(Keys) \in Nat
    BY SchedulerAssumption, FS_CardinalityType
<1> QED BY <1>1 DEF Zero, Spent

LEMMA RanksAreIntegers ==
    ASSUME NEW c \in [Keys -> Times], NEW t \in Int
    PROVE  Cardinality({u \in Past(c) : t < u}) \in Nat
<1>1. Past(c) \subseteq Spent .. 0
    BY ZeroIsPast DEF Past, Times
<1>2. IsFiniteSet(Spent .. 0)
    BY ZeroIsPast, FS_Interval
<1>3. IsFiniteSet({u \in Past(c) : t < u})
    BY <1>1, <1>2, FS_Subset
<1> QED BY <1>3, FS_CardinalityType

\* Settling drops and renames what is past, and no more.
LEMMA SettleKeeps ==
    ASSUME NEW c \in [Keys -> Times], NEW cool \in [Keys -> Nat],
           \A k \in Keys : Guarded(c[k], cool[k]), Settle(c)
    PROVE  at' \in [Keys -> Times] /\ \A k \in Keys : Guarded(at'[k], cool[k])
<1> DEFINE kept == [k \in Keys |-> Trimmed(c[k])]
           past == Past(kept)
<1>1. at' = [k \in Keys |-> [refresh |-> Ranked(kept[k].refresh, past),
                             retry |-> Ranked(kept[k].retry, past),
                             block |-> Ranked(kept[k].block, past)]]
    BY DEF Settle
<1>2. \A k \in Keys : Trimmed(c[k]) \in Times /\ Guarded(Trimmed(c[k]), cool[k])
    <2> SUFFICES ASSUME NEW k \in Keys
                 PROVE  Trimmed(c[k]) \in Times /\ Guarded(Trimmed(c[k]), cool[k])
        OBVIOUS
    <2>1. c[k] \in Times /\ cool[k] \in Nat /\ Guarded(c[k], cool[k])
        OBVIOUS
    <2> DEFINE t == c[k]
    <2> HIDE DEF t
    <2>2. t \in Times /\ cool[k] \in Nat /\ Guarded(t, cool[k])
        BY <2>1 DEF t
    <2>3. /\ Trimmed(t).refresh \in {Spent, t.refresh} /\ Trimmed(t).retry = t.retry
          /\ Trimmed(t).block = IF t.block <= t.retry THEN Zero ELSE t.block
          /\ Trimmed(t) = [refresh |-> Trimmed(t).refresh, retry |-> Trimmed(t).retry,
                           block |-> Trimmed(t).block]
        BY DEF Trimmed
    <2>4. Trimmed(t) \in Times
        BY <2>2, <2>3, ZeroIsPast DEF Times
    <2>5. Guarded(Trimmed(t), cool[k])
        BY <2>2, <2>3, ZeroIsPast DEF Times, Guarded
    <2> QED BY <2>4, <2>5 DEF t
<1>3. kept \in [Keys -> Times]
    BY <1>2
<1>4. \A t \in Int : Ranked(t, past) \in Int /\ (t > 0 => Ranked(t, past) = t)
    <2> SUFFICES ASSUME NEW t \in Int
                 PROVE  Ranked(t, past) \in Int /\ (t > 0 => Ranked(t, past) = t)
        OBVIOUS
    <2>1. Cardinality({u \in past : t < u}) \in Nat
        BY <1>3, RanksAreIntegers
    <2>2. t > 0 => t \notin past
        BY DEF Past
    <2> QED BY <2>1, <2>2 DEF Ranked
<1> HIDE DEF past
<1>5. ASSUME NEW k \in Keys PROVE at'[k] \in Times /\ Guarded(at'[k], cool[k])
    <2>1. kept[k] \in Times /\ Guarded(kept[k], cool[k]) /\ cool[k] \in Nat
        BY <1>2
    <2> HIDE DEF kept
    <2>2. at'[k] = [refresh |-> Ranked(kept[k].refresh, past),
                    retry |-> Ranked(kept[k].retry, past),
                    block |-> Ranked(kept[k].block, past)]
        BY <1>1
    <2> QED BY <1>4, <2>1, <2>2 DEF Times, Guarded
<1>6. at' = [k \in Keys |-> at'[k]]
    BY <1>1
<1> QED BY <1>5, <1>6

----------------------------------------------------------------------------
(* Steps.                                                                  *)

\* A key that may be tried has no backoff left.
LEMMA DueIsCool ==
    ASSUME IInv, NEW k \in Keys, NextRefresh(k) <= 0 \/ ManualDue(k) <= 0
    PROVE  cooling[k] = 0
<1>1. at[k] \in Times /\ cooling[k] \in Nat /\ Guarded(at[k], cooling[k])
    BY DEF IInv
<1>2. AcquisitionDue(k) \in Int
    BY <1>1, ZeroIsPast DEF AcquisitionDue, Times
<1>3. NextRefresh(k) >= at[k].retry /\ NextRefresh(k) >= at[k].block /\ NextRefresh(k) \in Int
    BY <1>1, <1>2, MaxOfThree DEF NextRefresh, Times
<1>4. ManualDue(k) >= at[k].retry /\ ManualDue(k) >= at[k].block /\ ManualDue(k) \in Int
    BY <1>1, MaxOfTwo DEF ManualDue, Times
<1> QED BY <1>1, <1>3, <1>4 DEF Guarded, Times

\* The times of one key change, and what still guards it does not.
LEMMA OneKey ==
    ASSUME IInv, NEW k \in Keys, NEW t \in Times, NEW n \in Nat, Guarded(t, n),
           Settle([at EXCEPT ![k] = t]), cooling' = [cooling EXCEPT ![k] = n]
    PROVE  IInv'
<1> DEFINE c == [at EXCEPT ![k] = t]
<1>1. c \in [Keys -> Times] /\ cooling' \in [Keys -> Nat]
    BY DEF IInv
<1>2. \A j \in Keys : Guarded(c[j], cooling'[j])
    BY DEF IInv
<1> QED BY <1>1, <1>2, SettleKeeps DEF IInv

\* A task begins.
LEMMA StartKeeps ==
    ASSUME IInv, NEW k, k \in Keys => cooling[k] = 0, Start(k), UNCHANGED cooling
    PROVE  IInv'
<1>1. CASE k \in Keys
    <2> DEFINE t == [at[k] EXCEPT !.retry = Retry]
    <2>1. [at EXCEPT ![k].retry = Retry] = [at EXCEPT ![k] = t]
        BY DEF IInv
    <2>2. t \in Times /\ Guarded(t, 0)
        BY <1>1, SchedulerAssumption DEF IInv, Times, Guarded
    <2>3. cooling' = [cooling EXCEPT ![k] = 0]
        BY <1>1 DEF IInv
    <2> QED BY <1>1, <2>1, <2>2, <2>3, OneKey DEF Start
<1>2. CASE k \notin Keys
    <2>1. [at EXCEPT ![k].retry = Retry] = at
        BY <1>2 DEF IInv
    <2> QED BY <2>1, SettleKeeps DEF Start, IInv
<1> QED BY <1>1, <1>2

\* A failure asks for backoff.
LEMMA BackOffKeeps ==
    ASSUME IInv, NEW k \in Keys, BackOff(k)
    PROVE  IInv'
<1> DEFINE t == [at[k] EXCEPT !.block = Backoff]
<1>1. [at EXCEPT ![k].block = Backoff] = [at EXCEPT ![k] = t]
    BY DEF IInv
<1>2. t \in Times /\ Guarded(t, Backoff) /\ Backoff \in Nat
    BY SchedulerAssumption DEF IInv, Times, Guarded
<1> QED BY <1>1, <1>2, OneKey DEF BackOff

\* The states of a key change, the backoff does not.
LEMMA RefreshKeeps ==
    ASSUME IInv, NEW k \in Keys, NEW r \in Int, Settle([at EXCEPT ![k].refresh = r]),
           UNCHANGED cooling
    PROVE  IInv'
<1> DEFINE t == [at[k] EXCEPT !.refresh = r]
<1>1. [at EXCEPT ![k].refresh = r] = [at EXCEPT ![k] = t]
    BY DEF IInv
<1>2. t \in Times /\ Guarded(t, cooling[k])
    BY DEF IInv, Times, Guarded
<1>3. cooling' = [cooling EXCEPT ![k] = cooling[k]] /\ cooling[k] \in Nat
    BY DEF IInv
<1> QED BY <1>1, <1>2, <1>3, OneKey

\* New states are to be renewed at some time.
LEMMA RenewalIsInt == Renewal \subseteq Int
  BY ZeroIsPast DEF Renewal

\* A task ends.
LEMMA EndKeeps ==
    ASSUME IInv, NEW k \in Keys, NEW outcome \in Outcomes, End(k, outcome)
    PROVE  IInv'
<1>1. CASE \E r \in Renewal \cup ({at[k].refresh} \ {Zero}) :
              Settle([at EXCEPT ![k].refresh = r, ![k].block = Zero])
           /\ cooling' = [cooling EXCEPT ![k] = 0]
    <2> PICK r \in Renewal \cup ({at[k].refresh} \ {Zero}) :
            Settle([at EXCEPT ![k].refresh = r, ![k].block = Zero])
        BY <1>1
    <2> DEFINE t == [[at[k] EXCEPT !.refresh = r] EXCEPT !.block = Zero]
    <2>1. [at EXCEPT ![k].refresh = r, ![k].block = Zero] = [at EXCEPT ![k] = t]
        BY DEF IInv
    <2>2. r \in Int
        BY RenewalIsInt DEF IInv, Times
    <2>3. t \in Times /\ Guarded(t, 0)
        BY <2>2, ZeroIsPast DEF IInv, Times, Guarded
    <2> QED BY <1>1, <2>1, <2>3, OneKey
<1>2. CASE UNCHANGED <<at, cooling>>
    BY <1>2 DEF IInv
<1>3. CASE BackOff(k)
    BY <1>3, BackOffKeeps
<1> QED BY <1>1, <1>2, <1>3 DEF End

\* complete invalidates a state.
LEMMA MismatchKeeps ==
    ASSUME IInv, NEW k \in Keys, NEW failure \in Failures, Mismatch(k, failure)
    PROVE  IInv'
<1> PICK r \in Renewal \cup {Zero} :
        Settle([at EXCEPT ![k].refresh = r,
                          ![k].block = IF failure = "rate_limit" THEN Backoff ELSE @])
    BY DEF Mismatch
<1> DEFINE b == IF failure = "rate_limit" THEN Backoff ELSE at[k].block
           n == IF failure = "rate_limit" THEN Backoff ELSE cooling[k]
           t == [[at[k] EXCEPT !.refresh = r] EXCEPT !.block = b]
<1>1. [at EXCEPT ![k].refresh = r,
                 ![k].block = IF failure = "rate_limit" THEN Backoff ELSE @]
      = [at EXCEPT ![k] = t]
    BY DEF IInv
<1>2. r \in Int
    BY RenewalIsInt, ZeroIsPast
<1>3. t \in Times /\ n \in Nat /\ Guarded(t, n)
    BY <1>2, SchedulerAssumption DEF IInv, Times, Guarded
<1>4. cooling' = [cooling EXCEPT ![k] = n]
    BY DEF Mismatch, IInv
<1> QED BY <1>1, <1>3, <1>4, OneKey

\* A second passes.
LEMMA TickKeeps == ASSUME IInv, Tick PROVE IInv'
<1> DEFINE c == [k \in Keys |-> [refresh |-> Later(at[k].refresh), retry |-> Later(at[k].retry),
                                 block |-> Later(at[k].block)]]
<1>1. \A t \in Int : Later(t) \in Int /\ (t > 0 => Later(t) = t - 1)
    BY ZeroIsPast DEF Later
<1>2. ASSUME NEW k \in Keys
      PROVE  /\ cooling'[k] \in Nat
             /\ cooling'[k] > 0 => cooling'[k] = cooling[k] - 1 /\ cooling[k] > 0
    <2>1. cooling[k] \in Nat /\ cooling'[k] = Max({0, cooling[k] - 1})
        BY DEF IInv, Tick
    <2> DEFINE n == cooling[k] - 1
    <2>2. 0 \in Int /\ n \in Int /\ n = cooling[k] - 1 /\ cooling'[k] = Max({0, n})
        BY <2>1
    <2> HIDE DEF n
    <2>3. Max({0, n}) \in {0, n} /\ Max({0, n}) >= 0
        BY <2>2, MaxOfTwo, Zenon
    <2>4. cooling'[k] = 0 \/ cooling'[k] = n
        BY <2>2, <2>3
    <2>5. cooling'[k] >= 0
        BY <2>2, <2>3
    <2> QED BY <2>1, <2>2, <2>4, <2>5
<1>3. cooling' \in [Keys -> Nat]
    BY <1>2 DEF Tick
<1>4. ASSUME NEW k \in Keys PROVE c[k] \in Times /\ Guarded(c[k], cooling'[k])
    <2>1. at[k] \in Times /\ cooling[k] \in Nat /\ Guarded(at[k], cooling[k])
        BY DEF IInv
    <2> QED BY <1>1, <1>2, <2>1 DEF Times, Guarded
<1>5. c \in [Keys -> Times] /\ Settle(c)
    BY <1>4 DEF Tick
<1> QED BY <1>3, <1>4, <1>5, SettleKeeps DEF IInv

\* Every step keeps the inductive invariant.
LEMMA InductiveStep == IInv /\ [Next]_vars => IInv'
<1> SUFFICES ASSUME IInv, [Next]_vars PROVE IInv'
    OBVIOUS
<1>1. CASE TryJob
    <2>1. CASE Startable(Head(jobs), NextRefresh(Head(jobs))) /\ Start(Head(jobs))
        BY <1>1, <2>1, DueIsCool, StartKeeps DEF TryJob, Startable
    <2>2. CASE UNCHANGED at
        BY <1>1, <2>2 DEF TryJob, IInv
    <2> QED BY <1>1, <2>1, <2>2 DEF TryJob
<1>2. CASE Tick
    BY <1>2, TickKeeps
<1>3. ASSUME NEW k \in Keys, NEW outcome \in Outcomes, End(k, outcome) PROVE IInv'
    BY <1>3, EndKeeps
<1>4. ASSUME NEW k \in Keys, Manual(k) PROVE IInv'
    BY <1>4, DueIsCool, StartKeeps DEF Manual, Startable
<1>5. ASSUME NEW k \in Keys, Expire(k) PROVE IInv'
    BY <1>5, RefreshKeeps, ZeroIsPast DEF Expire
<1>6. ASSUME NEW k \in Busy, NEW limited \in BOOLEAN, QueueRefresh(k, limited) PROVE IInv'
    BY <1>6, BackOffKeeps, SchedulerAssumption DEF QueueRefresh, IInv
<1>7. ASSUME NEW k \in Busy, Capture(k) PROVE IInv'
    <2>1. k \in Keys
        BY SchedulerAssumption
    <2>2. PICK r \in Renewal \cup {at[k].refresh} : Settle([at EXCEPT ![k].refresh = r])
        BY <1>7 DEF Capture
    <2>3. r \in Int
        BY <2>1, RenewalIsInt DEF IInv, Times
    <2> QED BY <1>7, <2>1, <2>2, <2>3, RefreshKeeps DEF Capture
<1>8. ASSUME NEW k \in Busy, NEW failure \in Failures, Mismatch(k, failure) PROVE IInv'
    BY <1>8, MismatchKeeps, SchedulerAssumption
<1>9. CASE \/ Wakes \/ Sleep \/ CancelAll
           \/ \E listed \in BOOLEAN : Snapshot(listed)
           \/ \E S \in Selections : UpdateSelection(S)
           \/ \E k \in Keys : Release(k)
           \/ UNCHANGED vars
    BY <1>9 DEF Wakes, Sleep, CancelAll, Snapshot, UpdateSelection, Release, vars, loop, tasks, IInv
<1> QED BY <1>1, <1>2, <1>3, <1>4, <1>5, <1>6, <1>7, <1>8, <1>9 DEF Next

LEMMA InitIInv == Init => IInv
  BY ZeroIsPast, SchedulerAssumption DEF Init, IInv, Times, Guarded

\* Every reachable state satisfies the inductive invariant.
LEMMA Invariance == Spec => []IInv
  BY InitIInv, InductiveStep, PTL DEF Spec

\* Neither the refresh loop, with a list as old as it may be, nor a click
\* tries a key before the backoff its last failure asked for has passed.
THEOREM BackoffIsHonoured == Spec => BackoffHonoured
<1> DEFINE Cool == \A k \in Keys : k \in probing' \ probing => cooling[k] = 0
<1>1. IInv /\ [Next]_vars => [Cool]_vars
    <2> SUFFICES ASSUME IInv, Next, NEW k \in Keys, k \in probing' \ probing
                 PROVE  cooling[k] = 0
        OBVIOUS
    <2>1. (TryJob /\ k = Head(jobs) /\ Startable(k, NextRefresh(k))) \/ Manual(k)
        BY DEF Next, Wakes, TryJob, Sleep, Tick, CancelAll, Snapshot, UpdateSelection, End, Release,
               Expire, Manual, QueueRefresh, Capture, Mismatch, Start, tasks
    <2> QED BY <2>1, DueIsCool DEF Manual, Startable
<1> QED BY <1>1, Invariance, PTL DEF Spec, BackoffHonoured
----------------------------------------------------------------------------
(* The sleep.                                                              *)

\* When a key with times t is due, asked for or not.
Due(t, asked) == Max({IF asked THEN Zero ELSE t.refresh, t.retry, t.block})

Near(t) == t.refresh <= Longest /\ t.retry <= Longest /\ t.block <= Longest

\* A key that was tried before has its deadline ahead.
Pending(t, asked) == t.retry # Zero /\ Due(t, asked) > 0

\* The loop is to wake for the key.
Needed(k) ==
    k \in selected \ probing /\ (k \in demand \/ k \notin Busy) /\ returning[k] = 0

Covered(k) ==
    worker = "asleep" /\ ~wake /\ Needed(k) /\ Pending(at[k], k \in demand)
    => timer <= Due(at[k], k \in demand)

\* Nothing lies further ahead than the delays allow, and only business
\* requests demand a key.
Cover ==
    /\ \A k \in Keys : Near(at[k]) /\ Covered(k)
    /\ timer \in Int /\ demand \subseteq Busy /\ returning \in [Keys -> Nat]

\* The earlier of two times.
LEMMA MinOfTwo ==
    ASSUME NEW a \in Int, NEW b \in Int
    PROVE  Min({a, b}) \in {a, b} /\ Min({a, b}) <= a /\ Min({a, b}) <= b
<1>1. \E m \in {a, b} : \A y \in {a, b} : m <= y
    <2>1. CASE a <= b
        BY <2>1
    <2>2. CASE b <= a
        BY <2>2
    <2> QED BY <2>1, <2>2
<1>2. Min({a, b}) \in {a, b} /\ \A y \in {a, b} : Min({a, b}) <= y
    BY <1>1, Zenon DEF Min
<1> QED BY <1>2

\* A set of numbers has a least one.
LEMMA MinOfNaturals ==
    ASSUME NEW S \in SUBSET Nat, S # {}
    PROVE  Min(S) \in S /\ \A y \in S : Min(S) <= y
<1> DEFINE below == {0 .. x : x \in S}
<1> PICK z \in S : TRUE
    OBVIOUS
<1>1. z \in Nat /\ 0 .. z \in below /\ IsFiniteSet(0 .. z)
    BY FS_Interval
<1> DEFINE T == {i \in below : i \subseteq 0 .. z}
<1>2. T \subseteq FiniteSubsetsOf(0 .. z) /\ T # {}
    BY <1>1, FS_Subset DEF FiniteSubsetsOf
<1>3. PICK m \in T : \A i \in T : ~(<<i, m>> \in StrictSubsetOrdering(0 .. z))
    BY <1>2, WFMin, FS_StrictSubsetOrderingWellFounded
<1>4. PICK x \in S : m = 0 .. x
    OBVIOUS
<1>5. \A y \in S : x <= y
    <2> SUFFICES ASSUME NEW y \in S, y < x PROVE FALSE
        OBVIOUS
    <2>1. 0 .. y \subseteq m /\ 0 .. y # m /\ 0 .. y \in T
        BY <1>4
    <2>2. <<0 .. y, m>> \in StrictSubsetOrdering(0 .. z)
        BY <2>1 DEF StrictSubsetOrdering
    <2> QED BY <1>3, <2>1, <2>2
<1> QED BY <1>5 DEF Min

\* A due time is the latest of those that count.
LEMMA DueIsLatest ==
    ASSUME NEW t \in Times, NEW asked \in BOOLEAN
    PROVE  /\ Due(t, asked) \in {IF asked THEN Zero ELSE t.refresh, t.retry, t.block}
           /\ Due(t, asked) \in Int
           /\ ~asked => Due(t, asked) >= t.refresh
           /\ Due(t, asked) >= t.retry /\ Due(t, asked) >= t.block
<1> DEFINE r == IF asked THEN Zero ELSE t.refresh
           p == t.retry
           q == t.block
           d == Due(t, asked)
<1>1. r \in Int /\ p \in Int /\ q \in Int
    BY ZeroIsPast DEF Times
<1>2. d = Max({r, p, q})
    BY DEF Due
<1> HIDE DEF r, p, q, d
<1>3. d \in {r, p, q} /\ d >= r /\ d >= p /\ d >= q
    BY <1>1, <1>2, MaxOfThree, Zenon
<1>4. d \in Int
    BY <1>1, <1>3
<1> QED BY <1>3, <1>4 DEF r, p, q, d

\* The longest delay is one of them and lies ahead.
LEMMA LongestIsAhead ==
    /\ Longest \in Int /\ Longest > 0
    /\ Retry <= Longest /\ Backoff <= Longest /\ Life <= Longest
    /\ Zero <= Longest /\ Spent <= Longest
<1>1. Retry \in Nat /\ Backoff \in Nat /\ Life \in Nat /\ Retry > 0
    BY SchedulerAssumption
<1> QED BY <1>1, MaxOfThree, ZeroIsPast DEF Longest

\* Settling moves no deadline that lies ahead.
LEMMA SettleMovesNoDeadline ==
    ASSUME NEW c \in [Keys -> Times], Settle(c), NEW k \in Keys
    PROVE  /\ at'[k] \in Times
           /\ Near(c[k]) => Near(at'[k])
           /\ c[k].retry = Zero => at'[k].retry = Zero
           /\ \A asked \in BOOLEAN : Due(at'[k], asked) > 0 => Due(at'[k], asked) = Due(c[k], asked)
<1> DEFINE kept == [j \in Keys |-> Trimmed(c[j])]
           past == Past(kept)
           t == c[k]
           u == kept[k]
<1>1. at' = [j \in Keys |-> [refresh |-> Ranked(kept[j].refresh, past),
                             retry |-> Ranked(kept[j].retry, past),
                             block |-> Ranked(kept[j].block, past)]]
    BY DEF Settle
<1>2. t \in Times
    OBVIOUS
<1>3. ASSUME NEW j \in Keys PROVE Trimmed(c[j]) \in Times
    <2> DEFINE v == c[j]
    <2>1. v \in Times
        OBVIOUS
    <2> HIDE DEF v
    <2>2. Trimmed(v) \in Times
        BY <2>1, ZeroIsPast DEF Times, Trimmed
    <2> QED BY <2>2 DEF v
<1>4. kept \in [Keys -> Times]
    BY <1>3
<1>5. ASSUME NEW n \in Int
      PROVE  /\ Ranked(n, past) \in Int /\ (n > 0 => Ranked(n, past) = n)
             /\ (n <= 0 => Ranked(n, past) <= 0) /\ (n = Zero => Ranked(n, past) = Zero)
    <2>1. Cardinality({i \in past : n < i}) \in Nat
        BY <1>4, RanksAreIntegers
    <2>2. n > 0 \/ n = Zero => n \notin past
        BY ZeroIsPast DEF Past
    <2> QED BY <2>1, <2>2 DEF Ranked
<1>6. u = Trimmed(t) /\ u \in Times
    BY <1>3
<1>7. Min({0, t.retry}) <= 0 /\ Min({0, t.retry}) \in Int
    <2> DEFINE m == t.retry
    <2>1. m \in Int
        BY <1>2 DEF Times
    <2> HIDE DEF m
    <2>2. Min({0, m}) \in {0, m} /\ Min({0, m}) <= 0
        BY <2>1, MinOfTwo
    <2> QED BY <2>1, <2>2 DEF m
<1>8. /\ u.retry = t.retry
      /\ u.refresh = t.refresh \/ (u.refresh = Spent /\ t.refresh <= 0)
      /\ u.block = t.block \/ (u.block = Zero /\ t.block <= t.retry)
    BY <1>2, <1>6, <1>7 DEF Trimmed, Times
<1> DEFINE w == at'[k]
<1>9. /\ w.refresh = Ranked(u.refresh, past) /\ w.retry = Ranked(u.retry, past)
       /\ w.block = Ranked(u.block, past)
       /\ w = [refresh |-> w.refresh, retry |-> w.retry, block |-> w.block]
    BY <1>1
<1> HIDE DEF t, u, w, past, kept
<1>10. /\ w \in Times
       /\ u.refresh \in Int /\ u.retry \in Int /\ u.block \in Int
       /\ w.refresh \in Int /\ w.retry \in Int /\ w.block \in Int
       /\ t.refresh \in Int /\ t.retry \in Int /\ t.block \in Int
    BY <1>2, <1>5, <1>6, <1>9 DEF Times
<1>11. t.retry = Zero => w.retry = Zero
    BY <1>5, <1>8, <1>9, <1>10
<1>12. /\ w.refresh = t.refresh \/ (w.refresh <= 0 /\ t.refresh <= 0)
       /\ w.retry = t.retry \/ (w.retry <= 0 /\ t.retry <= 0)
       /\ w.block = t.block \/ (w.block <= 0 /\ (t.block <= 0 \/ t.block <= t.retry))
    BY <1>5, <1>8, <1>9, <1>10, ZeroIsPast
<1>13. Near(t) => Near(w)
    BY <1>10, <1>12, LongestIsAhead DEF Near
<1>14. ASSUME NEW asked \in BOOLEAN, Due(w, asked) > 0 PROVE Due(w, asked) = Due(t, asked)
    <2>1. /\ Due(w, asked) \in {IF asked THEN Zero ELSE w.refresh, w.retry, w.block}
          /\ Due(w, asked) \in Int
          /\ ~asked => Due(w, asked) >= w.refresh
          /\ Due(w, asked) >= w.retry /\ Due(w, asked) >= w.block
        BY <1>10, DueIsLatest
    <2>2. /\ Due(t, asked) \in {IF asked THEN Zero ELSE t.refresh, t.retry, t.block}
          /\ Due(t, asked) \in Int
          /\ ~asked => Due(t, asked) >= t.refresh
          /\ Due(t, asked) >= t.retry /\ Due(t, asked) >= t.block
        BY <1>2, DueIsLatest
    <2> QED BY <1>10, <1>12, <1>14, <2>1, <2>2, ZeroIsPast
<1> QED BY <1>10, <1>11, <1>13, <1>14 DEF t, w
\* While the loop is awake, only the range of the times matters.
LEMMA AwakeKeepsCover ==
    ASSUME Cover, NEW c \in [Keys -> Times], \A j \in Keys : Near(c[j]), Settle(c),
           worker' # "asleep", timer' \in Int, UNCHANGED <<demand, returning>>
    PROVE  Cover'
<1>1. \A j \in Keys : Near(at'[j])
    BY SettleMovesNoDeadline
<1> QED BY <1>1 DEF Cover, Covered, Near, Longest

\* The times of one key change: the deadlines of the others stay covered, and
\* its own is if the loop still needs it.
LEMMA OneKeyCovered ==
    ASSUME IInv, Cover, NEW k \in Keys, NEW t \in Times, Near(t), Settle([at EXCEPT ![k] = t]),
           UNCHANGED <<worker, timer, selected>>, wake => wake',
           demand' \subseteq Busy, returning' \in [Keys -> Nat],
           \A j \in Keys \ {k} : /\ j \in demand' <=> j \in demand
                                 /\ j \in probing' <=> j \in probing
                                 /\ returning'[j] = returning[j],
           worker = "asleep" /\ ~wake' /\ Needed(k)' /\ Pending(t, k \in demand')
               => timer <= Due(t, k \in demand')
    PROVE  Cover'
<1> DEFINE c == [at EXCEPT ![k] = t]
<1>1. c \in [Keys -> Times] /\ Settle(c) /\ c[k] = t /\ \A j \in Keys \ {k} : c[j] = at[j]
    BY DEF IInv
<1>2. \A j \in Keys : Near(c[j])
    BY <1>1 DEF Cover
<1> HIDE DEF c
<1>3. \A j \in Keys : Near(at'[j])
    BY <1>1, <1>2, SettleMovesNoDeadline
<1>4. ASSUME NEW j \in Keys, worker' = "asleep", ~wake', Needed(j)', Pending(at'[j], j \in demand')
      PROVE  timer' <= Due(at'[j], j \in demand')
    <2> DEFINE asked == j \in demand'
    <2>1. /\ asked \in BOOLEAN /\ at'[j].retry # Zero /\ Due(at'[j], asked) > 0
          /\ j \in selected' \ probing' /\ (asked \/ j \notin Busy) /\ returning'[j] = 0
        BY <1>4 DEF Needed, Pending, Due, Zero
    <2>2. c[j].retry # Zero /\ Due(at'[j], asked) = Due(c[j], asked)
        BY <1>1, <2>1, SettleMovesNoDeadline
    <2>3. CASE j = k
        <3>1. Needed(k)' /\ Pending(t, k \in demand')
            BY <1>1, <2>1, <2>2, <2>3 DEF Needed, Pending, Due, Zero
        <3> QED BY <1>1, <1>4, <2>2, <2>3, <3>1
    <2>4. CASE j # k
        <3>1. Needed(j) /\ Pending(at[j], j \in demand) /\ asked = (j \in demand)
            BY <1>1, <2>1, <2>2, <2>4 DEF Needed, Pending
        <3> QED BY <1>1, <1>4, <2>2, <2>4, <3>1 DEF Cover, Covered
    <2> QED BY <2>3, <2>4
<1>5. \A j \in Keys : Covered(j)'
    BY <1>4 DEF Covered, Due, Zero
<1> QED BY <1>3, <1>5 DEF Cover, Near, Longest

\* The loop goes to sleep.
LEMMA SleepCovers == ASSUME IInv, Cover, Sleep PROVE Cover'
<1> DEFINE S == (Tracked \cap selected) \ probing
           ahead == {Poll} \cup Ahead(S)
<1>1. ahead \subseteq Nat /\ ahead # {}
    BY SchedulerAssumption, LongestIsAhead DEF Ahead
<1>2. Min(ahead) \in Nat /\ \A y \in ahead : Min(ahead) <= y
    <2> HIDE DEF ahead
    <2> QED BY <1>1, MinOfNaturals
<1>3. timer' = Min(ahead)
    BY DEF Sleep, NextWakeDelay
<1>4. ASSUME NEW k \in Keys, Needed(k), Pending(at[k], k \in demand) PROVE timer' <= Due(at[k], k \in demand)
    <2>1. k \in S /\ NextRefresh(k) = Due(at[k], k \in demand)
        BY <1>4 DEF Needed, Pending, Tracked, NextRefresh, AcquisitionDue, Due
    <2>2. at[k] \in Times /\ Near(at[k]) /\ (k \in demand) \in BOOLEAN
        BY DEF IInv, Cover
    <2>3. NextRefresh(k) \in {IF k \in demand THEN Zero ELSE at[k].refresh, at[k].retry, at[k].block}
          /\ NextRefresh(k) \in Int
        BY <2>1, <2>2, DueIsLatest
    <2>4. NextRefresh(k) \in 1..Longest
        BY <1>4, <2>1, <2>2, <2>3, LongestIsAhead DEF Near, Needed, Pending
    <2>5. NextRefresh(k) \in ahead
        BY <2>1, <2>4 DEF Ahead
    <2> QED BY <1>2, <1>3, <2>1, <2>5
<1>5. \A k \in Keys : Near(at'[k])
    BY DEF Cover, Sleep, Near
<1>6. \A k \in Keys : Covered(k)'
    BY <1>4 DEF Sleep, Covered, Needed, Pending, Due, Zero, tasks
<1>7. timer' \in Int /\ UNCHANGED <<demand, returning>>
    BY <1>2, <1>3 DEF Sleep, tasks
<1> QED BY <1>5, <1>6, <1>7 DEF Cover, Near, Longest
\* A second passes, for the sleep as for what it waits for.
LEMMA TickCovers == ASSUME IInv, Cover, Tick PROVE Cover'
<1> DEFINE c == [k \in Keys |-> [refresh |-> Later(at[k].refresh), retry |-> Later(at[k].retry),
                                 block |-> Later(at[k].block)]]
<1>1. \A t \in Int : /\ Later(t) \in Int /\ Later(t) <= t /\ (t > 0 => Later(t) = t - 1)
                     /\ (t <= 0 => Later(t) <= 0) /\ (t = Zero => Later(t) = Zero)
    BY ZeroIsPast DEF Later
<1>2. ASSUME NEW k \in Keys
      PROVE  /\ c[k] \in Times /\ Near(c[k])
             /\ at[k].retry = Zero => c[k].retry = Zero
             /\ \A asked \in BOOLEAN :
                    Due(c[k], asked) > 0 => Due(at[k], asked) = Due(c[k], asked) + 1
    <2> DEFINE t == at[k]
               u == c[k]
    <2>1. t \in Times /\ Near(t)
        BY DEF IInv, Cover
    <2>2. /\ u.refresh = Later(t.refresh) /\ u.retry = Later(t.retry) /\ u.block = Later(t.block)
          /\ u = [refresh |-> u.refresh, retry |-> u.retry, block |-> u.block]
        OBVIOUS
    <2> HIDE DEF t, u
    <2>3. t.refresh \in Int /\ t.retry \in Int /\ t.block \in Int
        BY <2>1 DEF Times
    <2>4. u.refresh \in Int /\ u.retry \in Int /\ u.block \in Int /\ u \in Times
        BY <1>1, <2>2, <2>3 DEF Times
    <2>5. Near(u) /\ (t.retry = Zero => u.retry = Zero)
        BY <1>1, <2>1, <2>2, <2>3, <2>4, LongestIsAhead DEF Near
    <2>6. ASSUME NEW asked \in BOOLEAN, Due(u, asked) > 0 PROVE Due(t, asked) = Due(u, asked) + 1
        <3>1. /\ Due(u, asked) \in {IF asked THEN Zero ELSE u.refresh, u.retry, u.block}
              /\ Due(u, asked) \in Int
              /\ ~asked => Due(u, asked) >= u.refresh
              /\ Due(u, asked) >= u.retry /\ Due(u, asked) >= u.block
            BY <2>4, DueIsLatest
        <3>2. /\ Due(t, asked) \in {IF asked THEN Zero ELSE t.refresh, t.retry, t.block}
              /\ Due(t, asked) \in Int
              /\ ~asked => Due(t, asked) >= t.refresh
              /\ Due(t, asked) >= t.retry /\ Due(t, asked) >= t.block
            BY <2>1, DueIsLatest
        <3> DEFINE After(x, y) == (y > 0 => x = y + 1) /\ (x > 0 => y = x - 1)
        <3>3. After(t.refresh, u.refresh) /\ After(t.retry, u.retry) /\ After(t.block, u.block)
            BY <1>1, <2>2, <2>3, <2>4
        <3> QED BY <2>3, <2>4, <2>6, <3>1, <3>2, <3>3, ZeroIsPast
    <2> QED BY <2>4, <2>5, <2>6 DEF t, u
<1>3. c \in [Keys -> Times] /\ Settle(c)
    BY <1>2 DEF Tick
<1> HIDE DEF c
<1>4. timer' \in Int /\ (timer' = 0 \/ timer' = timer - 1)
    <2> DEFINE n == timer - 1
    <2>1. 0 \in Int /\ n \in Int /\ timer' = Max({0, n})
        BY DEF Cover, Tick
    <2> HIDE DEF n
    <2>2. timer' \in {0, n}
        BY <2>1, MaxOfTwo, Zenon
    <2> QED BY <2>1, <2>2 DEF n
<1>5. ASSUME NEW j \in Keys, worker' = "asleep", ~wake', Needed(j)', Pending(at'[j], j \in demand')
      PROVE  timer' <= Due(at'[j], j \in demand')
    <2> DEFINE asked == j \in demand
    <2>1. /\ asked \in BOOLEAN /\ at'[j].retry # Zero /\ Due(at'[j], asked) > 0
          /\ j \in selected \ probing /\ (asked \/ j \notin Busy) /\ returning[j] = 0
        BY <1>5 DEF Needed, Pending, Due, Zero, Tick, tasks
    <2>2. c[j].retry # Zero /\ Due(at'[j], asked) = Due(c[j], asked)
        BY <1>3, <2>1, SettleMovesNoDeadline
    <2>3. at[j].retry # Zero /\ Due(at[j], asked) = Due(c[j], asked) + 1
        BY <1>2, <2>1, <2>2
    <2>4. c[j] \in Times /\ Due(c[j], asked) \in Int /\ Due(c[j], asked) > 0
        BY <1>2, <2>1, <2>2, DueIsLatest
    <2>5. Needed(j) /\ Pending(at[j], asked)
        BY <2>1, <2>3, <2>4 DEF Needed, Pending
    <2>6. timer <= Due(at[j], asked) /\ timer \in Int
        BY <1>5, <2>5 DEF Cover, Covered, Tick
    <2>7. timer' <= Due(c[j], asked)
        BY <1>4, <2>3, <2>4, <2>6
    <2>8. demand' = demand
        BY DEF Tick
    <2> QED BY <2>2, <2>7, <2>8
<1>6. \A j \in Keys : Covered(j)'
    BY <1>5 DEF Covered, Due, Zero
<1>7. \A j \in Keys : Near(at'[j])
    BY <1>2, <1>3, SettleMovesNoDeadline
<1>8. UNCHANGED <<demand, returning>>
    BY DEF Tick, tasks
<1> QED BY <1>4, <1>6, <1>7, <1>8 DEF Cover, Near, Longest

\* New states last no longer than Life.
LEMMA RenewalIsNear == \A r \in Renewal \cup {Zero} : r \in Int /\ r <= Longest
<1>1. Life \in Nat
    BY SchedulerAssumption
<1> QED BY <1>1, LongestIsAhead, ZeroIsPast DEF Renewal

\* The loop or the dashboard starts a task.
LEMMA StartCovers ==
    ASSUME IInv, Cover, NEW k, Start(k), k \in Keys \/ worker' # "asleep",
           UNCHANGED <<worker, timer, wake, selected, demand, returning>>
    PROVE  Cover'
<1>1. CASE k \in Keys
    <2> DEFINE t == [at[k] EXCEPT !.retry = Retry]
    <2>1. [at EXCEPT ![k].retry = Retry] = [at EXCEPT ![k] = t]
        BY DEF IInv
    <2>2. at[k] \in Times /\ Near(at[k]) /\ Retry \in Int
        BY <1>1, SchedulerAssumption DEF IInv, Cover
    <2>3. t \in Times /\ Near(t)
        BY <2>2, LongestIsAhead DEF Times, Near
    <2> HIDE DEF t
    <2>4. ~Needed(k)'
        BY DEF Start, Needed
    <2> QED BY <1>1, <2>1, <2>3, <2>4, OneKeyCovered DEF Start, Cover
<1>2. CASE k \notin Keys
    <2>1. [at EXCEPT ![k].retry = Retry] = at
        BY <1>2 DEF IInv
    <2> QED BY <1>2, <2>1, AwakeKeepsCover DEF Start, IInv, Cover
<1> QED BY <1>1, <1>2

\* A task ends.
LEMMA EndCovers ==
    ASSUME IInv, Cover, NEW k \in Keys, NEW outcome \in Outcomes, End(k, outcome)
    PROVE  Cover'
<1>1. /\ UNCHANGED <<worker, timer, wake, selected>>
      /\ demand' = demand \ {k} /\ probing' = probing \ {k}
      /\ returning' = [returning EXCEPT ![k] = @ + 1]
    BY DEF End, loop
<1>2. returning' \in [Keys -> Nat] /\ returning'[k] # 0
    BY <1>1 DEF Cover
<1>3. ASSUME NEW t \in Times, Near(t), Settle([at EXCEPT ![k] = t]) PROVE Cover'
    <2>1. ~Needed(k)'
        BY <1>2 DEF Needed
    <2>2. \A j \in Keys \ {k} : returning'[j] = returning[j]
        BY <1>1 DEF Cover
    <2> QED BY <1>1, <1>2, <1>3, <2>1, <2>2, OneKeyCovered DEF Cover
<1>4. at[k] \in Times /\ Near(at[k])
    BY DEF IInv, Cover
<1>5. CASE \E r \in Renewal \cup ({at[k].refresh} \ {Zero}) :
              Settle([at EXCEPT ![k].refresh = r, ![k].block = Zero])
    <2> PICK r \in Renewal \cup ({at[k].refresh} \ {Zero}) :
            Settle([at EXCEPT ![k].refresh = r, ![k].block = Zero])
        BY <1>5
    <2> DEFINE t == [[at[k] EXCEPT !.refresh = r] EXCEPT !.block = Zero]
    <2>1. [at EXCEPT ![k].refresh = r, ![k].block = Zero] = [at EXCEPT ![k] = t]
        BY DEF IInv
    <2>2. r \in Int /\ r <= Longest
        BY <1>4, RenewalIsNear DEF Times, Near
    <2>3. t \in Times /\ Near(t)
        BY <1>4, <2>2, ZeroIsPast, LongestIsAhead DEF Times, Near
    <2> QED BY <1>3, <2>1, <2>3
<1>6. CASE UNCHANGED at
    <2>1. ASSUME NEW j \in Keys, worker' = "asleep", ~wake', Needed(j)', Pending(at'[j], j \in demand')
          PROVE  timer' <= Due(at'[j], j \in demand')
        <3>1. j # k
            BY <1>2, <2>1 DEF Needed
        <3>2. Needed(j) /\ Pending(at[j], j \in demand) /\ (j \in demand') = (j \in demand)
            BY <1>1, <1>6, <2>1, <3>1 DEF Needed, Pending, Due, Zero, Cover
        <3> QED BY <1>1, <1>6, <2>1, <3>2 DEF Cover, Covered
    <2>2. \A j \in Keys : Covered(j)'
        BY <2>1 DEF Covered, Due, Zero
    <2> QED BY <1>1, <1>2, <1>6, <2>2 DEF Cover, Near, Longest
<1>7. CASE BackOff(k)
    <2> DEFINE t == [at[k] EXCEPT !.block = Backoff]
    <2>1. [at EXCEPT ![k].block = Backoff] = [at EXCEPT ![k] = t]
        BY DEF IInv
    <2>2. Backoff \in Int
        BY SchedulerAssumption
    <2>3. t \in Times /\ Near(t)
        BY <1>4, <2>2, LongestIsAhead DEF Times, Near
    <2> QED BY <1>3, <1>7, <2>1, <2>3 DEF BackOff
<1> QED BY <1>5, <1>6, <1>7 DEF End
\* A loop that is awake, or was signalled, has nothing to be covered.
LEMMA AwokenIsCovered ==
    ASSUME Cover, UNCHANGED at, worker' # "asleep" \/ wake', timer' \in Int,
           demand' \subseteq Busy, returning' \in [Keys -> Nat]
    PROVE  Cover'
<1>1. \A j \in Keys : Covered(j)'
    BY DEF Covered
<1> QED BY <1>1 DEF Cover, Near, Longest

\* A request asks for a key, which signals the loop.
LEMMA QueueCovers ==
    ASSUME IInv, Cover, NEW k \in Busy, NEW limited \in BOOLEAN, QueueRefresh(k, limited)
    PROVE  Cover'
<1>1. k \in Keys /\ at[k] \in Times /\ Near(at[k]) /\ Backoff \in Int
    BY SchedulerAssumption DEF IInv, Cover
<1>2. /\ wake' = TRUE /\ demand' = demand \cup {k} /\ demand' \subseteq Busy
      /\ UNCHANGED <<worker, timer, selected, probing, returning>>
    BY DEF QueueRefresh, Cover, loop, tasks
<1>3. CASE limited
    <2> DEFINE t == [at[k] EXCEPT !.block = Backoff]
    <2>1. [at EXCEPT ![k].block = Backoff] = [at EXCEPT ![k] = t]
        BY DEF IInv
    <2>2. t \in Times /\ Near(t)
        BY <1>1, LongestIsAhead DEF Times, Near
    <2>3. Settle([at EXCEPT ![k] = t])
        BY <1>3, <2>1 DEF QueueRefresh, BackOff
    <2> HIDE DEF t
    <2> QED BY <1>1, <1>2, <2>2, <2>3, OneKeyCovered DEF Cover
<1>4. CASE ~limited
    BY <1>2, <1>4, AwokenIsCovered DEF QueueRefresh, Cover
<1> QED BY <1>3, <1>4

\* What a business response brings moves only the deadline of a key that
\* another response may move back.
LEMMA CaptureCovers == ASSUME IInv, Cover, NEW k \in Busy, Capture(k) PROVE Cover'
<1>1. k \in Keys /\ at[k] \in Times /\ Near(at[k])
    BY SchedulerAssumption DEF IInv, Cover
<1> PICK r \in Renewal \cup {at[k].refresh} : Settle([at EXCEPT ![k].refresh = r])
    BY DEF Capture
<1> DEFINE t == [at[k] EXCEPT !.refresh = r]
<1>2. [at EXCEPT ![k].refresh = r] = [at EXCEPT ![k] = t]
    BY DEF IInv
<1>3. r \in Int /\ r <= Longest
    BY <1>1, RenewalIsNear DEF Times, Near
<1>4. t \in Times /\ Near(t)
    BY <1>1, <1>3 DEF Times, Near
<1>5. /\ demand' = demand \ {k}
      /\ UNCHANGED <<worker, timer, wake, selected, probing, returning>>
    BY DEF Capture, loop, tasks
<1>6. ~Needed(k)'
    BY <1>5 DEF Needed
<1> HIDE DEF t
<1>7. Settle([at EXCEPT ![k] = t])
    BY <1>2
<1> QED BY <1>1, <1>4, <1>5, <1>6, <1>7, OneKeyCovered DEF Cover

\* A mismatch signals the loop, or leaves a demand and its deadline alone.
LEMMA MismatchCovers ==
    ASSUME IInv, Cover, NEW k \in Busy, NEW failure \in Failures, Mismatch(k, failure)
    PROVE  Cover'
<1>1. k \in Keys /\ at[k] \in Times /\ Near(at[k]) /\ Backoff \in Int
    BY SchedulerAssumption DEF IInv, Cover
<1> DEFINE b == IF failure = "rate_limit" THEN Backoff ELSE at[k].block
<1> PICK r \in Renewal \cup {Zero} :
        /\ Settle([at EXCEPT ![k].refresh = r,
                             ![k].block = IF failure = "rate_limit" THEN Backoff ELSE @])
        /\ IF r = Zero \/ failure # "none"
           THEN demand' = demand \cup {k} /\ wake' = TRUE
           ELSE UNCHANGED <<demand, wake>>
    BY DEF Mismatch
<1> DEFINE t == [[at[k] EXCEPT !.refresh = r] EXCEPT !.block = b]
<1>2. [at EXCEPT ![k].refresh = r,
                 ![k].block = IF failure = "rate_limit" THEN Backoff ELSE @]
      = [at EXCEPT ![k] = t]
    BY DEF IInv
<1>3. r \in Int /\ r <= Longest
    BY RenewalIsNear
<1>4. t \in Times /\ Near(t) /\ t.retry = at[k].retry
    BY <1>1, <1>3, LongestIsAhead DEF Times, Near
<1>5. UNCHANGED <<worker, timer, selected, probing, returning>>
    BY DEF Mismatch, loop, tasks
<1>6. ASSUME worker = "asleep", ~wake', Needed(k)', Pending(t, k \in demand')
      PROVE  timer <= Due(t, k \in demand')
    <2>1. UNCHANGED <<demand, wake>> /\ failure = "none"
        BY <1>6
    <2>2. k \in demand /\ Needed(k)
        BY <1>5, <1>6, <2>1 DEF Needed
    <2>3. t.block = at[k].block
        BY <1>1, <2>1 DEF Times
    <2>4. Due(t, TRUE) = Due(at[k], TRUE)
        BY <1>4, <2>3 DEF Due
    <2>5. Pending(at[k], k \in demand)
        BY <1>4, <1>6, <2>1, <2>2, <2>4 DEF Pending
    <2>6. timer <= Due(at[k], TRUE)
        BY <1>1, <1>6, <2>1, <2>2, <2>5 DEF Cover, Covered
    <2> QED BY <2>1, <2>2, <2>4, <2>6
<1> HIDE DEF t
<1>7. Settle([at EXCEPT ![k] = t])
    BY <1>2
<1>8. demand' \subseteq Busy /\ (wake => wake') /\ \A j \in Keys \ {k} : j \in demand' <=> j \in demand
    BY DEF Cover
<1> QED BY <1>1, <1>4, <1>5, <1>6, <1>7, <1>8, OneKeyCovered DEF Cover

\* States that expire were to be renewed already.
LEMMA ExpireCovers == ASSUME IInv, Cover, NEW k \in Keys, Expire(k) PROVE Cover'
<1> DEFINE t == [at[k] EXCEPT !.refresh = Zero]
<1>1. [at EXCEPT ![k].refresh = Zero] = [at EXCEPT ![k] = t]
    BY DEF IInv
<1>2. at[k] \in Times /\ Near(at[k]) /\ at[k].refresh <= 0
    BY DEF IInv, Cover, Expire
<1>3. /\ t \in Times /\ Near(t) /\ t.refresh = Zero
      /\ t.retry = at[k].retry /\ t.block = at[k].block
    BY <1>2, ZeroIsPast, LongestIsAhead DEF Times, Near
<1>4. UNCHANGED <<worker, timer, wake, selected, demand, probing, returning>>
    BY DEF Expire, loop, tasks
<1> HIDE DEF t
<1>5. ASSUME Pending(t, k \in demand)
      PROVE  Pending(at[k], k \in demand) /\ Due(at[k], k \in demand) = Due(t, k \in demand)
    <2> DEFINE asked == k \in demand
    <2>1. asked \in BOOLEAN /\ Pending(t, asked)
        BY <1>5
    <2> HIDE DEF asked
    <2>2. /\ Due(t, asked) \in {IF asked THEN Zero ELSE t.refresh, t.retry, t.block}
          /\ Due(t, asked) \in Int
          /\ Due(t, asked) >= t.retry /\ Due(t, asked) >= t.block
        BY <1>3, <2>1, DueIsLatest
    <2>3. /\ Due(at[k], asked) \in {IF asked THEN Zero ELSE at[k].refresh, at[k].retry, at[k].block}
          /\ Due(at[k], asked) \in Int
          /\ Due(at[k], asked) >= at[k].retry /\ Due(at[k], asked) >= at[k].block
        BY <1>2, <2>1, DueIsLatest
    <2>4. Due(at[k], asked) = Due(t, asked)
        BY <1>2, <1>3, <2>1, <2>2, <2>3, ZeroIsPast DEF Pending, Times
    <2>5. Pending(at[k], asked)
        BY <1>3, <2>1, <2>4 DEF Pending
    <2> QED BY <2>4, <2>5 DEF asked
<1>6. worker = "asleep" /\ ~wake' /\ Needed(k)' /\ Pending(t, k \in demand')
      => timer <= Due(t, k \in demand')
    BY <1>4, <1>5 DEF Cover, Covered, Needed
<1>7. Settle([at EXCEPT ![k] = t])
    BY <1>1 DEF Expire
<1> QED BY <1>3, <1>4, <1>6, <1>7, OneKeyCovered DEF Cover

\* Without demands the keys of business requests need no deadline.
LEMMA CancelCovers == ASSUME Cover, CancelAll PROVE Cover'
<1>1. UNCHANGED <<worker, timer, wake, selected, at, probing, returning>> /\ demand' = {}
    BY DEF CancelAll, loop, tasks
<1>2. ASSUME NEW j \in Keys, worker' = "asleep", ~wake', Needed(j)', Pending(at'[j], j \in demand')
      PROVE  timer' <= Due(at'[j], j \in demand')
    <2>1. Needed(j) /\ j \notin demand /\ j \notin demand'
        BY <1>1, <1>2 DEF Needed, Cover
    <2>2. (j \in demand') = (j \in demand)
        BY <2>1
    <2>3. Pending(at[j], j \in demand)
        BY <1>1, <1>2, <2>2
    <2> QED BY <1>1, <1>2, <2>1, <2>2, <2>3 DEF Cover, Covered
<1>3. \A j \in Keys : Covered(j)'
    BY <1>2 DEF Covered, Pending, Due, Zero
<1> QED BY <1>1, <1>3 DEF Cover, Near, Longest
\* Every step keeps the deadlines covered.
LEMMA CoverStep == IInv /\ Cover /\ [Next]_vars => Cover'
<1> SUFFICES ASSUME IInv, Cover, [Next]_vars PROVE Cover'
    OBVIOUS
<1>1. CASE TryJob
    <2>1. UNCHANGED <<worker, timer, wake, selected, demand, returning>> /\ worker' # "asleep"
        BY <1>1 DEF TryJob
    <2>2. CASE Start(Head(jobs))
        BY <2>1, <2>2, StartCovers
    <2>3. CASE UNCHANGED at
        BY <2>1, <2>3, AwokenIsCovered DEF Cover
    <2> QED BY <1>1, <2>2, <2>3 DEF TryJob
<1>2. CASE Tick
    BY <1>2, TickCovers
<1>3. CASE Sleep
    BY <1>3, SleepCovers
<1>4. ASSUME NEW k \in Keys, NEW outcome \in Outcomes, End(k, outcome) PROVE Cover'
    BY <1>4, EndCovers
<1>5. ASSUME NEW k \in Keys, Manual(k) PROVE Cover'
    BY <1>5, StartCovers DEF Manual, loop
<1>6. ASSUME NEW k \in Keys, Expire(k) PROVE Cover'
    BY <1>6, ExpireCovers
<1>7. ASSUME NEW k \in Busy, NEW limited \in BOOLEAN, QueueRefresh(k, limited) PROVE Cover'
    BY <1>7, QueueCovers
<1>8. ASSUME NEW k \in Busy, Capture(k) PROVE Cover'
    BY <1>8, CaptureCovers
<1>9. ASSUME NEW k \in Busy, NEW failure \in Failures, Mismatch(k, failure) PROVE Cover'
    BY <1>9, MismatchCovers
<1>10. CASE CancelAll
    BY <1>10, CancelCovers
<1>11. CASE Wakes \/ \E listed \in BOOLEAN : Snapshot(listed)
    <2>1. worker' # "asleep" /\ timer' \in Int /\ UNCHANGED <<at, demand, returning>>
        BY <1>11 DEF Wakes, Snapshot, tasks, Cover
    <2> QED BY <2>1, AwokenIsCovered DEF Cover
<1>12. ASSUME NEW S \in Selections, UpdateSelection(S) PROVE Cover'
    <2>1. wake' /\ timer' \in Int /\ UNCHANGED <<at, returning>> /\ demand' \subseteq Busy
        BY <1>12 DEF UpdateSelection, loop, tasks, Cover
    <2> QED BY <2>1, AwokenIsCovered DEF Cover
<1>13. ASSUME NEW k \in Keys, Release(k) PROVE Cover'
    <2>1. wake' /\ timer' \in Int /\ UNCHANGED <<at, demand>>
        BY <1>13 DEF Release, loop, Cover
    <2>2. returning' = [returning EXCEPT ![k] = @ - 1] /\ returning[k] > 0
        BY <1>13 DEF Release
    <2>3. returning' \in [Keys -> Nat]
        BY <2>2 DEF Cover
    <2> QED BY <2>1, <2>3, AwokenIsCovered DEF Cover
<1>14. CASE UNCHANGED vars
    <2>1. UNCHANGED <<worker, timer, wake, selected, demand, at, probing, returning>>
        BY <1>14 DEF vars, loop, tasks
    <2>2. \A j \in Keys : Covered(j)'
        BY <2>1 DEF Cover, Covered, Needed, Pending, Due, Zero
    <2> QED BY <2>1, <2>2 DEF Cover, Near, Longest
<1> QED BY <1>1, <1>2, <1>3, <1>4, <1>5, <1>6, <1>7, <1>8, <1>9, <1>10, <1>11, <1>12, <1>13, <1>14
        DEF Next

LEMMA InitCover == Init => Cover
<1> SUFFICES ASSUME Init PROVE Cover
    OBVIOUS
<1>1. Life \in Int
    BY SchedulerAssumption
<1>2. \A k \in Keys : Near(at[k])
    BY <1>1, LongestIsAhead DEF Init, Near
<1> QED BY <1>2 DEF Init, Cover, Covered

\* While the loop sleeps its timer ends no later than any deadline it has to
\* observe, for any keys, spacing, backoff and lifetime.
THEOREM DeadlinesAreCovered == Spec => []TimerCoversDeadlines
<1>1. IInv /\ Cover => TimerCoversDeadlines
    <2> SUFFICES ASSUME IInv, Cover, worker = "asleep", ~wake,
                        NEW k \in (Tracked \cap selected) \ probing,
                        k \in demand \/ k \notin Busy, returning[k] = 0, NextRefresh(k) > 0
                 PROVE  timer <= NextRefresh(k)
        BY DEF TimerCoversDeadlines
    <2>1. NextRefresh(k) = Due(at[k], k \in demand)
        BY DEF NextRefresh, AcquisitionDue, Due
    <2>2. k \in Keys /\ Needed(k) /\ Pending(at[k], k \in demand)
        BY <2>1 DEF Tracked, Needed, Pending
    <2> QED BY <2>1, <2>2 DEF Cover, Covered
<1> QED BY <1>1, InitCover, CoverStep, Invariance, PTL DEF Spec

----------------------------------------------------------------------------
(* The slots of the credential, as units to count.                         *)

\* The units f counts on S, one by one.
Units(f, S) == UNION {{x} \X (1..f[x]) : x \in S}

Weight(f, S) == Cardinality(Units(f, S))

\* Finitely many elements count finitely many units.
LEMMA UnitsAreFinite ==
    ASSUME NEW S, IsFiniteSet(S), NEW f, \A x \in S : f[x] \in Nat
    PROVE  IsFiniteSet(Units(f, S)) /\ Weight(f, S) \in Nat
<1> DEFINE pack == [x \in S |-> {x} \X (1..f[x])]
           packs == {{x} \X (1..f[x]) : x \in S}
<1>1. pack \in Surjection(S, packs)
    BY DEF Surjection
<1>2. IsFiniteSet(packs)
    <2> HIDE DEF pack, packs
    <2> QED  BY <1>1, FS_Surjection
<1>3. ASSUME NEW x \in S PROVE IsFiniteSet({x} \X (1..f[x]))
    <2>1. f[x] \in Nat
        OBVIOUS
    <2>2. IsFiniteSet({x})
        BY FS_Singleton
    <2>3. IsFiniteSet(1..f[x])
        BY <2>1, FS_Interval
    <2> QED  BY <2>2, <2>3, FS_Product
<1>4. \A p \in packs : IsFiniteSet(p)
    BY <1>3
<1>5. IsFiniteSet(UNION packs)
    <2> HIDE DEF packs
    <2> QED  BY <1>2, <1>4, FS_UNION
<1> QED  BY <1>5, FS_CardinalityType DEF Units, Weight

LEMMA WeightOfNothing == ASSUME NEW f PROVE Weight(f, {}) = 0
<1>1. Units(f, {}) = {}
    BY DEF Units
<1> QED  BY <1>1, FS_EmptySet DEF Weight

\* One element apart.
LEMMA WeightSplits ==
    ASSUME NEW S, IsFiniteSet(S), NEW f, \A y \in S : f[y] \in Nat, NEW x \in S
    PROVE  Weight(f, S) = f[x] + Weight(f, S \ {x})
<1> DEFINE rest == Units(f, S \ {x})
           pack == {x} \X (1..f[x])
<1>1. Units(f, S) = rest \cup pack
    BY DEF Units
<1>2. rest \cap pack = {}
    BY DEF Units
<1>3. IsFiniteSet(rest) /\ Cardinality(rest) \in Nat
    <2>1. IsFiniteSet(S \ {x})
        BY FS_RemoveElement
    <2> QED  BY <2>1, UnitsAreFinite DEF Weight
<1>4. IsFiniteSet(pack) /\ Cardinality(pack) = f[x]
    <2>1. f[x] \in Nat
        OBVIOUS
    <2>2. IsFiniteSet({x}) /\ Cardinality({x}) = 1
        BY FS_Singleton
    <2>3. IsFiniteSet(1..f[x]) /\ Cardinality(1..f[x]) = f[x]
        BY <2>1, FS_Interval
    <2>4. IsFiniteSet(pack) /\ Cardinality(pack) = Cardinality({x}) * Cardinality(1..f[x])
        BY <2>2, <2>3, FS_Product
    <2> QED  BY <2>1, <2>2, <2>3, <2>4
<1> HIDE DEF rest, pack
<1>5. Cardinality(rest \cup pack) = Cardinality(rest) + Cardinality(pack) - 0
    BY <1>2, <1>3, <1>4, FS_Union, FS_EmptySet
<1>6. f[x] \in Nat
    OBVIOUS
<1> QED  BY <1>1, <1>3, <1>4, <1>5, <1>6 DEF Weight, rest

\* A sum taken in whatever order counts the units: the least set for which it
\* did not would have an element to take apart.
LEMMA SumIsWeight ==
    ASSUME NEW S, IsFiniteSet(S), NEW f, \A x \in S : f[x] \in Nat, NEW g,
           \A s \in SUBSET S : g[s] = IF s = {} THEN 0
                                      ELSE LET x == CHOOSE x \in s : TRUE
                                           IN  f[x] + g[s \ {x}]
    PROVE  g[S] = Weight(f, S)
<1> DEFINE odd == {s \in SUBSET S : g[s] # Weight(f, s)}
<1> SUFFICES ASSUME odd # {} PROVE FALSE
    OBVIOUS
<1>1. odd \subseteq FiniteSubsetsOf(S)
    BY FS_Subset DEF FiniteSubsetsOf
<1>2. PICK s \in odd : \A r \in odd : ~(<<r, s>> \in StrictSubsetOrdering(S))
    <2> HIDE DEF odd
    <2> QED  BY <1>1, WFMin, FS_StrictSubsetOrderingWellFounded
<1>3. s # {}
    BY WeightOfNothing
<1> DEFINE x == CHOOSE x \in s : TRUE
<1>4. x \in s
    BY <1>3
<1>5. g[s] = f[x] + g[s \ {x}]
    BY <1>3
<1> HIDE DEF x
<1>6. <<s \ {x}, s>> \in StrictSubsetOrdering(S)
    BY <1>4 DEF StrictSubsetOrdering
<1>7. g[s \ {x}] = Weight(f, s \ {x})
    BY <1>2, <1>6
<1>8. Weight(f, s) = f[x] + Weight(f, s \ {x})
    <2>1. IsFiniteSet(s)
        BY FS_Subset
    <2> QED  BY <1>4, <2>1, WeightSplits
<1> QED  BY <1>5, <1>7, <1>8

LEMMA WeightIsLocal ==
    ASSUME NEW S, NEW f, NEW g, \A x \in S : f[x] = g[x]
    PROVE  Weight(f, S) = Weight(g, S)
<1>1. Units(f, S) = Units(g, S)
    BY DEF Units
<1> QED  BY <1>1 DEF Weight

\* What the tasks that return hold together.
LEMMA ReturningIsWeight ==
    ASSUME NEW f \in [Keys -> Nat]
    PROVE  SumFunction(f) = Weight(f, Keys)
<1> DEFINE pick(s) == CHOOSE x \in s : TRUE
           R(g) == g = [s \in SUBSET Keys |->
                          IF s = {} THEN 0 ELSE f[pick(s)] + g[s \ {pick(s)}]]
           sum == CHOOSE g : R(g)
           count == [s \in SUBSET Keys |-> Weight(f, s)]
<1>1. SumFunction(f) = sum[Keys]
    <2>1. DOMAIN f = Keys
        OBVIOUS
    <2> QED  BY <2>1 DEF SumFunction, SumFunctionOnSet, FoldFunctionOnSet, MapThenFoldSet
<1>2. \A s \in SUBSET Keys : s # {} => pick(s) \in s
    OBVIOUS
<1>3. IsFiniteSet(Keys) /\ \A x \in Keys : f[x] \in Nat
    BY SchedulerAssumption
<1>4. R(count)
    <2> HIDE DEF pick
    <2>1. ASSUME NEW s \in SUBSET Keys, s # {}
          PROVE  Weight(f, s) = f[pick(s)] + Weight(f, s \ {pick(s)})
        BY <1>2, <1>3, <2>1, FS_Subset, WeightSplits
    <2> QED  BY <1>2, <2>1, WeightOfNothing
<1>5. R(sum)
    <2> HIDE DEF R, count
    <2> QED  BY <1>4
<1>6. \A s \in SUBSET Keys : sum[s] = IF s = {} THEN 0 ELSE f[pick(s)] + sum[s \ {pick(s)}]
    <2> HIDE DEF sum, pick
    <2> QED  BY <1>5
<1> HIDE DEF sum
<1> QED  BY <1>1, <1>3, <1>6, SumIsWeight

\* One more, and one less.
LEMMA ReturningSteps ==
    ASSUME NEW f \in [Keys -> Nat], NEW k \in Keys, NEW n \in Nat
    PROVE  /\ SumFunction(f) \in Nat
           /\ SumFunction([f EXCEPT ![k] = n]) = SumFunction(f) - f[k] + n
<1> DEFINE g == [f EXCEPT ![k] = n]
<1>1. IsFiniteSet(Keys) /\ g \in [Keys -> Nat] /\ g[k] = n
      /\ \A x \in Keys \ {k} : g[x] = f[x]
    BY SchedulerAssumption
<1> HIDE DEF g
<1>2. IsFiniteSet(Keys \ {k})
    BY <1>1, FS_RemoveElement
<1>3. Weight(f, Keys) = f[k] + Weight(f, Keys \ {k})
    BY <1>1, WeightSplits
<1>4. Weight(g, Keys) = n + Weight(g, Keys \ {k})
    BY <1>1, WeightSplits
<1>5. Weight(g, Keys \ {k}) = Weight(f, Keys \ {k})
    BY <1>1, WeightIsLocal
<1>6. Weight(f, Keys) \in Nat /\ Weight(f, Keys \ {k}) \in Nat
    BY <1>1, <1>2, UnitsAreFinite
<1>7. SumFunction(f) = Weight(f, Keys) /\ SumFunction(g) = Weight(g, Keys)
    BY <1>1, ReturningIsWeight
<1>8. f[k] \in Nat
    OBVIOUS
<1> QED  BY <1>3, <1>4, <1>5, <1>6, <1>7, <1>8 DEF g

----------------------------------------------------------------------------
(* Types.                                                                  *)

\* No time lies before the zero time.
Floored(t) == t.refresh >= Zero /\ t.retry >= Zero /\ t.block >= Zero

\* There are at most three past times per key.
LEMMA PastIsSmall ==
    ASSUME NEW c \in [Keys -> Times]
    PROVE  /\ IsFiniteSet(Past(c)) /\ Cardinality(Past(c)) \in Nat
           /\ Cardinality(Past(c)) <= 3 * Cardinality(Keys)
<1> DEFINE D == Keys \X (1..3)
           all == UNION {{c[k].refresh, c[k].retry, c[k].block} : k \in Keys}
           f == [p \in D |-> IF p[2] = 1 THEN c[p[1]].refresh
                             ELSE IF p[2] = 2 THEN c[p[1]].retry ELSE c[p[1]].block]
<1>1. IsFiniteSet(D) /\ Cardinality(D) = Cardinality(Keys) * 3
    <2>1. IsFiniteSet(1..3) /\ Cardinality(1..3) = 3
        <3>1. \A n \in Nat : IsFiniteSet(1..n) /\ Cardinality(1..n) = n
            BY FS_Interval
        <3> QED  BY <3>1
    <2> QED  BY <2>1, SchedulerAssumption, FS_Product
<1>2. f \in Surjection(D, all)
    <2>1. ASSUME NEW p \in D PROVE f[p] \in all
        <3>1. p[1] \in Keys /\ p[2] \in 1..3
            OBVIOUS
        <3>2. f[p] \in {c[p[1]].refresh, c[p[1]].retry, c[p[1]].block}
            OBVIOUS
        <3> QED  BY <3>1, <3>2
    <2>2. ASSUME NEW t \in all PROVE \E p \in D : f[p] = t
        <3>1. PICK k \in Keys : t \in {c[k].refresh, c[k].retry, c[k].block}
            OBVIOUS
        <3>2. <<k, 1>> \in D /\ <<k, 2>> \in D /\ <<k, 3>> \in D
            OBVIOUS
        <3>3. /\ f[<<k, 1>>] = c[k].refresh /\ f[<<k, 2>>] = c[k].retry
              /\ f[<<k, 3>>] = c[k].block
            BY <3>2
        <3> HIDE DEF f, D
        <3> QED  BY <3>1, <3>2, <3>3
    <2> QED  BY <2>1, <2>2 DEF Surjection
<1>3. IsFiniteSet(all) /\ Cardinality(all) <= Cardinality(D)
    <2> HIDE DEF f, D, all
    <2> QED  BY <1>1, <1>2, FS_Surjection
<1>4. Past(c) \subseteq all
    BY DEF Past
<1> HIDE DEF all, D
<1>5. IsFiniteSet(Past(c)) /\ Cardinality(Past(c)) <= Cardinality(all)
    BY <1>3, <1>4, FS_Subset
<1>6. /\ Cardinality(Past(c)) \in Nat /\ Cardinality(all) \in Nat
      /\ Cardinality(Keys) \in Nat
    BY <1>3, <1>5, SchedulerAssumption, FS_CardinalityType
<1> QED  BY <1>1, <1>3, <1>5, <1>6

\* Settling leaves nothing before the zero time.
LEMMA SettleKeepsFloor ==
    ASSUME NEW c \in [Keys -> Times], \A k \in Keys : Floored(c[k]), Settle(c)
    PROVE  at' \in [Keys -> Times] /\ \A k \in Keys : Floored(at'[k])
<1> DEFINE kept == [k \in Keys |-> Trimmed(c[k])]
           past == Past(kept)
<1>1. at' = [k \in Keys |-> [refresh |-> Ranked(kept[k].refresh, past),
                             retry |-> Ranked(kept[k].retry, past),
                             block |-> Ranked(kept[k].block, past)]]
    BY DEF Settle
<1>2. ASSUME NEW k \in Keys PROVE Trimmed(c[k]) \in Times /\ Floored(Trimmed(c[k]))
    <2> DEFINE t == c[k]
    <2>1. t \in Times /\ Floored(t)
        OBVIOUS
    <2> HIDE DEF t
    <2>2. /\ Trimmed(t).refresh \in {Spent, t.refresh} /\ Trimmed(t).retry = t.retry
          /\ Trimmed(t).block \in {Zero, t.block}
          /\ Trimmed(t) = [refresh |-> Trimmed(t).refresh, retry |-> Trimmed(t).retry,
                           block |-> Trimmed(t).block]
        BY DEF Trimmed
    <2>3. Trimmed(t) \in Times
        BY <2>1, <2>2, ZeroIsPast DEF Times
    <2>4. Floored(Trimmed(t))
        BY <2>1, <2>2, ZeroIsPast DEF Times, Floored
    <2> QED  BY <2>3, <2>4 DEF t
<1>3. kept \in [Keys -> Times]
    BY <1>2
<1>4. ASSUME NEW t \in Int, t >= Zero PROVE Ranked(t, past) \in Int /\ Ranked(t, past) >= Zero
    <2>1. Cardinality({u \in past : t < u}) \in Nat
        BY <1>3, RanksAreIntegers
    <2>2. Cardinality({u \in past : t < u}) <= 3 * Cardinality(Keys)
        <3> HIDE DEF kept
        <3>1. IsFiniteSet(past) /\ Cardinality(past) \in Nat
              /\ Cardinality(past) <= 3 * Cardinality(Keys)
            BY <1>3, PastIsSmall
        <3> HIDE DEF past
        <3>2. Cardinality({u \in past : t < u}) <= Cardinality(past)
            BY <3>1, FS_Subset
        <3>3. Cardinality(Keys) \in Nat
            BY SchedulerAssumption, FS_CardinalityType
        <3> HIDE <2>1
        <3>4. Cardinality({u \in past : t < u}) \in Nat
            BY <2>1 DEF past
        <3> QED  BY <3>1, <3>2, <3>3, <3>4
    <2>3. Cardinality(Keys) \in Nat
        BY SchedulerAssumption, FS_CardinalityType
    <2> HIDE DEF past
    <2> QED  BY <1>4, <2>1, <2>2, <2>3 DEF Ranked, Zero
<1> HIDE DEF past
<1>5. ASSUME NEW k \in Keys PROVE at'[k] \in Times /\ Floored(at'[k])
    <2>1. kept[k] \in Times /\ Floored(kept[k])
        BY <1>2
    <2> HIDE DEF kept
    <2>2. at'[k] = [refresh |-> Ranked(kept[k].refresh, past),
                    retry |-> Ranked(kept[k].retry, past),
                    block |-> Ranked(kept[k].block, past)]
        BY <1>1
    <2> QED  BY <1>4, <2>1, <2>2 DEF Times, Floored
<1>6. at' = [k \in Keys |-> at'[k]]
    BY <1>1
<1> QED  BY <1>5, <1>6

AllFloored == \A k \in Keys : Floored(at[k])

LoopTyped ==
    /\ worker \in {"asleep", "listing", "round"}
    /\ jobs \in Seq(Keys) /\ IsInjective(jobs)
    /\ timer \in 0..Poll /\ wake \in BOOLEAN /\ selected \in Selections

\* The credential has as many slots as its tasks hold, or more.
TasksTyped == probing \subseteq Keys /\ Room >= 0

Typed == LoopTyped /\ TasksTyped /\ AllFloored /\ cooling \in [Keys -> 0..Backoff]

\* The times of one key change.
LEMMA OneKeyFloored ==
    ASSUME IInv, AllFloored, NEW k \in Keys, NEW t \in Times, Floored(t),
           Settle([at EXCEPT ![k] = t])
    PROVE  AllFloored'
<1> DEFINE c == [at EXCEPT ![k] = t]
<1>1. c \in [Keys -> Times] /\ \A j \in Keys : Floored(c[j])
    BY DEF IInv, AllFloored
<1> HIDE DEF c
<1>2. Settle(c)
    BY DEF c
<1> QED  BY <1>1, <1>2, SettleKeepsFloor DEF AllFloored, Floored, Zero

\* Whatever a step sets a time to lies ahead, or is the zero time, or stays.
LEMMA StepKeepsFloor ==
    ASSUME IInv, AllFloored, jobs \in Seq(Keys), Next
    PROVE  AllFloored'
<1> USE DEF IInv
<1>1. ASSUME UNCHANGED at PROVE AllFloored'
    BY <1>1 DEF AllFloored, Floored, Zero
<1>2. ASSUME NEW k \in Keys PROVE at[k] \in Times /\ Floored(at[k])
    BY DEF AllFloored
<1>3. Retry >= Zero /\ Backoff >= Zero /\ Retry \in Int /\ Backoff \in Int
    BY SchedulerAssumption, ZeroIsPast
<1>4. ASSUME NEW k \in Keys, NEW r \in Int, r >= Zero, NEW b \in Int, b >= Zero,
             Settle([at EXCEPT ![k] = [[at[k] EXCEPT !.refresh = r] EXCEPT !.block = b]])
      PROVE  AllFloored'
    <2> DEFINE t == [[at[k] EXCEPT !.refresh = r] EXCEPT !.block = b]
    <2>1. t \in Times /\ Floored(t)
        BY <1>2, <1>4 DEF Times, Floored
    <2> HIDE DEF t
    <2>2. Settle([at EXCEPT ![k] = t])
        BY <1>4 DEF t
    <2> QED  BY <2>1, <2>2, OneKeyFloored
<1>5. ASSUME NEW k \in Keys, NEW r \in Int, r >= Zero, Settle([at EXCEPT ![k].refresh = r])
      PROVE  AllFloored'
    <2> DEFINE t == [at[k] EXCEPT !.refresh = r]
    <2>1. t \in Times /\ Floored(t) /\ [at EXCEPT ![k].refresh = r] = [at EXCEPT ![k] = t]
        BY <1>2, <1>5 DEF Times, Floored
    <2> HIDE DEF t
    <2> QED  BY <1>5, <2>1, OneKeyFloored
<1>6. ASSUME NEW k \in Keys, Start(k) PROVE AllFloored'
    <2> DEFINE t == [at[k] EXCEPT !.retry = Retry]
    <2>1. t \in Times /\ Floored(t) /\ [at EXCEPT ![k].retry = Retry] = [at EXCEPT ![k] = t]
        BY <1>2, <1>3 DEF Times, Floored
    <2> HIDE DEF t
    <2> QED  BY <1>6, <2>1, OneKeyFloored DEF Start
<1>7. ASSUME NEW k \in Keys, BackOff(k) PROVE AllFloored'
    <2> DEFINE t == [at[k] EXCEPT !.block = Backoff]
    <2>1. t \in Times /\ Floored(t) /\ [at EXCEPT ![k].block = Backoff] = [at EXCEPT ![k] = t]
        BY <1>2, <1>3 DEF Times, Floored
    <2> HIDE DEF t
    <2> QED  BY <1>7, <2>1, OneKeyFloored DEF BackOff
<1>8. \A r \in Renewal \cup {Zero} : r \in Int /\ r >= Zero
    BY ZeroIsPast, SchedulerAssumption DEF Renewal
<1>9. CASE TryJob
    <2>1. jobs # <<>> => Head(jobs) \in Keys
        OBVIOUS
    <2> QED  BY <1>1, <1>6, <1>9, <2>1 DEF TryJob
<1>10. ASSUME NEW k \in Keys, NEW outcome \in Outcomes, End(k, outcome) PROVE AllFloored'
    <2>1. CASE \E r \in Renewal \cup ({at[k].refresh} \ {Zero}) :
                   Settle([at EXCEPT ![k].refresh = r, ![k].block = Zero])
        <3> PICK r \in Renewal \cup ({at[k].refresh} \ {Zero}) :
                Settle([at EXCEPT ![k].refresh = r, ![k].block = Zero])
            BY <2>1
        <3>1. r \in Int /\ r >= Zero
            BY <1>2, <1>8 DEF Times, Floored
        <3>2. [at EXCEPT ![k].refresh = r, ![k].block = Zero]
              = [at EXCEPT ![k] = [[at[k] EXCEPT !.refresh = r] EXCEPT !.block = Zero]]
            OBVIOUS
        <3>3. PICK b \in Int : b = Zero /\ b >= Zero
            BY ZeroIsPast
        <3>4. Settle([at EXCEPT ![k] = [[at[k] EXCEPT !.refresh = r] EXCEPT !.block = b]])
            BY <3>2, <3>3
        <3> QED  BY <1>4, <3>1, <3>3, <3>4
    <2> QED  BY <1>1, <1>7, <1>10, <2>1 DEF End
<1>11. ASSUME NEW k \in Keys, Manual(k) PROVE AllFloored'
    BY <1>6, <1>11 DEF Manual
<1>12. ASSUME NEW k \in Keys, Expire(k) PROVE AllFloored'
    <2>1. PICK r \in Int : r = Zero /\ r >= Zero
        BY ZeroIsPast
    <2>2. Settle([at EXCEPT ![k].refresh = r])
        BY <1>12, <2>1 DEF Expire
    <2> QED  BY <1>5, <2>1, <2>2
<1>13. ASSUME NEW k \in Busy, NEW limited \in BOOLEAN, QueueRefresh(k, limited)
       PROVE  AllFloored'
    BY <1>1, <1>7, <1>13, SchedulerAssumption DEF QueueRefresh
<1>14. ASSUME NEW k \in Busy, Capture(k) PROVE AllFloored'
    <2>1. k \in Keys
        BY SchedulerAssumption
    <2>2. PICK r \in Renewal \cup {at[k].refresh} : Settle([at EXCEPT ![k].refresh = r])
        BY <1>14 DEF Capture
    <2>3. r \in Int /\ r >= Zero
        BY <1>2, <1>8, <2>1 DEF Times, Floored
    <2> QED  BY <1>5, <2>1, <2>2, <2>3
<1>15. ASSUME NEW k \in Busy, NEW failure \in Failures, Mismatch(k, failure) PROVE AllFloored'
    <2>1. k \in Keys
        BY SchedulerAssumption
    <2> DEFINE b == IF failure = "rate_limit" THEN Backoff ELSE at[k].block
    <2>2. PICK r \in Renewal \cup {Zero} :
            Settle([at EXCEPT ![k].refresh = r,
                              ![k].block = IF failure = "rate_limit" THEN Backoff ELSE @])
        BY <1>15 DEF Mismatch
    <2>3. [at EXCEPT ![k].refresh = r,
                     ![k].block = IF failure = "rate_limit" THEN Backoff ELSE @]
          = [at EXCEPT ![k] = [[at[k] EXCEPT !.refresh = r] EXCEPT !.block = b]]
        BY <2>1
    <2>4. r \in Int /\ r >= Zero /\ b \in Int /\ b >= Zero
        BY <1>2, <1>3, <1>8, <2>1 DEF Times, Floored
    <2> HIDE DEF b
    <2> QED  BY <1>4, <2>1, <2>2, <2>3, <2>4
<1>16. CASE Tick
    <2> DEFINE c == [k \in Keys |-> [refresh |-> Later(at[k].refresh),
                                     retry |-> Later(at[k].retry),
                                     block |-> Later(at[k].block)]]
    <2>1. \A t \in Int : t >= Zero => Later(t) \in Int /\ Later(t) >= Zero
        BY ZeroIsPast DEF Later
    <2>2. ASSUME NEW k \in Keys PROVE c[k] \in Times /\ Floored(c[k])
        BY <1>2, <2>1 DEF Times, Floored
    <2>3. c \in [Keys -> Times] /\ Settle(c)
        BY <1>16, <2>2 DEF Tick
    <2> HIDE DEF c
    <2> QED  BY <2>2, <2>3, SettleKeepsFloor DEF AllFloored, Floored, Zero
<1>17. CASE \/ Wakes \/ Sleep \/ CancelAll
            \/ \E listed \in BOOLEAN : Snapshot(listed)
            \/ \E S \in Selections : UpdateSelection(S)
            \/ \E k \in Keys : Release(k)
    BY <1>1, <1>17 DEF Wakes, Sleep, CancelAll, Snapshot, UpdateSelection, Release
<1> QED  BY <1>9, <1>10, <1>11, <1>12, <1>13, <1>14, <1>15, <1>16, <1>17 DEF Next

\* What the loop works on: its list names keys of the credential, each once.
LEMMA StepKeepsLoop ==
    ASSUME IInv, Cover, LoopTyped, Next
    PROVE  LoopTyped'
<1> USE DEF LoopTyped
<1>1. CASE Wakes
    <2>1. 0 \in 0..Poll
        BY SchedulerAssumption
    <2>2. jobs' = jobs /\ selected' = selected /\ worker' = "listing" /\ timer' = 0
          /\ wake' \in BOOLEAN
        BY <1>1 DEF Wakes
    <2> QED  BY <2>1, <2>2
<1>2. ASSUME NEW listed \in BOOLEAN, Snapshot(listed) PROVE LoopTyped'
    <2>1. PICK due \in SUBSET Keys : jobs' \in SetToSeqs(due)
        BY <1>2, SchedulerAssumption DEF Snapshot
    <2>2. Cardinality(due) \in Nat
        BY SchedulerAssumption, FS_Subset, FS_CardinalityType
    <2>3. jobs' \in [1..Cardinality(due) -> due]
          /\ \A i, j \in 1..Cardinality(due) : i # j => jobs'[i] # jobs'[j]
        BY <2>1 DEF SetToSeqs
    <2>4. jobs' \in Seq(Keys)
        BY <2>2, <2>3
    <2>5. IsInjective(jobs')
        BY <2>3 DEF IsInjective
    <2> QED  BY <1>2, <2>4, <2>5 DEF Snapshot
<1>3. CASE TryJob
    <2>1. jobs # <<>> /\ jobs' = Tail(jobs)
        BY <1>3 DEF TryJob
    <2>2. jobs' \in Seq(Keys)
        BY <2>1
    <2>3. IsInjective(jobs')
        <3>1. ASSUME NEW i \in DOMAIN jobs'
              PROVE  i \in Int /\ i + 1 \in DOMAIN jobs /\ jobs'[i] = jobs[i + 1]
            BY <2>1
        <3> QED  BY <3>1 DEF IsInjective
    <2> QED  BY <1>3, <2>2, <2>3 DEF TryJob
<1>4. CASE Sleep
    <2> DEFINE S == (Tracked \cap selected) \ probing
               ahead == {Poll} \cup Ahead(S)
    <2>1. ahead \subseteq Nat /\ Poll \in ahead /\ Poll \in Nat
        BY SchedulerAssumption, LongestIsAhead DEF Ahead
    <2>2. Min(ahead) \in Nat /\ Min(ahead) <= Poll
        <3> HIDE DEF ahead
        <3> QED  BY <2>1, MinOfNaturals
    <2>3. timer' = Min(ahead)
        BY <1>4 DEF Sleep, NextWakeDelay
    <2> HIDE DEF ahead
    <2> QED  BY <1>4, <2>1, <2>2, <2>3 DEF Sleep
<1>5. CASE Tick
    <2> DEFINE n == timer - 1
    <2>1. timer' = Max({0, n}) /\ 0 \in Int /\ n \in Int /\ Poll \in Nat
        BY <1>5, SchedulerAssumption DEF Tick
    <2> HIDE DEF n
    <2>2. timer' \in {0, n} /\ timer' >= 0
        BY <2>1, MaxOfTwo
    <2>3. timer' \in 0..Poll
        BY <2>1, <2>2 DEF n
    <2> QED  BY <1>5, <2>3 DEF Tick
<1>6. ASSUME UNCHANGED <<loop, selected>>, wake' \in BOOLEAN PROVE LoopTyped'
    BY <1>6 DEF loop
<1>7. ASSUME NEW k \in Keys, NEW outcome \in Outcomes, End(k, outcome) PROVE LoopTyped'
    BY <1>6, <1>7 DEF End
<1>8. ASSUME NEW k \in Keys, Release(k) \/ Expire(k) \/ Manual(k) PROVE LoopTyped'
    BY <1>6, <1>8 DEF Release, Expire, Manual
<1>9. ASSUME NEW k \in Busy, NEW limited \in BOOLEAN, QueueRefresh(k, limited) PROVE LoopTyped'
    BY <1>6, <1>9 DEF QueueRefresh
<1>10. ASSUME NEW k \in Busy, Capture(k) PROVE LoopTyped'
    BY <1>6, <1>10 DEF Capture
<1>11. ASSUME NEW k \in Busy, NEW failure \in Failures, Mismatch(k, failure) PROVE LoopTyped'
    <2>1. UNCHANGED <<loop, selected>> /\ (wake' = TRUE \/ wake' = wake)
        BY <1>11 DEF Mismatch
    <2> QED  BY <1>6, <2>1
<1>12. CASE CancelAll
    BY <1>6, <1>12 DEF CancelAll
<1>13. ASSUME NEW S \in Selections, UpdateSelection(S) PROVE LoopTyped'
    BY <1>13 DEF UpdateSelection, loop
<1> QED  BY <1>1, <1>2, <1>3, <1>4, <1>5, <1>7, <1>8, <1>9, <1>10, <1>11, <1>12, <1>13 DEF Next

\* A task reserves a slot only when there is room, and holds it, entered or
\* not, until it returns it.
LEMMA StepKeepsRoom ==
    ASSUME IInv, Cover, LoopTyped, TasksTyped, Next
    PROVE  TasksTyped'
<1> DEFINE sum == SumFunction(returning)
           in == Cardinality(probing)
<1>1. /\ IsFiniteSet(probing) /\ in \in Nat /\ Limit \in Nat
      /\ returning \in [Keys -> Nat] /\ Room = Limit - in - sum
    BY SchedulerAssumption, FS_Subset, FS_CardinalityType DEF TasksTyped, Cover, Room
<1>2. ASSUME NEW k \in Keys PROVE sum \in Nat
    BY <1>1, ReturningSteps
<1>3. ASSUME UNCHANGED <<probing, returning>> PROVE TasksTyped'
    BY <1>3 DEF TasksTyped, Room
<1>4. ASSUME NEW k \in Keys, k \notin probing, Room > 0, probing' = probing \cup {k},
             UNCHANGED returning
      PROVE  TasksTyped'
    <2>1. Cardinality(probing') = in + 1
        BY <1>1, <1>4, FS_AddElement
    <2>2. Room' = Limit - Cardinality(probing') - sum
        BY <1>4 DEF Room
    <2>3. sum \in Nat
        BY <1>2, <1>4
    <2>4. probing' \subseteq Keys
        BY <1>4 DEF TasksTyped
    <2> HIDE DEF sum, in
    <2>5. Room' >= 0
        BY <1>1, <1>4, <2>1, <2>2, <2>3
    <2> QED  BY <2>4, <2>5 DEF TasksTyped
<1>5. ASSUME NEW k \in Keys, NEW outcome \in Outcomes, End(k, outcome) PROVE TasksTyped'
    <2>1. k \in probing /\ probing' = probing \ {k} /\ returning' = [returning EXCEPT ![k] = @ + 1]
        BY <1>5 DEF End
    <2>2. Cardinality(probing') = in - 1
        BY <1>1, <2>1, FS_RemoveElement
    <2> DEFINE n == returning[k] + 1
    <2>3. n \in Nat /\ returning[k] \in Nat /\ returning' = [returning EXCEPT ![k] = n]
        BY <1>1, <2>1
    <2>4. SumFunction(returning') = sum - returning[k] + n /\ sum \in Nat
        <3> HIDE DEF n
        <3> QED  BY <1>1, <2>3, ReturningSteps
    <2>5. Room' = Limit - Cardinality(probing') - SumFunction(returning')
        BY DEF Room
    <2> HIDE DEF sum, in
    <2>6. Room' = Room
        BY <1>1, <2>2, <2>3, <2>4, <2>5
    <2> QED  BY <2>1, <2>6 DEF TasksTyped
<1>6. ASSUME NEW k \in Keys, Release(k) PROVE TasksTyped'
    <2> DEFINE n == returning[k] - 1
    <2>1. n \in Nat /\ returning[k] \in Nat /\ returning' = [returning EXCEPT ![k] = n]
          /\ probing' = probing
        BY <1>1, <1>6 DEF Release
    <2>2. SumFunction(returning') = sum - returning[k] + n /\ sum \in Nat
        <3> HIDE DEF n
        <3> QED  BY <1>1, <2>1, ReturningSteps
    <2>3. Room' = Limit - in - SumFunction(returning')
        BY <2>1 DEF Room
    <2> HIDE DEF sum, in
    <2>4. Room' = Room + 1 /\ Room \in Int
        BY <1>1, <2>1, <2>2, <2>3
    <2>5. Room' >= 0
        BY <2>4 DEF TasksTyped
    <2> QED  BY <2>1, <2>5 DEF TasksTyped
<1>7. CASE TryJob
    <2>1. jobs # <<>> => Head(jobs) \in Keys
        BY DEF LoopTyped
    <2> QED  BY <1>3, <1>4, <1>7, <2>1 DEF TryJob, Startable, Start
<1>8. ASSUME NEW k \in Keys, Manual(k) PROVE TasksTyped'
    BY <1>4, <1>8 DEF Manual, Startable, Start
<1>9. CASE \/ Wakes \/ Sleep \/ Tick \/ CancelAll
           \/ \E listed \in BOOLEAN : Snapshot(listed)
           \/ \E S \in Selections : UpdateSelection(S)
           \/ \E k \in Keys : Expire(k)
           \/ \E k \in Busy : \/ \E limited \in BOOLEAN : QueueRefresh(k, limited)
                              \/ Capture(k)
                              \/ \E failure \in Failures : Mismatch(k, failure)
    BY <1>3, <1>9 DEF Wakes, Sleep, Tick, CancelAll, Snapshot, UpdateSelection, Expire,
       QueueRefresh, Capture, Mismatch, tasks
<1> QED  BY <1>5, <1>6, <1>7, <1>8, <1>9 DEF Next

\* No failure asks for more than the backoff.
LEMMA StepKeepsCooling ==
    ASSUME cooling \in [Keys -> 0..Backoff], Next
    PROVE  cooling' \in [Keys -> 0..Backoff]
<1>1. Backoff \in Nat /\ Busy \subseteq Keys
    BY SchedulerAssumption
<1>2. CASE Tick
    <2>1. ASSUME NEW k \in Keys PROVE Max({0, cooling[k] - 1}) \in 0..Backoff
        <3> DEFINE n == cooling[k] - 1
        <3>1. n \in Int /\ 0 \in Int /\ n <= Backoff
            BY <1>1
        <3> HIDE DEF n
        <3>2. Max({0, n}) \in {0, n} /\ Max({0, n}) >= 0
            BY <3>1, MaxOfTwo
        <3>3. Max({0, n}) \in 0..Backoff
            BY <1>1, <3>1, <3>2
        <3> QED  BY <3>3 DEF n
    <2> QED  BY <1>2, <2>1 DEF Tick
<1>3. ASSUME NEW k \in Keys, BackOff(k) PROVE cooling' \in [Keys -> 0..Backoff]
    BY <1>1, <1>3 DEF BackOff
<1>4. ASSUME NEW k \in Keys, NEW outcome \in Outcomes, End(k, outcome)
      PROVE  cooling' \in [Keys -> 0..Backoff]
    BY <1>1, <1>3, <1>4 DEF End
<1>5. ASSUME NEW k \in Busy, NEW limited \in BOOLEAN, QueueRefresh(k, limited)
      PROVE  cooling' \in [Keys -> 0..Backoff]
    BY <1>1, <1>3, <1>5 DEF QueueRefresh
<1>6. ASSUME NEW k \in Busy, NEW failure \in Failures, Mismatch(k, failure)
      PROVE  cooling' \in [Keys -> 0..Backoff]
    BY <1>1, <1>6 DEF Mismatch
<1>7. CASE UNCHANGED cooling
    BY <1>7
<1>8. CASE \/ Wakes \/ TryJob \/ Sleep \/ CancelAll
           \/ \E listed \in BOOLEAN : Snapshot(listed)
           \/ \E S \in Selections : UpdateSelection(S)
           \/ \E k \in Keys : Release(k) \/ Expire(k) \/ Manual(k)
           \/ \E k \in Busy : Capture(k)
    BY <1>7, <1>8 DEF Wakes, TryJob, Sleep, CancelAll, Snapshot, UpdateSelection, Release,
       Expire, Manual, Capture
<1> QED  BY <1>2, <1>4, <1>5, <1>6, <1>8 DEF Next

\* Every reachable state is typed, and bounded by the delays and the keys.
LEMMA TypedInvariance == Spec => [](IInv /\ Cover /\ Typed)
<1>1. Init => IInv /\ Cover /\ Typed
    <2> SUFFICES ASSUME Init PROVE IInv /\ Cover /\ Typed
        OBVIOUS
    <2>1. IInv /\ Cover
        BY InitIInv, InitCover
    <2>2. AllFloored
        BY ZeroIsPast, SchedulerAssumption DEF Init, AllFloored, Floored
    <2>3. LoopTyped
        <3>1. jobs = <<>> /\ timer = 0 /\ wake = FALSE /\ selected = Keys /\ worker = "listing"
            BY DEF Init
        <3>2. 0 \in 0..Poll /\ Keys \in Selections
            BY SchedulerAssumption
        <3>3. <<>> \in Seq(Keys) /\ IsInjective(<<>>)
            BY DEF IsInjective
        <3> QED  BY <3>1, <3>2, <3>3 DEF LoopTyped
    <2>4. TasksTyped
        <3>1. Weight(returning, Keys) = 0
            <4>1. Units(returning, Keys) = {}
                BY DEF Init, Units
            <4> QED  BY <4>1, FS_EmptySet DEF Weight
        <3>2. SumFunction(returning) = 0
            BY <2>1, <3>1, ReturningIsWeight DEF Cover
        <3>3. Cardinality(probing) = 0 /\ Limit \in Nat
            BY FS_EmptySet, SchedulerAssumption DEF Init
        <3> QED  BY <3>2, <3>3 DEF TasksTyped, Room, Init
    <2>5. cooling \in [Keys -> 0..Backoff]
        BY SchedulerAssumption DEF Init
    <2> QED  BY <2>1, <2>2, <2>3, <2>4, <2>5 DEF Typed
<1>2. IInv /\ Cover /\ Typed /\ [Next]_vars => (IInv /\ Cover /\ Typed)'
    <2> SUFFICES ASSUME IInv, Cover, Typed, [Next]_vars PROVE Typed'
        BY InductiveStep, CoverStep
    <2>1. CASE Next
        <3>1. jobs \in Seq(Keys)
            BY DEF Typed, LoopTyped
        <3> QED  BY <2>1, <3>1, StepKeepsLoop, StepKeepsRoom, StepKeepsFloor, StepKeepsCooling
                 DEF Typed
    <2>2. CASE UNCHANGED vars
        BY <2>2 DEF vars, loop, tasks, Typed, LoopTyped, TasksTyped, AllFloored, Floored, Zero, Room
    <2> QED  BY <2>1, <2>2
<1> QED  BY <1>1, <1>2, PTL DEF Spec

\* The loop, its list and its sleep, the times, the tasks and their slots stay
\* what they are to be, for any keys, limits and delays: no more tasks hold a
\* slot than the limit allows, and no time leaves the range of the delays.
THEOREM TypeCorrect == Spec => []TypeOK
<1>1. IInv /\ Cover /\ Typed => TypeOK
    <2> SUFFICES ASSUME IInv, Cover, Typed PROVE TypeOK
        OBVIOUS
    <2>1. ASSUME NEW k \in Keys PROVE at[k] \in [refresh : Time, retry : Time, block : Time]
        <3>1. at[k] \in Times /\ Near(at[k]) /\ Floored(at[k])
            BY DEF IInv, Cover, Typed, AllFloored
        <3> DEFINE t == at[k]
        <3> HIDE DEF t
        <3>2. t \in Times /\ Near(t) /\ Floored(t)
            BY <3>1 DEF t
        <3>3. t.refresh \in Time /\ t.retry \in Time /\ t.block \in Time
            BY <3>2, ZeroIsPast, LongestIsAhead DEF Times, Near, Floored, Time
        <3>4. t \in [refresh : Time, retry : Time, block : Time]
            BY <3>2, <3>3 DEF Times
        <3> QED  BY <3>4 DEF t
    <2>2. at \in [Keys -> [refresh : Time, retry : Time, block : Time]]
        BY <2>1 DEF IInv
    <2> QED  BY <2>2, SchedulerAssumption DEF TypeOK, Typed, LoopTyped, TasksTyped, Cover
<1> QED  BY <1>1, TypedInvariance, PTL

----------------------------------------------------------------------------
(* Ranks decide as the times they stand for.                               *)

\* A time the model keeps as it is, or knows the rank of.
Kept(n, past) == n \in Int /\ n >= Zero /\ (Spent < n /\ n <= 0 => n \in past)

\* Ranks are in the order of the times.
LEMMA RanksAreOrdered ==
    ASSUME NEW c \in [Keys -> Times], NEW m, NEW n, Kept(m, Past(c)), Kept(n, Past(c))
    PROVE  /\ Ranked(n, Past(c)) \in Int
           /\ Ranked(n, Past(c)) = Zero <=> n = Zero
           /\ n > 0 => Ranked(n, Past(c)) = n
           /\ n <= 0 => Ranked(n, Past(c)) <= 0
           /\ m < n => Ranked(m, Past(c)) < Ranked(n, Past(c))
<1> DEFINE past == Past(c)
           Above(k) == {u \in past : k < u}
<1>1. /\ IsFiniteSet(past) /\ Cardinality(past) \in Nat
      /\ Cardinality(past) <= 3 * Cardinality(Keys) /\ Cardinality(Keys) \in Nat
    BY PastIsSmall, SchedulerAssumption, FS_CardinalityType
<1>2. \A u \in past : u \in Int /\ Spent < u /\ u <= 0
    BY ZeroIsPast DEF Past, Times
<1>3. m \in Int /\ n \in Int
    BY DEF Kept
<1> HIDE DEF past
<1>4. ASSUME NEW k \in Int PROVE IsFiniteSet(Above(k)) /\ Cardinality(Above(k)) \in Nat
    BY <1>1, FS_Subset, FS_CardinalityType
<1>5. ASSUME NEW k \in past PROVE Spent < Ranked(k, past) /\ Ranked(k, past) <= 0 /\ Ranked(k, past) \in Int
    <2>1. k \in Int
        BY <1>2
    <2>2. Cardinality(Above(k)) < Cardinality(past)
        <3>1. Above(k) \subseteq past /\ k \notin Above(k)
            BY <2>1
        <3>2. Cardinality(Above(k)) <= Cardinality(past) /\ Above(k) # past
              /\ (Cardinality(past) = Cardinality(Above(k)) => past = Above(k))
            BY <1>1, <3>1, FS_Subset
        <3> HIDE DEF Above
        <3> QED  BY <1>1, <1>4, <2>1, <3>2
    <2>3. Ranked(k, past) = -Cardinality(Above(k))
        BY DEF Ranked
    <2>4. Cardinality(Above(k)) \in Nat
        BY <1>4, <2>1
    <2> HIDE DEF Above
    <2> QED  BY <1>1, <2>2, <2>3, <2>4 DEF Spent, Zero
<1>6. ASSUME NEW k \in past, NEW l \in past, k < l PROVE Ranked(k, past) < Ranked(l, past)
    <2>1. k \in Int /\ l \in Int
        BY <1>2
    <2>2. Above(l) \subseteq Above(k) /\ l \in Above(k) /\ l \notin Above(l)
        <3>1. ASSUME NEW u \in past, l < u PROVE k < u
            BY <1>2, <1>6, <2>1, <3>1
        <3>2. ~(l < l)
            BY <2>1
        <3> QED  BY <1>6, <3>1, <3>2
    <2>3. Cardinality(Above(l)) <= Cardinality(Above(k))
          /\ (Cardinality(Above(k)) = Cardinality(Above(l)) => Above(k) = Above(l))
        BY <1>4, <2>1, <2>2, FS_Subset
    <2>4. Ranked(k, past) = -Cardinality(Above(k)) /\ Ranked(l, past) = -Cardinality(Above(l))
        BY DEF Ranked
    <2>5. Cardinality(Above(k)) \in Nat /\ Cardinality(Above(l)) \in Nat
        BY <1>4, <2>1
    <2> HIDE DEF Above
    <2> QED  BY <2>2, <2>3, <2>4, <2>5
<1>7. ASSUME NEW k \in Int, k \notin past PROVE Ranked(k, past) = k
    BY <1>7 DEF Ranked
<1>8. ASSUME NEW k \in {m, n} PROVE k \in past \/ k > 0 \/ k = Zero \/ k = Spent
    <2>1. k >= Zero /\ k \in Int /\ (Spent < k /\ k <= 0 => k \in past)
        BY DEF Kept, past
    <2>2. Spent = Zero + 1 /\ Zero \in Int
        BY ZeroIsPast DEF Spent
    <2> QED  BY <2>1, <2>2
<1>9. \A k \in past : k # Zero /\ k # Spent /\ ~(k > 0)
    BY <1>2, ZeroIsPast
<1>10. /\ Ranked(n, past) \in Int
       /\ Ranked(n, past) = Zero <=> n = Zero
       /\ n > 0 => Ranked(n, past) = n
       /\ n <= 0 => Ranked(n, past) <= 0
    <2>1. CASE n \in past
        BY <1>3, <1>5, <1>9, <2>1, ZeroIsPast
    <2>2. CASE n \notin past
        BY <1>3, <1>7, <2>2
    <2> QED  BY <2>1, <2>2
<1>11. ASSUME m < n PROVE Ranked(m, past) < Ranked(n, past)
    <2>1. CASE m \in past /\ n \in past
        BY <1>6, <1>11, <2>1
    <2>2. CASE m \in past /\ n \notin past
        <3>1. n > 0
            BY <1>2, <1>3, <1>8, <1>11, <2>2, ZeroIsPast
        <3> QED  BY <1>3, <1>5, <1>7, <2>2, <3>1
    <2>3. CASE m \notin past /\ n \in past
        <3>1. m <= Spent
            BY <1>2, <1>3, <1>8, <1>11, <2>3, ZeroIsPast
        <3> QED  BY <1>3, <1>5, <1>7, <2>3, <3>1, ZeroIsPast
    <2>4. CASE m \notin past /\ n \notin past
        BY <1>3, <1>7, <1>11, <2>4
    <2> QED  BY <2>1, <2>2, <2>3, <2>4
<1> QED  BY <1>10, <1>11 DEF past

\* Trimming changes no deadline, and not what counts as the zero time.
LEMMA TrimmingKeepsDeadlines ==
    ASSUME NEW t \in Times, Floored(t), NEW asked \in BOOLEAN
    PROVE  /\ Trimmed(t) \in Times /\ Floored(Trimmed(t))
           /\ Due(Trimmed(t), asked) = Due(t, asked)
           /\ (Trimmed(t).refresh = Zero <=> t.refresh = Zero) /\ Trimmed(t).retry = t.retry
<1> DEFINE u == Trimmed(t)
           low == Min({0, t.retry})
<1>1. t.refresh \in Int /\ t.retry \in Int /\ t.block \in Int
    BY DEF Times
<1>2. low \in Int /\ low <= 0 /\ low <= t.retry
    <2> DEFINE m == t.retry
    <2>1. m \in Int
        BY <1>1
    <2> HIDE DEF m
    <2>2. Min({0, m}) \in {0, m} /\ Min({0, m}) <= 0 /\ Min({0, m}) <= m
        BY <2>1, MinOfTwo
    <2> QED  BY <2>1, <2>2 DEF m
<1>3. /\ u.refresh = IF t.refresh # Zero /\ t.refresh <= low THEN Spent ELSE t.refresh
      /\ u.retry = t.retry /\ u.block = IF t.block <= t.retry THEN Zero ELSE t.block
      /\ u = [refresh |-> u.refresh, retry |-> u.retry, block |-> u.block]
    BY DEF Trimmed
<1> HIDE DEF u, low
<1>4. u \in Times /\ Floored(u)
    BY <1>1, <1>3, ZeroIsPast DEF Times, Floored
<1>5. u.refresh = Zero <=> t.refresh = Zero
    BY <1>3, ZeroIsPast
<1>6. /\ Due(t, asked) \in {IF asked THEN Zero ELSE t.refresh, t.retry, t.block}
      /\ ~asked => Due(t, asked) >= t.refresh
      /\ Due(t, asked) >= t.retry /\ Due(t, asked) >= t.block /\ Due(t, asked) \in Int
    BY DueIsLatest
<1>7. /\ Due(u, asked) \in {IF asked THEN Zero ELSE u.refresh, u.retry, u.block}
      /\ ~asked => Due(u, asked) >= u.refresh
      /\ Due(u, asked) >= u.retry /\ Due(u, asked) >= u.block /\ Due(u, asked) \in Int
    BY <1>4, DueIsLatest
<1>8. Spent <= t.refresh \/ t.refresh = Zero
    <2>1. Spent = Zero + 1 /\ Zero \in Int /\ t.refresh >= Zero
        BY ZeroIsPast DEF Spent, Floored
    <2> QED  BY <1>1, <2>1
<1>9. Due(u, asked) = Due(t, asked)
    BY <1>1, <1>2, <1>3, <1>6, <1>7, <1>8, ZeroIsPast DEF Floored
<1> QED  BY <1>3, <1>4, <1>5, <1>9 DEF u

\* The due time of ranks is the rank of the due time.
LEMMA DueOfRanks ==
    ASSUME NEW c \in [Keys -> Times], NEW t \in Times, NEW asked \in BOOLEAN,
           Kept(t.refresh, Past(c)), Kept(t.retry, Past(c)), Kept(t.block, Past(c))
    PROVE  LET w == [refresh |-> Ranked(t.refresh, Past(c)), retry |-> Ranked(t.retry, Past(c)),
                     block |-> Ranked(t.block, Past(c))]
           IN  w \in Times /\ Due(w, asked) = Ranked(Due(t, asked), Past(c))
               /\ Kept(Due(t, asked), Past(c))
<1> DEFINE R(n) == Ranked(n, Past(c))
           w == [refresh |-> R(t.refresh), retry |-> R(t.retry), block |-> R(t.block)]
           r == IF asked THEN Zero ELSE t.refresh
           d == Due(t, asked)
<1>1. Kept(Zero, Past(c)) /\ Kept(r, Past(c))
    BY ZeroIsPast DEF Kept
<1>2. d \in {r, t.retry, t.block} /\ d \in Int
      /\ (~asked => d >= t.refresh) /\ d >= t.retry /\ d >= t.block
    BY DueIsLatest
<1>3. Kept(d, Past(c))
    BY <1>1, <1>2
<1>4. ASSUME NEW m, NEW n, Kept(m, Past(c)), Kept(n, Past(c))
      PROVE  R(m) \in Int /\ (m < n => R(m) < R(n)) /\ (m = n => R(m) = R(n)) /\ m \in Int
    BY <1>4, RanksAreOrdered DEF Kept
<1>5. R(Zero) = Zero
    BY <1>1, RanksAreOrdered
<1> HIDE DEF R
<1>6. w \in Times
    BY <1>4 DEF Times
<1>7. /\ Due(w, asked) \in {IF asked THEN Zero ELSE w.refresh, w.retry, w.block}
      /\ Due(w, asked) \in Int
      /\ ~asked => Due(w, asked) >= w.refresh
      /\ Due(w, asked) >= w.retry /\ Due(w, asked) >= w.block
    BY <1>6, DueIsLatest
<1>8. w.refresh = R(t.refresh) /\ w.retry = R(t.retry) /\ w.block = R(t.block)
    OBVIOUS
<1> HIDE DEF w, d
<1>9. ASSUME NEW n, Kept(n, Past(c)), d >= n PROVE R(d) >= R(n)
    BY <1>2, <1>3, <1>4, <1>9
<1>10. R(d) >= R(r) /\ R(d) >= R(t.retry) /\ R(d) >= R(t.block) /\ R(d) \in {R(r), R(t.retry), R(t.block)}
    <2>1. d >= r
        <3>1. d >= Zero
            BY <1>3 DEF Kept
        <3> QED  BY <1>2, <3>1
    <2> QED  BY <1>1, <1>2, <1>9, <2>1
<1>11. Due(w, asked) = R(d)
    <2>1. R(d) \in Int /\ R(r) \in Int /\ R(t.retry) \in Int /\ R(t.block) \in Int
        BY <1>1, <1>3, <1>4
    <2>2. CASE asked
        <3>1. r = Zero /\ R(r) = Zero
            BY <1>5, <2>2
        <3>2. R(t.retry) >= Zero /\ R(t.block) >= Zero
            <4>1. ASSUME NEW n, Kept(n, Past(c)) PROVE R(n) >= Zero
                <5>1. n >= Zero /\ n \in Int
                    BY <4>1 DEF Kept
                <5> QED  BY <1>1, <1>4, <1>5, <4>1, <5>1, ZeroIsPast
            <4> QED  BY <4>1
        <3>3. Due(w, asked) \in {Zero, R(t.retry), R(t.block)}
              /\ Due(w, asked) >= R(t.retry) /\ Due(w, asked) >= R(t.block)
            BY <1>7, <1>8, <2>2
        <3>4. R(d) >= R(t.retry) /\ R(d) >= R(t.block) /\ R(d) \in {Zero, R(t.retry), R(t.block)}
            BY <1>10, <3>1
        <3> QED  BY <1>7, <2>1, <3>2, <3>3, <3>4, ZeroIsPast
    <2>3. CASE ~asked
        BY <1>7, <1>8, <1>10, <2>1, <2>3
    <2> QED  BY <2>2, <2>3
<1> QED  BY <1>3, <1>6, <1>11 DEF w, d, R

\* What the model keeps of the times decides as the times would, for every key
\* and whatever is asked for: which key has a usable state or was tried before,
\* which is due, how long another has to wait, and which of two comes first
\* (src/refresh.go refreshDue compares times).
THEOREM RanksDecideAsTimes ==
    ASSUME NEW c \in [Keys -> Times], \A k \in Keys : Floored(c[k]), Settle(c)
    PROVE  \A j, k \in Keys, a, b \in BOOLEAN :
              /\ at'[k].refresh = Zero <=> c[k].refresh = Zero
              /\ at'[k].retry = Zero <=> c[k].retry = Zero
              /\ Due(at'[k], b) <= 0 <=> Due(c[k], b) <= 0
              /\ Due(c[k], b) > 0 => Due(at'[k], b) = Due(c[k], b)
              /\ Due(at'[j], a) < Due(at'[k], b) <=> Due(c[j], a) < Due(c[k], b)
<1> DEFINE kept == [k \in Keys |-> Trimmed(c[k])]
           past == Past(kept)
<1>1. at' = [k \in Keys |-> [refresh |-> Ranked(kept[k].refresh, past),
                             retry |-> Ranked(kept[k].retry, past),
                             block |-> Ranked(kept[k].block, past)]]
    BY DEF Settle
<1>2. ASSUME NEW k \in Keys, NEW b \in BOOLEAN
      PROVE  /\ kept[k] \in Times /\ Floored(kept[k])
             /\ Due(kept[k], b) = Due(c[k], b)
             /\ kept[k].refresh = Zero <=> c[k].refresh = Zero
             /\ kept[k].retry = c[k].retry
    <2> DEFINE t == c[k]
    <2>1. t \in Times /\ Floored(t)
        OBVIOUS
    <2> HIDE DEF t
    <2>2. /\ Trimmed(t) \in Times /\ Floored(Trimmed(t)) /\ Due(Trimmed(t), b) = Due(t, b)
          /\ (Trimmed(t).refresh = Zero <=> t.refresh = Zero) /\ Trimmed(t).retry = t.retry
        BY <2>1, TrimmingKeepsDeadlines
    <2> QED  BY <2>2 DEF t
<1>3. kept \in [Keys -> Times]
    BY <1>2
<1>4. ASSUME NEW k \in Keys
      PROVE  Kept(kept[k].refresh, past) /\ Kept(kept[k].retry, past) /\ Kept(kept[k].block, past)
    <2>1. kept[k] \in Times /\ Floored(kept[k])
        BY <1>2
    <2>2. \A n \in {kept[k].refresh, kept[k].retry, kept[k].block} :
            Spent < n /\ n <= 0 => n \in past
        BY DEF Past
    <2> HIDE DEF past, kept
    <2> QED  BY <2>1, <2>2 DEF Kept, Times, Floored
<1> HIDE DEF kept
<1>5. ASSUME NEW k \in Keys, NEW b \in BOOLEAN
      PROVE  /\ Due(at'[k], b) = Ranked(Due(c[k], b), past) /\ Kept(Due(c[k], b), past)
             /\ at'[k].refresh = Ranked(kept[k].refresh, past)
             /\ at'[k].retry = Ranked(kept[k].retry, past)
    <2>1. at'[k] = [refresh |-> Ranked(kept[k].refresh, past),
                    retry |-> Ranked(kept[k].retry, past),
                    block |-> Ranked(kept[k].block, past)]
        BY <1>1
    <2> QED  BY <1>2, <1>3, <1>4, <2>1, DueOfRanks
<1>6. ASSUME NEW m, NEW n, Kept(m, past), Kept(n, past)
      PROVE  /\ Ranked(n, past) \in Int /\ n \in Int /\ m \in Int
             /\ Ranked(n, past) = Zero <=> n = Zero
             /\ n > 0 => Ranked(n, past) = n
             /\ n <= 0 => Ranked(n, past) <= 0
             /\ m < n => Ranked(m, past) < Ranked(n, past)
    BY <1>3, <1>6, RanksAreOrdered DEF Kept
<1> HIDE DEF past
<1>7. ASSUME NEW j \in Keys, NEW k \in Keys, NEW a \in BOOLEAN, NEW b \in BOOLEAN
      PROVE  /\ Due(at'[k], b) <= 0 <=> Due(c[k], b) <= 0
             /\ Due(c[k], b) > 0 => Due(at'[k], b) = Due(c[k], b)
             /\ Due(at'[j], a) < Due(at'[k], b) <=> Due(c[j], a) < Due(c[k], b)
    <2> DEFINE m == Due(c[j], a)
               n == Due(c[k], b)
    <2>1. Due(at'[j], a) = Ranked(m, past) /\ Due(at'[k], b) = Ranked(n, past)
          /\ Kept(m, past) /\ Kept(n, past)
        BY <1>5
    <2> HIDE DEF m, n
    <2>2. /\ m \in Int /\ n \in Int /\ Ranked(m, past) \in Int /\ Ranked(n, past) \in Int
          /\ n > 0 => Ranked(n, past) = n
          /\ n <= 0 => Ranked(n, past) <= 0
          /\ m < n => Ranked(m, past) < Ranked(n, past)
          /\ n < m => Ranked(n, past) < Ranked(m, past)
          /\ m = n => Ranked(n, past) = Ranked(m, past)
        BY <1>6, <2>1
    <2>3. /\ Ranked(n, past) <= 0 <=> n <= 0
          /\ Ranked(m, past) < Ranked(n, past) <=> m < n
        BY <2>2
    <2> QED  BY <2>1, <2>2, <2>3 DEF m, n
<1>8. ASSUME NEW k \in Keys
      PROVE  /\ at'[k].refresh = Zero <=> c[k].refresh = Zero
             /\ at'[k].retry = Zero <=> c[k].retry = Zero
    <2>1. /\ kept[k].refresh = Zero <=> c[k].refresh = Zero
          /\ kept[k].retry = c[k].retry
        BY <1>2
    <2>2. /\ at'[k].refresh = Ranked(kept[k].refresh, past)
          /\ at'[k].retry = Ranked(kept[k].retry, past)
        BY <1>5
    <2>3. /\ Ranked(kept[k].refresh, past) = Zero <=> kept[k].refresh = Zero
          /\ Ranked(kept[k].retry, past) = Zero <=> kept[k].retry = Zero
        BY <1>4, <1>6
    <2> QED  BY <2>1, <2>2, <2>3
<1> QED  BY <1>7, <1>8
==============================================================================
