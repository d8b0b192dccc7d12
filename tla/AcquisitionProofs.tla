-------------------------- MODULE AcquisitionProofs --------------------------
(***************************************************************************)
(* Proofs about Acquisition, for any number of keys, credentials and tasks *)
(* and any limits: one acquisition per key, no task that outlives its      *)
(* configuration, nothing cached by a task that was told to stop, no slot  *)
(* or budget overspent, and every task on its way to its end.              *)
(***************************************************************************)
EXTENDS Acquisition, FiniteSetTheorems, TLAPS

\* Every working task that was told to stop knows it, only a task that passed
\* its last locked section can have cached, and it did not when it was told.
StopIsKnown ==
    /\ \A t \in Working : tasks[t].withdrawn => tasks[t].cancelled
    /\ \A t \in Tasks : tasks[t].cached => tasks[t].step = "release"

IInv == TypeOK /\ OnePerKey /\ GenerationCoherent /\ StopIsKnown /\ NoWithdrawnCache

\* What a step may do to the tasks without touching probing, activeCancel and
\* generation: move them among the working steps, and stop them.
Quiet ==
    /\ UNCHANGED <<probing, activeCancel, generation>>
    /\ \A t \in Tasks :
        /\ \/ tasks'[t].step = tasks[t].step
           \/ t \in Working /\ tasks'[t].step \in Steps \ {"free", "release"}
        /\ tasks'[t].key = tasks[t].key /\ tasks'[t].gen = tasks[t].gen
        /\ tasks'[t].cached = tasks[t].cached
        /\ tasks'[t].withdrawn =>
              \/ tasks[t].withdrawn /\ (tasks[t].cancelled => tasks'[t].cancelled)
              \/ t \in Working /\ tasks'[t].cancelled

LEMMA QuietKeeps ==
    ASSUME IInv, Quiet
    PROVE  (OnePerKey /\ GenerationCoherent /\ StopIsKnown /\ NoWithdrawnCache)'
<1>1. Working' = Working
    BY DEF Quiet, Working, Live, IInv, TypeOK, Task, Steps
<1>2. Live' = Live
    BY DEF Quiet, Working, Live, IInv, TypeOK, Task, Steps
<1>3. OnePerKey'
    <2>1. \A t \in Working : tasks'[t].key = tasks[t].key
        BY DEF Quiet, Working, Live
    <2>2. {tasks'[t].key : t \in Working} = {tasks[t].key : t \in Working}
        BY <2>1
    <2> QED  BY <1>1, <2>1, <2>2 DEF IInv, OnePerKey, Quiet
<1>4. GenerationCoherent'
    BY <1>2 DEF IInv, GenerationCoherent, Quiet, Live
<1>5. StopIsKnown'
    BY <1>1 DEF IInv, StopIsKnown, Quiet, Working, Live
<1>6. NoWithdrawnCache'
    BY DEF IInv, StopIsKnown, NoWithdrawnCache, Quiet, Working, Live
<1> QED  BY <1>3, <1>4, <1>5, <1>6

LEMMA FreeIsTask == Free \in Task
<1> USE DEF Free, Task, Steps
<1>1. Free.step \in Steps /\ Free.key \in Keys \cup {NoKey}
    OBVIOUS
<1> QED  BY <1>1

LEMMA InitIInv == Init => IInv
<1> SUFFICES ASSUME Init PROVE IInv
    OBVIOUS
<1>1. \A t \in Tasks : tasks[t] = Free
    BY DEF Init
<1>2. Live = {} /\ Working = {}
    BY <1>1 DEF Live, Working, Free
<1>3. TypeOK
    <2>1. tasks \in [Tasks -> Task]
        BY FreeIsTask DEF Init
    <2>2. host \in [Auths -> Identities] /\ selected \in [Keys -> SUBSET Identities]
        BY DEF Init
    <2>3. activeCancel \in [Keys -> Tasks \cup {NoTask}]
        BY DEF Init
    <2>4. inFlight \in [Auths -> Nat] /\ counts \in [Auths -> Nat]
        BY DEF Init
    <2> QED  BY <2>1, <2>2, <2>3, <2>4 DEF Init, TypeOK
<1>4. OnePerKey
    BY <1>2 DEF OnePerKey, Init
<1>5. GenerationCoherent /\ StopIsKnown /\ NoWithdrawnCache
    BY <1>1, <1>2 DEF GenerationCoherent, StopIsKnown, NoWithdrawnCache, Free
<1> QED  BY <1>3, <1>4, <1>5 DEF IInv

----------------------------------------------------------------------------
(* One step per action.                                                    *)

\* The width of a wave is an integer, so the requests of a wave are counted
\* by a natural number.
LEMMA WidthIsInt ==
    ASSUME TypeOK, NEW t \in Tasks, tasks[t].key \in Keys
    PROVE  Width(t) \in Int
<1> DEFINE a == AuthOf[tasks[t].key]
           room == limit - (inFlight[a] - tasks[t].slots)
           rest == MaxPerHour - counts[a]
<1>1. a \in Auths /\ tasks[t].slots \in Int /\ room \in Int /\ rest \in Int
    BY AcquisitionAssumption DEF TypeOK, Task
<1>2. ASSUME NEW x \in Int, NEW y \in Int PROVE Min({x, y}) \in Int
    <2>1. \E m \in {x, y} : \A w \in {x, y} : m =< w
        OBVIOUS
    <2>2. Min({x, y}) \in {x, y}
        BY <2>1 DEF Min
    <2> QED  BY <2>2
<1>3. ASSUME NEW x \in Int, NEW y \in Int, NEW z \in Int PROVE Min({x, y, z}) \in Int
    <2>1. \E m \in {x, y, z} : \A w \in {x, y, z} : m =< w
        OBVIOUS
    <2>2. Min({x, y, z}) \in {x, y, z}
        BY <2>1 DEF Min
    <2> QED  BY <2>2
<1>4. CASE Continuous
    <2>1. Width(t) = Min({tasks[t].slots, room})
        BY <1>4 DEF Width
    <2> QED  BY <2>1, <1>1, <1>2
<1>5. CASE ~Continuous
    <2>1. Width(t) = Min({tasks[t].slots, room, rest})
        BY <1>5 DEF Width
    <2> QED  BY <2>1, <1>1, <1>3
<1> QED  BY <1>4, <1>5

\* A working task has a key, and its cancel function is filed under it.
LEMMA WorkingIsFiled ==
    ASSUME IInv, NEW t \in Working
    PROVE  /\ t \in Tasks /\ tasks[t].key \in Keys /\ tasks[t].key \in probing
           /\ activeCancel[tasks[t].key] = t
           /\ tasks[t].gen = generation
  BY DEF IInv, TypeOK, OnePerKey, GenerationCoherent, Working, Live

\* A task with one field changed is a task.
LEMMA TaskUpdate ==
    ASSUME NEW x \in Task
    PROVE  /\ \A s \in Steps : [x EXCEPT !.step = s] \in Task
           /\ \A n \in Nat : [x EXCEPT !.waves = n] \in Task
           /\ \A n \in Nat : [x EXCEPT !.running = n] \in Task
           /\ \A b \in BOOLEAN : [x EXCEPT !.ok = b] \in Task
           /\ \A b \in BOOLEAN : [x EXCEPT !.credential = b] \in Task
           /\ \A b \in BOOLEAN : [x EXCEPT !.cancelled = b] \in Task
           /\ \A b \in BOOLEAN : [x EXCEPT !.withdrawn = b] \in Task
           /\ \A b \in BOOLEAN : [x EXCEPT !.cached = b] \in Task
<1>1. \A s \in Steps : [x EXCEPT !.step = s] \in Task
    BY DEF Task
<1>2. \A n \in Nat : [x EXCEPT !.waves = n] \in Task
    BY DEF Task
<1>3. \A n \in Nat : [x EXCEPT !.running = n] \in Task
    BY DEF Task
<1>4. \A b \in BOOLEAN : [x EXCEPT !.ok = b] \in Task
    BY DEF Task
<1>5. \A b \in BOOLEAN : [x EXCEPT !.credential = b] \in Task
    BY DEF Task
<1>6. \A b \in BOOLEAN : [x EXCEPT !.cancelled = b] \in Task
    BY DEF Task
<1>7. \A b \in BOOLEAN : [x EXCEPT !.withdrawn = b] \in Task
    BY DEF Task
<1>8. \A b \in BOOLEAN : [x EXCEPT !.cached = b] \in Task
    BY DEF Task
<1> QED  BY <1>1, <1>2, <1>3, <1>4, <1>5, <1>6, <1>7, <1>8

\* A task that sends a wave of n requests, and one that collects a result.
LEMMA WaveUpdate ==
    ASSUME NEW x \in Task, NEW n \in Nat
    PROVE  LET u == [x EXCEPT !.step = "wave", !.waves = @ + 1, !.running = n]
           IN  /\ u \in Task /\ u.step = "wave" /\ u.key = x.key /\ u.gen = x.gen
               /\ u.cached = x.cached /\ u.withdrawn = x.withdrawn
               /\ u.cancelled = x.cancelled
<1> DEFINE y == [x EXCEPT !.step = "wave"]
           z == [y EXCEPT !.waves = x.waves + 1]
           u == [z EXCEPT !.running = n]
<1>1. y \in Task /\ x.waves + 1 \in Nat
    BY TaskUpdate DEF Steps, Task
<1>2. z \in Task
    BY <1>1, TaskUpdate
<1>3. u \in Task
    BY <1>2, TaskUpdate
<1>4. u = [x EXCEPT !.step = "wave", !.waves = @ + 1, !.running = n]
    OBVIOUS
<1>5. /\ u.step = "wave" /\ u.key = x.key /\ u.gen = x.gen /\ u.cached = x.cached
      /\ u.withdrawn = x.withdrawn /\ u.cancelled = x.cancelled
    BY DEF Task
<1> QED  BY <1>3, <1>4, <1>5

LEMMA FetchUpdate ==
    ASSUME NEW x \in Task, x.running > 0, NEW outcome
    PROVE  LET u == [x EXCEPT !.running = @ - 1, !.ok = @ \/ outcome = "ok",
                        !.credential = @ \/ outcome = "credential"]
           IN  /\ u \in Task /\ u.step = x.step /\ u.key = x.key /\ u.gen = x.gen
               /\ u.cached = x.cached /\ u.withdrawn = x.withdrawn
               /\ u.cancelled = x.cancelled
<1> DEFINE o == x.ok \/ outcome = "ok"
           d == x.credential \/ outcome = "credential"
           y == [x EXCEPT !.running = x.running - 1]
           z == [y EXCEPT !.ok = o]
           u == [z EXCEPT !.credential = d]
<1>1. x.running - 1 \in Nat /\ o \in BOOLEAN /\ d \in BOOLEAN
    BY DEF Task
<1>2. y \in Task
    BY <1>1, TaskUpdate
<1>3. z \in Task
    <2> HIDE DEF o, y
    <2> QED  BY <1>1, <1>2, TaskUpdate
<1>4. u \in Task
    <2> HIDE DEF d, z
    <2> QED  BY <1>1, <1>3, TaskUpdate
<1>5. u = [x EXCEPT !.running = @ - 1, !.ok = o, !.credential = d]
    <2> HIDE DEF o, d
    <2> QED  OBVIOUS
<1>6. /\ u.step = x.step /\ u.key = x.key /\ u.gen = x.gen /\ u.cached = x.cached
      /\ u.withdrawn = x.withdrawn /\ u.cancelled = x.cancelled
    <2> HIDE DEF o, d
    <2> QED  BY DEF Task
<1> QED  BY <1>4, <1>5, <1>6

\* A step of one task that keeps its key, generation and history and stays
\* away from the first and the last locked section is quiet.
LEMMA OwnStepKeeps ==
    ASSUME IInv, NEW t \in Working, NEW u \in Task,
           tasks' = [tasks EXCEPT ![t] = u],
           u.step \in Steps \ {"free", "release"},
           u.key = tasks[t].key, u.gen = tasks[t].gen, u.cached = tasks[t].cached,
           u.withdrawn = tasks[t].withdrawn, u.cancelled = tasks[t].cancelled,
           UNCHANGED <<controlVars, inFlight, probing, activeCancel, selected, host>>,
           counts' \in [Auths -> Nat]
    PROVE  IInv'
<1>1. t \in Tasks
    BY DEF Working, Live
<1>2. \A s \in Tasks : tasks'[s] = IF s = t THEN u ELSE tasks[s]
    BY <1>1 DEF IInv, TypeOK
<1>3. Quiet
    BY <1>1, <1>2 DEF Quiet, controlVars
<1>4. TypeOK'
    BY <1>1 DEF IInv, TypeOK, controlVars
<1> QED  BY <1>3, <1>4, QuietKeeps DEF IInv

LEMMA ReadAuthKeeps ==
    ASSUME IInv, NEW t \in Tasks, ReadAuth(t) \/ AuthFails(t)
    PROVE  IInv'
<1>1. t \in Working /\ tasks[t] \in Task
    BY DEF ReadAuth, AuthFails, Working, Live, IInv, TypeOK
<1>2. host[AuthOf[tasks[t].key]] \in Identities /\ counts \in [Auths -> Nat]
    BY <1>1, WorkingIsFiled, AcquisitionAssumption DEF IInv, TypeOK
<1>3. CASE ReadAuth(t)
    <2> DEFINE a == AuthOf[tasks[t].key]
               u == [tasks[t] EXCEPT !.identity = host[a],
                       !.step = IF host[a] \in selected[tasks[t].key]
                                THEN "ready" ELSE "recheck"]
    <2>1. u \in Task /\ u.step \in Steps \ {"free", "release"}
        BY <1>1, <1>2 DEF Task, Steps
    <2>2. tasks' = [tasks EXCEPT ![t] = u]
        BY <1>3 DEF ReadAuth
    <2> QED  BY <1>1, <1>2, <1>3, <2>1, <2>2, OwnStepKeeps DEF ReadAuth, Task
<1>4. CASE AuthFails(t)
    <2> DEFINE u == [tasks[t] EXCEPT !.step = "recheck"]
    <2>1. u \in Task /\ u.step \in Steps \ {"free", "release"}
        BY <1>1 DEF Task, Steps
    <2>2. tasks' = [tasks EXCEPT ![t] = u]
        BY <1>4 DEF AuthFails
    <2> QED  BY <1>1, <1>2, <1>4, <2>1, <2>2, OwnStepKeeps DEF AuthFails, Task
<1> QED  BY <1>3, <1>4

LEMMA WaveStepKeeps ==
    ASSUME IInv, NEW t \in Tasks,
           StartWave(t) \/ NoWave(t) \/ WaveEnd(t)
             \/ \E outcome \in {"ok", "credential", "failed"} : FetchEnd(t, outcome)
    PROVE  IInv'
<1>1. t \in Working /\ tasks[t] \in Task
    BY DEF StartWave, NoWave, FetchEnd, WaveEnd, Working, Live, IInv, TypeOK
<1>2. tasks[t].key \in Keys /\ AuthOf[tasks[t].key] \in Auths /\ counts \in [Auths -> Nat]
    BY <1>1, WorkingIsFiled, AcquisitionAssumption DEF IInv, TypeOK
<1>3. CASE StartWave(t)
    <2> DEFINE a == AuthOf[tasks[t].key]
    <2>1. Width(t) \in Int
        BY <1>2, WidthIsInt DEF IInv
    <2>2. PICK n \in 1..Width(t) :
             /\ tasks' = [tasks EXCEPT ![t].step = "wave", ![t].waves = @ + 1,
                                       ![t].running = n]
             /\ counts' = IF Continuous THEN counts ELSE [counts EXCEPT ![a] = @ + n]
        BY <1>3 DEF StartWave
    <2>3. n \in Nat
        BY <2>1
    <2> DEFINE u == [tasks[t] EXCEPT !.step = "wave", !.waves = @ + 1, !.running = n]
    <2>4. /\ u \in Task /\ u.step \in Steps \ {"free", "release"}
          /\ u.key = tasks[t].key /\ u.gen = tasks[t].gen /\ u.cached = tasks[t].cached
          /\ u.withdrawn = tasks[t].withdrawn /\ u.cancelled = tasks[t].cancelled
        BY <1>1, <2>3, WaveUpdate DEF Steps
    <2>5. tasks' = [tasks EXCEPT ![t] = u]
        BY <1>1, <2>2 DEF IInv, TypeOK
    <2>6. counts' \in [Auths -> Nat]
        BY <1>2, <2>2, <2>3
    <2> HIDE DEF u
    <2> QED  BY <1>1, <1>3, <2>4, <2>5, <2>6, OwnStepKeeps DEF StartWave
<1>4. CASE NoWave(t)
    <2> DEFINE u == [tasks[t] EXCEPT !.step = "finish"]
    <2>1. u \in Task /\ u.step \in Steps \ {"free", "release"}
        BY <1>1 DEF Task, Steps
    <2>2. tasks' = [tasks EXCEPT ![t] = u]
        BY <1>4 DEF NoWave
    <2> QED  BY <1>1, <1>2, <1>4, <2>1, <2>2, OwnStepKeeps DEF NoWave, Task
<1>5. ASSUME NEW outcome \in {"ok", "credential", "failed"}, FetchEnd(t, outcome)
      PROVE  IInv'
    <2> DEFINE u == [tasks[t] EXCEPT !.running = @ - 1,
                        !.ok = @ \/ outcome = "ok",
                        !.credential = @ \/ outcome = "credential"]
    <2>1. tasks[t].step = "wave" /\ tasks[t].running > 0
        BY <1>5 DEF FetchEnd
    <2>2. /\ u \in Task /\ u.step \in Steps \ {"free", "release"}
          /\ u.key = tasks[t].key /\ u.gen = tasks[t].gen /\ u.cached = tasks[t].cached
          /\ u.withdrawn = tasks[t].withdrawn /\ u.cancelled = tasks[t].cancelled
        BY <1>1, <2>1, FetchUpdate DEF Steps
    <2>3. tasks' = [tasks EXCEPT ![t] = u]
        BY <1>1, <1>5 DEF FetchEnd, IInv, TypeOK
    <2> HIDE DEF u
    <2> QED  BY <1>1, <1>2, <1>5, <2>2, <2>3, OwnStepKeeps DEF FetchEnd
<1>6. CASE WaveEnd(t)
    <2> DEFINE u == [tasks[t] EXCEPT !.step =
                        IF \/ tasks[t].ok \/ tasks[t].credential \/ tasks[t].cancelled
                           \/ tasks[t].waves >= MaxAttempts
                        THEN "finish" ELSE "ready"]
    <2>1. u \in Task /\ u.step \in Steps \ {"free", "release"}
        BY <1>1 DEF Task, Steps
    <2>2. tasks' = [tasks EXCEPT ![t] = u]
        BY <1>6 DEF WaveEnd
    <2> QED  BY <1>1, <1>2, <1>6, <2>1, <2>2, OwnStepKeeps DEF WaveEnd, Task
<1> QED  BY <1>3, <1>4, <1>5, <1>6

LEMMA RecheckKeeps ==
    ASSUME IInv, NEW t \in Tasks, Recheck(t)
    PROVE  IInv'
<1>1. t \in Working /\ tasks[t] \in Task /\ counts \in [Auths -> Nat]
    BY DEF Recheck, Working, Live, IInv, TypeOK
<1>2. PICK same \in {TRUE, FALSE} :
          tasks' = [tasks EXCEPT ![t].step = "recheck", ![t].ok = @ /\ same]
    BY DEF Recheck
<1> DEFINE u == [tasks[t] EXCEPT !.step = "recheck", !.ok = @ /\ same]
<1>3. u \in Task /\ u.step \in Steps \ {"free", "release"}
    BY <1>1 DEF Task, Steps
<1>4. tasks' = [tasks EXCEPT ![t] = u]
    BY <1>1, <1>2 DEF IInv, TypeOK
<1> QED  BY <1>1, <1>3, <1>4, OwnStepKeeps DEF Recheck, Task

\* An order to stop the tasks on the keys K that reaches all of them (their
\* cancel functions are among C) is quiet.
LEMMA StopKeeps ==
    ASSUME IInv, NEW K, NEW C, tasks' = Stop(K, C),
           \A t \in Working : tasks[t].key \in K => t \in C,
           UNCHANGED <<probing, activeCancel, generation>>
    PROVE  /\ tasks' \in [Tasks -> Task]
           /\ (OnePerKey /\ GenerationCoherent /\ StopIsKnown /\ NoWithdrawnCache)'
<1> DEFINE v(t) == tasks[t].withdrawn \/ (t \in Working /\ tasks[t].key \in K)
           c(t) == tasks[t].cancelled \/ t \in C
<1>1. \A t \in Tasks : tasks'[t] = [tasks[t] EXCEPT !.withdrawn = v(t), !.cancelled = c(t)]
    BY DEF Stop
<1>2. \A t \in Tasks : tasks[t] \in Task
    BY DEF IInv, TypeOK
<1>3. \A t \in Tasks : v(t) \in BOOLEAN /\ c(t) \in BOOLEAN
    BY <1>2 DEF Task
<1>4. ASSUME NEW t \in Tasks
      PROVE  /\ tasks'[t] \in Task /\ tasks'[t].step = tasks[t].step
             /\ tasks'[t].key = tasks[t].key /\ tasks'[t].gen = tasks[t].gen
             /\ tasks'[t].cached = tasks[t].cached
             /\ (tasks'[t].withdrawn <=> v(t)) /\ (tasks'[t].cancelled <=> c(t))
    <2> DEFINE x == tasks[t]
               y == [x EXCEPT !.withdrawn = v(t)]
               u == [y EXCEPT !.cancelled = c(t)]
    <2>1. x \in Task /\ v(t) \in BOOLEAN /\ c(t) \in BOOLEAN
        BY <1>2, <1>3
    <2>2. tasks'[t] = u
        BY <1>1
    <2> HIDE DEF v, c, x
    <2>3. y \in Task
        BY <2>1, TaskUpdate
    <2>4. u \in Task
        <3> HIDE DEF y
        <3> QED  BY <2>1, <2>3, TaskUpdate
    <2>5. /\ u.step = x.step /\ u.key = x.key /\ u.gen = x.gen /\ u.cached = x.cached
        BY <2>1 DEF Task
    <2>6. /\ (u.withdrawn <=> v(t)) /\ (u.cancelled <=> c(t))
        BY <2>1 DEF Task
    <2> HIDE DEF u
    <2> QED  BY <2>2, <2>4, <2>5, <2>6 DEF x
<1>5. tasks' \in [Tasks -> Task]
    BY <1>1, <1>4 DEF Stop
<1>6. Quiet
    BY <1>4 DEF Quiet
<1> QED  BY <1>5, <1>6, QuietKeeps

SomeReselect ==
    \E chosen \in SUBSET Keys, read \in [Auths -> Identities] : Reselect(chosen, read)

LEMMA CancelKeeps ==
    ASSUME IInv, CancelAll \/ SomeReselect
    PROVE  IInv'
<1>1. CASE CancelAll
    <2>1. \A t \in Working : t \in Cancellable(Keys)
        BY WorkingIsFiled, AcquisitionAssumption DEF Cancellable
    <2> QED  BY <1>1, <2>1, StopKeeps DEF CancelAll, IInv, TypeOK, controlVars
<1>2. ASSUME NEW chosen \in SUBSET Keys, NEW accounts \in [Auths -> Identities],
             Reselect(chosen, accounts)
      PROVE  IInv'
    <2>1. \A t \in Working :
              tasks[t].key \in Keys \ chosen => t \in Cancellable(probing \ chosen)
        BY WorkingIsFiled, AcquisitionAssumption DEF Cancellable
    <2>2. selected' \in [Keys -> SUBSET Identities]
        BY <1>2, AcquisitionAssumption DEF Reselect, IInv, TypeOK
    <2>3. /\ tasks' = Stop(Keys \ chosen, Cancellable(probing \ chosen))
          /\ UNCHANGED <<controlVars, inFlight, probing, activeCancel, counts, host>>
        BY <1>2 DEF Reselect
    <2>4. /\ tasks' \in [Tasks -> Task]
          /\ (OnePerKey /\ GenerationCoherent /\ StopIsKnown /\ NoWithdrawnCache)'
        BY <2>1, <2>3, StopKeeps DEF controlVars
    <2> QED  BY <2>2, <2>3, <2>4 DEF IInv, TypeOK, controlVars
<1> QED  BY <1>1, <1>2 DEF SomeReselect

LEMMA StopBackgroundKeeps ==
    ASSUME IInv, BeginConfigure \/ \E call \in {"quiesce", "shutdown"} : BeginQuiesce(call)
    PROVE  IInv'
<1>1. PICK next \in {"configure", "quiesce", "shutdown"} : StopBackground(next)
    BY DEF BeginConfigure, BeginQuiesce
<1>2. accepting' \in BOOLEAN
    BY DEF BeginConfigure, BeginQuiesce, IInv, TypeOK
<1> QED  BY <1>1, <1>2, StopKeeps DEF StopBackground, IInv, TypeOK

----------------------------------------------------------------------------
(* The first and the last locked section, and the end of a task.           *)

LEMMA PrepareKeeps ==
    ASSUME IInv, NEW t \in Tasks, NEW k \in Keys, Prepare(t, k)
    PROVE  IInv'
<1> DEFINE a == AuthOf[k]
<1>1. PICK n \in 1..(limit - inFlight[a]) :
         /\ inFlight' = [inFlight EXCEPT ![a] = @ + n]
         /\ tasks' = [tasks EXCEPT ![t] = [Free EXCEPT
                          !.step = "reserved", !.key = k, !.slots = n, !.gen = generation]]
    BY DEF Prepare
<1> DEFINE u == [Free EXCEPT !.step = "reserved", !.key = k, !.slots = n,
                    !.gen = generation]
<1>2. n \in Nat /\ generation \in Nat
    BY AcquisitionAssumption DEF IInv, TypeOK
<1>3. /\ u \in Task /\ u.step = "reserved" /\ u.key = k /\ u.gen = generation
      /\ u.cached = FALSE /\ u.withdrawn = FALSE
    BY <1>2 DEF Free, Task, Steps
<1>4. \A s \in Tasks : tasks'[s] = IF s = t THEN u ELSE tasks[s]
    BY <1>1 DEF IInv, TypeOK
<1>5. /\ tasks' \in [Tasks -> Task] /\ tasks[t].step = "free" /\ t \notin Working
      /\ k \notin probing /\ probing' = probing \cup {k}
      /\ activeCancel' = [activeCancel EXCEPT ![k] = t]
      /\ UNCHANGED <<controlVars, selected, host>>
    <2>1. tasks' \in [Tasks -> Task]
        BY <1>1, <1>3 DEF IInv, TypeOK
    <2> QED  BY <2>1 DEF Prepare, Due, Working, Live
<1> HIDE DEF u
<1>6. Working' = Working \cup {t}
    BY <1>3, <1>4 DEF Working, Live
<1>7. TypeOK'
    <2>1. inFlight' \in [Auths -> Nat]
        BY <1>1, <1>2, AcquisitionAssumption DEF IInv, TypeOK
    <2>2. counts' \in [Auths -> Nat]
        BY DEF Prepare, Budget, IInv, TypeOK
    <2> QED  BY <1>5, <2>1, <2>2 DEF IInv, TypeOK, controlVars
<1>8. OnePerKey'
    <2>1. \A s \in Working : s # t /\ tasks'[s] = tasks[s] /\ tasks[s].key \in probing
        BY <1>4, <1>5 DEF IInv, OnePerKey, Working, Live
    <2>2. {tasks'[s].key : s \in Working'} = {tasks[s].key : s \in Working} \cup {k}
        BY <1>3, <1>4, <1>6, <2>1
    <2>3. probing' = {tasks'[s].key : s \in Working'}
        BY <1>5, <2>2 DEF IInv, OnePerKey
    <2>4. \A s \in Working' : activeCancel'[tasks'[s].key] = s
        BY <1>3, <1>4, <1>5, <1>6, <2>1 DEF IInv, OnePerKey, TypeOK
    <2> QED  BY <2>3, <2>4 DEF OnePerKey
<1>9. GenerationCoherent'
    BY <1>3, <1>4, <1>5 DEF IInv, GenerationCoherent, Live, controlVars
<1>10. StopIsKnown' /\ NoWithdrawnCache'
    BY <1>3, <1>4, <1>6 DEF IInv, StopIsKnown, NoWithdrawnCache, Working, Live
<1> QED  BY <1>7, <1>8, <1>9, <1>10 DEF IInv

LEMMA CommitKeeps ==
    ASSUME IInv, NEW t \in Tasks, Commit(t)
    PROVE  IInv'
<1> DEFINE k == tasks[t].key
           cache == /\ tasks[t].ok /\ ~tasks[t].cancelled /\ accepting
                    /\ tasks[t].identity \in selected[tasks[t].key]
           y == [tasks[t] EXCEPT !.step = "release"]
           u == [y EXCEPT !.cached = cache]
<1>1. t \in Working /\ tasks[t] \in Task /\ tasks[t].gen = generation
    BY DEF Commit, IInv, TypeOK, GenerationCoherent, Working, Live
<1>2. /\ probing' = probing \ {k} /\ activeCancel' = [activeCancel EXCEPT ![k] = NoTask]
      /\ tasks' = [tasks EXCEPT ![t].step = "release", ![t].cached = cache]
      /\ UNCHANGED <<controlVars, inFlight, counts, selected, host>>
    BY <1>1 DEF Commit
<1>3. cache \in BOOLEAN
    OBVIOUS
<1>4. y \in Task
    BY <1>1, TaskUpdate DEF Steps
<1>5. u \in Task
    <2> HIDE DEF y, cache
    <2> QED  BY <1>3, <1>4, TaskUpdate
<1>6. /\ u.step = "release" /\ u.key = k /\ u.gen = tasks[t].gen
      /\ u.withdrawn = tasks[t].withdrawn /\ (u.cached <=> cache)
    <2> HIDE DEF cache
    <2> QED  BY <1>1, <1>3 DEF Task
<1>7. tasks' = [tasks EXCEPT ![t] = u]
    <2> HIDE DEF cache
    <2> QED  BY <1>1, <1>2 DEF IInv, TypeOK
<1>8. cache => ~tasks[t].cancelled
    OBVIOUS
<1> HIDE DEF u, y, cache
<1>9. \A s \in Tasks : tasks'[s] = IF s = t THEN u ELSE tasks[s]
    BY <1>7 DEF IInv, TypeOK
<1>10. Working' = Working \ {t} /\ Live' = Live
    BY <1>1, <1>6, <1>9 DEF Working, Live
<1>11. TypeOK'
    BY <1>2, <1>5, <1>7 DEF IInv, TypeOK, controlVars
<1>12. OnePerKey'
    <2>1. \A s \in Working' : tasks'[s] = tasks[s] /\ s \in Working /\ s # t
        BY <1>9, <1>10 DEF Working, Live
    <2>2. \A s \in Working' : tasks[s].key # k
        BY <1>1, <2>1 DEF IInv, OnePerKey
    <2>3. {tasks'[s].key : s \in Working'} = {tasks[s].key : s \in Working} \ {k}
        BY <1>10, <2>1, <2>2
    <2>4. \A s \in Working' : activeCancel'[tasks'[s].key] = s
        BY <1>2, <2>1, <2>2, WorkingIsFiled DEF IInv, TypeOK
    <2> QED  BY <1>2, <2>3, <2>4 DEF IInv, OnePerKey
<1>13. GenerationCoherent'
    BY <1>2, <1>6, <1>9, <1>10 DEF IInv, GenerationCoherent, controlVars, Live
<1>14. StopIsKnown'
    BY <1>6, <1>9, <1>10 DEF IInv, StopIsKnown, Working, Live
<1>15. NoWithdrawnCache'
    <2>1. tasks[t].withdrawn => tasks[t].cancelled
        BY <1>1 DEF IInv, StopIsKnown
    <2> QED  BY <1>6, <1>8, <1>9, <2>1 DEF IInv, NoWithdrawnCache
<1> QED  BY <1>11, <1>12, <1>13, <1>14, <1>15 DEF IInv

LEMMA ReleaseKeeps ==
    ASSUME IInv, NEW t \in Tasks, Release(t)
    PROVE  IInv'
<1> DEFINE a == AuthOf[tasks[t].key]
<1>1. /\ tasks[t].step = "release" /\ t \notin Working
      /\ tasks' = [tasks EXCEPT ![t] = Free]
      /\ inFlight' = [inFlight EXCEPT ![a] =
                         IF @ - tasks[t].slots > 0 THEN @ - tasks[t].slots ELSE 0]
      /\ UNCHANGED <<controlVars, probing, activeCancel, counts, selected, host>>
    BY DEF Release, Working
<1>2. \A s \in Tasks : tasks'[s] = IF s = t THEN Free ELSE tasks[s]
    BY <1>1 DEF IInv, TypeOK
<1>3. Free.step = "free" /\ Free.cached = FALSE /\ Free.withdrawn = FALSE
    BY DEF Free
<1>4. Working' = Working /\ Live' = Live \ {t}
    BY <1>1, <1>2, <1>3 DEF Working, Live
<1>5. TypeOK'
    <2> DEFINE n == tasks[t].slots
               rest == IF inFlight[a] - n > 0 THEN inFlight[a] - n ELSE 0
    <2>1. inFlight' \in [Auths -> Nat]
        <3>1. n \in Nat /\ inFlight \in [Auths -> Nat]
            BY DEF IInv, TypeOK, Task
        <3>2. a \in Auths => rest \in Nat
            BY <3>1
        <3>3. inFlight' = [inFlight EXCEPT ![a] = rest]
            BY <1>1
        <3> HIDE DEF a, rest
        <3> QED  BY <3>1, <3>2, <3>3
    <2>2. tasks' \in [Tasks -> Task]
        BY <1>1, FreeIsTask DEF IInv, TypeOK
    <2> QED  BY <1>1, <2>1, <2>2 DEF IInv, TypeOK, controlVars
<1>6. OnePerKey'
    <2>1. \A s \in Working : tasks'[s] = tasks[s]
        BY <1>1, <1>2 DEF Working, Live
    <2>2. {tasks'[s].key : s \in Working} = {tasks[s].key : s \in Working}
        BY <2>1
    <2> QED  BY <1>1, <1>4, <2>1, <2>2 DEF IInv, OnePerKey
<1>7. GenerationCoherent'
    BY <1>1, <1>2, <1>4 DEF IInv, GenerationCoherent, Live, controlVars
<1>8. StopIsKnown' /\ NoWithdrawnCache'
    BY <1>1, <1>2, <1>3, <1>4 DEF IInv, StopIsKnown, NoWithdrawnCache, Working, Live
<1> QED  BY <1>5, <1>6, <1>7, <1>8 DEF IInv

\* A lifecycle call returns only when no task is left, so the generation may
\* change and the table of keys may be replaced.
LEMMA FinishKeeps ==
    ASSUME IInv, Finish
    PROVE  IInv'
<1>1. Live = {} /\ Working = {} /\ UNCHANGED <<tasks, counts, selected, host>>
    BY DEF Finish, FinishConfigure, FailConfigure, FinishQuiesce, Drained, Working
<1>2. Live' = {} /\ Working' = {}
    BY <1>1 DEF Live, Working
<1>3. probing = {}
    BY <1>1 DEF IInv, OnePerKey
<1>4. TypeOK' /\ probing' = {}
    <2>1. CASE FinishConfigure
        BY <1>1, <2>1 DEF FinishConfigure, IInv, TypeOK
    <2>2. CASE FailConfigure
        BY <1>1, <1>3, <2>2 DEF FailConfigure, IInv, TypeOK
    <2>3. CASE FinishQuiesce
        BY <1>1, <1>3, <2>3 DEF FinishQuiesce, IInv, TypeOK
    <2> QED  BY <2>1, <2>2, <2>3 DEF Finish
<1>5. OnePerKey'
    BY <1>2, <1>4 DEF OnePerKey
<1>6. GenerationCoherent' /\ StopIsKnown' /\ NoWithdrawnCache'
    BY <1>1, <1>2 DEF IInv, GenerationCoherent, StopIsKnown, NoWithdrawnCache
<1> QED  BY <1>4, <1>5, <1>6 DEF IInv

\* Steps that no task sees.
LEMMA ElsewhereKeeps ==
    ASSUME IInv,
           \/ \E k \in Keys : TurnAway(k)
           \/ \E n \in Limits : SaveLimit(n)
           \/ \E a \in Auths, i \in Identities : Rotate(a, i)
           \/ WorkerExit
           \/ UNCHANGED vars
    PROVE  IInv'
<1>1. UNCHANGED <<generation, probing, activeCancel, tasks>>
    BY DEF TurnAway, SaveLimit, Rotate, WorkerExit, vars, controlVars
<1>2. Working' = Working /\ Live' = Live
    BY <1>1 DEF Working, Live
<1>3. TypeOK'
    <2>1. ASSUME NEW k \in Keys, TurnAway(k) PROVE TypeOK'
        BY <2>1 DEF TurnAway, Budget, IInv, TypeOK, controlVars
    <2>2. ASSUME NEW n \in Limits, SaveLimit(n) PROVE TypeOK'
        BY <2>2 DEF SaveLimit, IInv, TypeOK
    <2>3. ASSUME NEW a \in Auths, NEW i \in Identities, Rotate(a, i) PROVE TypeOK'
        BY <2>3 DEF Rotate, IInv, TypeOK, controlVars
    <2>4. CASE WorkerExit
        BY <2>4 DEF WorkerExit, IInv, TypeOK
    <2>5. CASE UNCHANGED vars
        BY <2>5 DEF vars, controlVars, IInv, TypeOK
    <2> QED  BY <2>1, <2>2, <2>3, <2>4, <2>5
<1>4. (OnePerKey /\ GenerationCoherent /\ StopIsKnown /\ NoWithdrawnCache)'
    BY <1>1, <1>2 DEF IInv, OnePerKey, GenerationCoherent, StopIsKnown, NoWithdrawnCache
<1> QED  BY <1>3, <1>4 DEF IInv

----------------------------------------------------------------------------

LEMMA InductiveStep == IInv /\ [Next]_vars => IInv'
<1> SUFFICES ASSUME IInv, [Next]_vars PROVE IInv'
    OBVIOUS
<1>1. ASSUME NEW t \in Tasks, Step(t) PROVE IInv'
    BY <1>1, ReadAuthKeeps, WaveStepKeeps, RecheckKeeps, CommitKeeps, ReleaseKeeps DEF Step, Own, Fetches
<1>2. ASSUME NEW t \in Tasks, NEW k \in Keys, Prepare(t, k) PROVE IInv'
    BY <1>2, PrepareKeeps
<1>3. CASE CancelAll \/ SomeReselect
    BY <1>3, CancelKeeps
<1>4. CASE BeginConfigure \/ \E call \in {"quiesce", "shutdown"} : BeginQuiesce(call)
    BY <1>4, StopBackgroundKeeps
<1>5. CASE Finish
    BY <1>5, FinishKeeps
<1>6. CASE \/ \E k \in Keys : TurnAway(k)
           \/ \E n \in Limits : SaveLimit(n)
           \/ \E a \in Auths, i \in Identities : Rotate(a, i)
           \/ WorkerExit
           \/ UNCHANGED vars
    BY <1>6, ElsewhereKeeps
<1> QED  BY <1>1, <1>2, <1>3, <1>4, <1>5, <1>6 DEF Next, SomeReselect

LEMMA Invariance == Spec => []IInv
  BY InitIInv, InductiveStep, PTL DEF Spec

\* Type correctness of the acquisition state.
THEOREM TypeCorrect == Spec => []TypeOK
<1>1. IInv => TypeOK
    BY DEF IInv
<1> QED  BY <1>1, Invariance, PTL

\* A key is never acquired by two tasks at once, and cancelling it reaches
\* the task that acquires it.
THEOREM KeysAreExclusive == Spec => []OnePerKey
<1>1. IInv => OnePerKey
    BY DEF IInv
<1> QED  BY <1>1, Invariance, PTL

\* No task outlives the configuration that started it.
THEOREM GenerationsStayCoherent == Spec => []GenerationCoherent
<1>1. IInv => GenerationCoherent
    BY DEF IInv
<1> QED  BY <1>1, Invariance, PTL

\* A task that was told to stop before its last locked section caches nothing.
THEOREM WithdrawnTasksCacheNothing == Spec => []NoWithdrawnCache
<1>1. IInv => NoWithdrawnCache
    BY DEF IInv
<1> QED  BY <1>1, Invariance, PTL

----------------------------------------------------------------------------
(* The hourly budget.                                                      *)

\* A wave is no wider than what is left of the hour's budget.
LEMMA WidthWithinBudget ==
    ASSUME TypeOK, NEW t \in Tasks, tasks[t].key \in Keys, ~Continuous
    PROVE  Width(t) =< MaxPerHour - counts[AuthOf[tasks[t].key]]
<1> DEFINE a == AuthOf[tasks[t].key]
           room == limit - (inFlight[a] - tasks[t].slots)
           rest == MaxPerHour - counts[a]
           all == {tasks[t].slots, room, rest}
<1>1. tasks[t].slots \in Int /\ room \in Int /\ rest \in Int
    BY AcquisitionAssumption DEF TypeOK, Task
<1>2. \E m \in all : \A w \in all : m =< w
    BY <1>1
<1>3. \A w \in all : Min(all) =< w
    BY <1>2 DEF Min
<1>4. Width(t) = Min(all)
    BY DEF Width
<1> QED  BY <1>3, <1>4

LEMMA BudgetStep == IInv /\ BudgetHolds /\ [Next]_vars => BudgetHolds'
<1> SUFFICES ASSUME IInv, BudgetHolds, [Next]_vars, ~Continuous, NEW b \in Auths
             PROVE  counts'[b] <= MaxPerHour
    BY DEF BudgetHolds
<1>1. counts \in [Auths -> Nat] /\ counts[b] <= MaxPerHour /\ MaxPerHour \in Nat
    BY AcquisitionAssumption DEF IInv, TypeOK, BudgetHolds
<1>2. ASSUME NEW t \in Tasks, StartWave(t) PROVE counts'[b] <= MaxPerHour
    <2> DEFINE a == AuthOf[tasks[t].key]
    <2>1. tasks[t].key \in Keys /\ a \in Auths
        BY <1>2, WorkingIsFiled, AcquisitionAssumption DEF StartWave, Working, Live
    <2>2. Width(t) \in Int /\ Width(t) =< MaxPerHour - counts[a]
        BY <2>1, WidthIsInt, WidthWithinBudget DEF IInv
    <2>3. PICK n \in 1..Width(t) : counts' = [counts EXCEPT ![a] = @ + n]
        BY <1>2 DEF StartWave
    <2> HIDE DEF a
    <2>4. CASE b = a
        BY <1>1, <2>1, <2>2, <2>3, <2>4
    <2>5. CASE b # a
        BY <1>1, <2>3, <2>5
    <2> QED  BY <2>4, <2>5
<1>3. ASSUME counts' \in Budget PROVE counts'[b] <= MaxPerHour
    BY <1>1, <1>3 DEF Budget
<1>4. CASE UNCHANGED counts
    BY <1>1, <1>4
<1>5. ASSUME NEW t \in Tasks, Step(t) PROVE counts'[b] <= MaxPerHour
    BY <1>2, <1>4, <1>5 DEF Step, Own, Fetches, ReadAuth, AuthFails, NoWave, FetchEnd, WaveEnd,
       Recheck, Commit, Release
<1>6. ASSUME NEW k \in Keys, TurnAway(k) \/ \E t \in Tasks : Prepare(t, k)
      PROVE  counts'[b] <= MaxPerHour
    BY <1>3, <1>6 DEF TurnAway, Prepare
<1>7. CASE \/ CancelAll \/ BeginConfigure \/ WorkerExit \/ Finish \/ UNCHANGED vars
           \/ SomeReselect
           \/ \E n \in Limits : SaveLimit(n)
           \/ \E a \in Auths, i \in Identities : Rotate(a, i)
           \/ \E call \in {"quiesce", "shutdown"} : BeginQuiesce(call)
    BY <1>4, <1>7 DEF CancelAll, BeginConfigure, WorkerExit, Finish, FinishConfigure,
       FailConfigure, FinishQuiesce, Reselect, SaveLimit, Rotate, BeginQuiesce,
       StopBackground, vars, SomeReselect
<1> QED  BY <1>5, <1>6, <1>7 DEF Next, SomeReselect

\* Concurrent tasks on one credential never exceed its hourly budget.
THEOREM BudgetIsKept == Spec => []BudgetHolds
<1>1. Init => BudgetHolds
    BY AcquisitionAssumption DEF Init, BudgetHolds
<1> QED  BY <1>1, BudgetStep, Invariance, PTL DEF Spec

----------------------------------------------------------------------------
(* Sums over the tasks: how many units a function counts on a finite set,  *)
(* which is what the fold of the model computes.                           *)

\* The units f counts on S, one by one.
Units(f, S) == UNION {{x} \X (1..f[x]) : x \in S}

Weight(f, S) == Cardinality(Units(f, S))

\* Finitely many elements count finitely many units.
LEMMA UnitsAreFinite ==
    ASSUME NEW S, IsFiniteSet(S), NEW f, \A x \in S : f[x] \in Nat
    PROVE  IsFiniteSet(Units(f, S)) /\ Weight(f, S) \in Nat
<1> DEFINE pack == [x \in S |-> {x} \X (1..f[x])]
           packs == {{x} \X (1..f[x]) : x \in S}
<1>1. pack \in Surjection(S, packs)
    BY DEF Surjection
<1>2. IsFiniteSet(packs)
    <2> HIDE DEF pack, packs
    <2> QED  BY <1>1, FS_Surjection
<1>3. ASSUME NEW x \in S PROVE IsFiniteSet({x} \X (1..f[x]))
    <2>1. f[x] \in Nat
        OBVIOUS
    <2>2. IsFiniteSet({x})
        BY FS_Singleton
    <2>3. IsFiniteSet(1..f[x])
        BY <2>1, FS_Interval
    <2> QED  BY <2>2, <2>3, FS_Product
<1>4. \A p \in packs : IsFiniteSet(p)
    BY <1>3
<1>5. IsFiniteSet(UNION packs)
    <2> HIDE DEF packs
    <2> QED  BY <1>2, <1>4, FS_UNION
<1> QED  BY <1>5, FS_CardinalityType DEF Units, Weight

LEMMA WeightOfNothing == ASSUME NEW f PROVE Weight(f, {}) = 0
<1>1. Units(f, {}) = {}
    BY DEF Units
<1> QED  BY <1>1, FS_EmptySet DEF Weight

\* One element apart.
LEMMA WeightSplits ==
    ASSUME NEW S, IsFiniteSet(S), NEW f, \A y \in S : f[y] \in Nat, NEW x \in S
    PROVE  Weight(f, S) = f[x] + Weight(f, S \ {x})
<1> DEFINE rest == Units(f, S \ {x})
           pack == {x} \X (1..f[x])
<1>1. Units(f, S) = rest \cup pack
    BY DEF Units
<1>2. rest \cap pack = {}
    BY DEF Units
<1>3. IsFiniteSet(rest) /\ Cardinality(rest) \in Nat
    <2>1. IsFiniteSet(S \ {x})
        BY FS_RemoveElement
    <2> QED  BY <2>1, UnitsAreFinite DEF Weight
<1>4. IsFiniteSet(pack) /\ Cardinality(pack) = f[x]
    <2>1. f[x] \in Nat
        OBVIOUS
    <2>2. IsFiniteSet({x}) /\ Cardinality({x}) = 1
        BY FS_Singleton
    <2>3. IsFiniteSet(1..f[x]) /\ Cardinality(1..f[x]) = f[x]
        BY <2>1, FS_Interval
    <2>4. IsFiniteSet(pack) /\ Cardinality(pack) = Cardinality({x}) * Cardinality(1..f[x])
        BY <2>2, <2>3, FS_Product
    <2> QED  BY <2>1, <2>2, <2>3, <2>4
<1> HIDE DEF rest, pack
<1>5. Cardinality(rest \cup pack) = Cardinality(rest) + Cardinality(pack) - 0
    BY <1>2, <1>3, <1>4, FS_Union, FS_EmptySet
<1>6. f[x] \in Nat
    OBVIOUS
<1> QED  BY <1>1, <1>3, <1>4, <1>5, <1>6 DEF Weight, rest

\* A sum taken in whatever order counts the units: the least set for which it
\* did not would have an element to take apart.
LEMMA SumIsWeight ==
    ASSUME NEW S, IsFiniteSet(S), NEW f, \A x \in S : f[x] \in Nat, NEW g,
           \A s \in SUBSET S : g[s] = IF s = {} THEN 0
                                      ELSE LET x == CHOOSE x \in s : TRUE
                                           IN  f[x] + g[s \ {x}]
    PROVE  g[S] = Weight(f, S)
<1> DEFINE odd == {s \in SUBSET S : g[s] # Weight(f, s)}
<1> SUFFICES ASSUME odd # {} PROVE FALSE
    OBVIOUS
<1>1. odd \subseteq FiniteSubsetsOf(S)
    BY FS_Subset DEF FiniteSubsetsOf
<1>2. PICK s \in odd : \A r \in odd : ~(<<r, s>> \in StrictSubsetOrdering(S))
    <2> HIDE DEF odd
    <2> QED  BY <1>1, WFMin, FS_StrictSubsetOrderingWellFounded
<1>3. s # {}
    BY WeightOfNothing
<1> DEFINE x == CHOOSE x \in s : TRUE
<1>4. x \in s
    BY <1>3
<1>5. g[s] = f[x] + g[s \ {x}]
    BY <1>3
<1> HIDE DEF x
<1>6. <<s \ {x}, s>> \in StrictSubsetOrdering(S)
    BY <1>4 DEF StrictSubsetOrdering
<1>7. g[s \ {x}] = Weight(f, s \ {x})
    BY <1>2, <1>6
<1>8. Weight(f, s) = f[x] + Weight(f, s \ {x})
    <2>1. IsFiniteSet(s)
        BY FS_Subset
    <2> QED  BY <1>4, <2>1, WeightSplits
<1> QED  BY <1>5, <1>7, <1>8

\* Only the values on the set matter, and larger ones count no less.
LEMMA WeightIsMonotonic ==
    ASSUME NEW S, IsFiniteSet(S), NEW f, NEW g,
           \A x \in S : f[x] \in Nat /\ g[x] \in Nat /\ f[x] <= g[x]
    PROVE  Weight(f, S) <= Weight(g, S)
<1>1. Units(f, S) \subseteq Units(g, S)
    BY DEF Units
<1>2. IsFiniteSet(Units(g, S))
    BY UnitsAreFinite
<1> QED  BY <1>1, <1>2, FS_Subset DEF Weight

LEMMA WeightIsLocal ==
    ASSUME NEW S, NEW f, NEW g, \A x \in S : f[x] = g[x]
    PROVE  Weight(f, S) = Weight(g, S)
<1>1. Units(f, S) = Units(g, S)
    BY DEF Units
<1> QED  BY <1>1 DEF Weight

\* What the tasks in S hold, and how many requests they run.
Held(w, S) == MapThenSumSet(LAMBDA t : w[t].slots, S)

LEMMA HeldIsWeight ==
    ASSUME NEW S, IsFiniteSet(S), NEW w, \A t \in S : w[t].slots \in Nat
    PROVE  Held(w, S) = Weight([t \in S |-> w[t].slots], S)
<1> DEFINE f == [t \in S |-> w[t].slots]
           pick(s) == CHOOSE x \in s : TRUE
           R(g) == g = [s \in SUBSET S |->
                          IF s = {} THEN 0 ELSE w[pick(s)].slots + g[s \ {pick(s)}]]
           sum == CHOOSE g : R(g)
           count == [s \in SUBSET S |-> Weight(f, s)]
<1>1. Held(w, S) = sum[S]
    BY DEF Held, MapThenSumSet, MapThenFoldSet
<1>2. \A s \in SUBSET S : s # {} => pick(s) \in s /\ f[pick(s)] = w[pick(s)].slots
    OBVIOUS
<1>3. \A x \in S : f[x] \in Nat
    OBVIOUS
<1>4. R(count)
    <2> HIDE DEF f, pick
    <2>1. ASSUME NEW s \in SUBSET S, s # {}
          PROVE  Weight(f, s) = f[pick(s)] + Weight(f, s \ {pick(s)})
        BY <1>2, <1>3, <2>1, FS_Subset, WeightSplits
    <2> QED  BY <1>2, <2>1, WeightOfNothing
<1>5. R(sum)
    <2> HIDE DEF R, count
    <2> QED  BY <1>4
<1>6. \A s \in SUBSET S : sum[s] = IF s = {} THEN 0 ELSE f[pick(s)] + sum[s \ {pick(s)}]
    <2> HIDE DEF f, sum, pick
    <2> QED  BY <1>2, <1>5
<1> HIDE DEF f, sum
<1> QED  BY <1>1, <1>3, <1>6, SumIsWeight DEF f

Sent(w, S) == MapThenSumSet(LAMBDA t : w[t].running, S)

LEMMA SentIsWeight ==
    ASSUME NEW S, IsFiniteSet(S), NEW w, \A t \in S : w[t].running \in Nat
    PROVE  Sent(w, S) = Weight([t \in S |-> w[t].running], S)
<1> DEFINE f == [t \in S |-> w[t].running]
           pick(s) == CHOOSE x \in s : TRUE
           R(g) == g = [s \in SUBSET S |->
                          IF s = {} THEN 0 ELSE w[pick(s)].running + g[s \ {pick(s)}]]
           sum == CHOOSE g : R(g)
           count == [s \in SUBSET S |-> Weight(f, s)]
<1>1. Sent(w, S) = sum[S]
    BY DEF Sent, MapThenSumSet, MapThenFoldSet
<1>2. \A s \in SUBSET S : s # {} => pick(s) \in s /\ f[pick(s)] = w[pick(s)].running
    OBVIOUS
<1>3. \A x \in S : f[x] \in Nat
    OBVIOUS
<1>4. R(count)
    <2> HIDE DEF f, pick
    <2>1. ASSUME NEW s \in SUBSET S, s # {}
          PROVE  Weight(f, s) = f[pick(s)] + Weight(f, s \ {pick(s)})
        BY <1>2, <1>3, <2>1, FS_Subset, WeightSplits
    <2> QED  BY <1>2, <2>1, WeightOfNothing
<1>5. R(sum)
    <2> HIDE DEF R, count
    <2> QED  BY <1>4
<1>6. \A s \in SUBSET S : sum[s] = IF s = {} THEN 0 ELSE f[pick(s)] + sum[s \ {pick(s)}]
    <2> HIDE DEF f, sum, pick
    <2> QED  BY <1>2, <1>5
<1> HIDE DEF f, sum
<1> QED  BY <1>1, <1>3, <1>6, SumIsWeight DEF f

----------------------------------------------------------------------------
(* The capacity.                                                           *)

\* What a step of the tasks must not change for the capacity to stay exact:
\* which of them live, on which key, and with how many slots.
SameHoldings ==
    /\ inFlight' = inFlight
    /\ \A t \in Tasks : /\ tasks'[t].step = "free" <=> tasks[t].step = "free"
                        /\ tasks'[t].key = tasks[t].key
                        /\ tasks'[t].slots = tasks[t].slots

\* Finitely many tasks live, and none runs more requests than it holds slots.
Bounded ==
    /\ IsFiniteSet(Live)
    /\ \A t \in Tasks : tasks[t].running <= tasks[t].slots

Capacity == Bounded /\ CapacityExact

\* The sums of the specification, counted.
Counted ==
    /\ \A a \in Auths : IsFiniteSet(On(a))
    /\ CapacityExact <=>
         \A a \in Auths : inFlight[a] = Weight([t \in On(a) |-> tasks[t].slots], On(a))
    /\ \A a \in Auths : Running(a) = Weight([t \in On(a) |-> tasks[t].running], On(a))

LEMMA SumsAreCounted == TypeOK /\ IsFiniteSet(Live) => Counted
<1> SUFFICES ASSUME TypeOK, IsFiniteSet(Live) PROVE Counted
    OBVIOUS
<1>1. ASSUME NEW a \in Auths PROVE IsFiniteSet(On(a))
    BY FS_Subset DEF On
<1>2. \A t \in Tasks : tasks[t].slots \in Nat /\ tasks[t].running \in Nat
    BY DEF TypeOK, Task
<1>3. ASSUME NEW a \in Auths PROVE Held(tasks, On(a)) = Weight([t \in On(a) |-> tasks[t].slots], On(a))
    <2>1. \A t \in On(a) : tasks[t].slots \in Nat
        BY <1>2 DEF On, Live
    <2> QED  BY <1>1, <2>1, HeldIsWeight
<1>4. ASSUME NEW a \in Auths PROVE Sent(tasks, On(a)) = Weight([t \in On(a) |-> tasks[t].running], On(a))
    <2>1. \A t \in On(a) : tasks[t].running \in Nat
        BY <1>2 DEF On, Live
    <2> QED  BY <1>1, <2>1, SentIsWeight
<1>5. CapacityExact <=> \A a \in Auths : inFlight[a] = Held(tasks, On(a))
    BY DEF CapacityExact, Held
<1>6. \A a \in Auths : Running(a) = Sent(tasks, On(a))
    BY DEF Running, Sent
<1> QED  BY <1>1, <1>3, <1>4, <1>5, <1>6 DEF Counted

LEMMA CountedNext == (TypeOK /\ IsFiniteSet(Live) => Counted)'
  BY SumsAreCounted, PTL

\* Steps that neither reserve nor return slots.
LEMMA HoldingsKeepCapacity ==
    ASSUME IInv, IInv', Capacity, SameHoldings,
           \A t \in Tasks : tasks'[t].running <= tasks[t].slots
    PROVE  Capacity'
<1>1. Live' = Live
    BY DEF SameHoldings, Live
<1>2. Bounded'
    BY <1>1 DEF SameHoldings, Capacity, Bounded
<1>3. ASSUME NEW a \in Auths PROVE On(a)' = On(a) /\ IsFiniteSet(On(a))
    <2>1. On(a)' = On(a)
        BY <1>1 DEF SameHoldings, On, Live
    <2> QED  BY <2>1, FS_Subset DEF On, Capacity, Bounded
<1>4. ASSUME NEW a \in Auths
      PROVE  inFlight'[a] = Weight([t \in On(a)' |-> tasks'[t].slots], On(a)')
    <2>1. inFlight[a] = Weight([t \in On(a) |-> tasks[t].slots], On(a))
        BY SumsAreCounted DEF IInv, Capacity, Bounded, Counted
    <2>2. \A t \in On(a) : tasks'[t].slots = tasks[t].slots
        BY DEF On, Live, SameHoldings
    <2>3. [t \in On(a)' |-> tasks'[t].slots] = [t \in On(a) |-> tasks[t].slots]
        BY <1>3, <2>2
    <2> QED  BY <1>3, <2>1, <2>3 DEF SameHoldings
<1>5. CapacityExact'
    BY <1>2, <1>4, CountedNext DEF IInv, Bounded, Counted
<1> QED  BY <1>2, <1>5 DEF Capacity

\* prepareProbe reserves what it enters for the task.
LEMMA PrepareCounts ==
    ASSUME IInv, IInv', Capacity, NEW t \in Tasks, NEW k \in Keys, Prepare(t, k)
    PROVE  Capacity'
<1> DEFINE b == AuthOf[k]
<1>1. PICK n \in 1..(limit - inFlight[b]) :
         /\ inFlight' = [inFlight EXCEPT ![b] = @ + n]
         /\ tasks' = [tasks EXCEPT ![t] = [Free EXCEPT
                          !.step = "reserved", !.key = k, !.slots = n, !.gen = generation]]
    BY DEF Prepare
<1> DEFINE u == [Free EXCEPT !.step = "reserved", !.key = k, !.slots = n,
                    !.gen = generation]
<1>2. n \in Nat /\ b \in Auths
    BY AcquisitionAssumption DEF IInv, TypeOK
<1>3. u.step = "reserved" /\ u.key = k /\ u.slots = n /\ u.running = 0
    BY DEF Free
<1> HIDE DEF u, b
<1>4. \A s \in Tasks : tasks'[s] = IF s = t THEN u ELSE tasks[s]
    BY <1>1 DEF IInv, TypeOK, u
<1>5. t \notin Live /\ Live' = Live \cup {t}
    BY <1>3, <1>4 DEF Prepare, Live
<1>6. Bounded'
    <2>1. IsFiniteSet(Live')
        BY <1>5, FS_AddElement DEF Capacity, Bounded
    <2>2. \A s \in Tasks : tasks'[s].running <= tasks'[s].slots
        BY <1>2, <1>3, <1>4 DEF Capacity, Bounded
    <2> QED  BY <2>1, <2>2 DEF Bounded
<1>7. Counted /\ Counted'
    BY <1>6, SumsAreCounted, CountedNext DEF IInv, Capacity, Bounded
<1>8. ASSUME NEW a \in Auths
      PROVE  inFlight'[a] = Weight([s \in On(a)' |-> tasks'[s].slots], On(a)')
    <2> DEFINE f == [s \in On(a) |-> tasks[s].slots]
               g == [s \in On(a)' |-> tasks'[s].slots]
    <2>1. inFlight[a] = Weight(f, On(a)) /\ IsFiniteSet(On(a)')
        BY <1>7 DEF Capacity, Counted
    <2>2. t \notin On(a) /\ \A s \in On(a) : s \in Tasks /\ s # t /\ tasks'[s] = tasks[s]
        BY <1>4, <1>5 DEF On, Live
    <2>3. On(a)' = IF a = b THEN On(a) \cup {t} ELSE On(a)
        BY <1>3, <1>4, <1>5, <2>2 DEF On, Live, b
    <2>4. Weight(g, On(a)) = Weight(f, On(a))
        <3>1. \A s \in On(a) : g[s] = f[s]
            BY <2>2, <2>3
        <3> QED  BY <3>1, WeightIsLocal
    <2>5. \A s \in On(a)' : g[s] \in Nat
        BY DEF IInv, TypeOK, Task, On, Live
    <2>6. a = b => g[t] = n
        BY <1>3, <1>4, <2>3
    <2> HIDE DEF f, g
    <2>7. CASE a # b
        <3>1. inFlight'[a] = inFlight[a]
            BY <1>1, <2>7 DEF IInv, TypeOK
        <3> QED  BY <2>1, <2>3, <2>4, <2>7, <3>1 DEF g
    <2>8. CASE a = b
        <3>1. inFlight'[a] = inFlight[a] + n /\ inFlight[a] \in Nat
            BY <1>1, <2>8 DEF IInv, TypeOK
        <3>2. t \in On(a)' /\ On(a)' \ {t} = On(a)
            BY <2>2, <2>3, <2>8
        <3>3. Weight(g, On(a)') = g[t] + Weight(g, On(a)' \ {t})
            BY <2>1, <2>5, <3>2, WeightSplits
        <3>4. Weight(g, On(a)') = n + inFlight[a]
            BY <2>1, <2>4, <2>6, <2>8, <3>2, <3>3
        <3> QED  BY <1>2, <3>1, <3>4 DEF g
    <2> QED  BY <2>7, <2>8
<1>9. CapacityExact'
    BY <1>7, <1>8 DEF Counted
<1> QED  BY <1>6, <1>9 DEF Capacity

\* releaseProbeSlots returns all the task holds; the counter has that much.
LEMMA ReleaseCounts ==
    ASSUME IInv, IInv', Capacity, NEW t \in Tasks, Release(t)
    PROVE  Capacity'
<1> DEFINE b == AuthOf[tasks[t].key]
<1>1. /\ tasks[t].step = "release" /\ t \in Live
      /\ tasks' = [tasks EXCEPT ![t] = Free]
      /\ inFlight' = [inFlight EXCEPT ![b] =
                         IF @ - tasks[t].slots > 0 THEN @ - tasks[t].slots ELSE 0]
    BY DEF Release, Live
<1> HIDE DEF b
<1>2. \A s \in Tasks : tasks'[s] = IF s = t THEN Free ELSE tasks[s]
    BY <1>1 DEF IInv, TypeOK
<1>3. Live' = Live \ {t} /\ Free.running = 0 /\ Free.slots = 0
    BY <1>1, <1>2 DEF Live, Free
<1>4. Bounded'
    <2>1. IsFiniteSet(Live')
        BY <1>3, FS_RemoveElement DEF Capacity, Bounded
    <2>2. \A s \in Tasks : tasks'[s].running <= tasks'[s].slots
        BY <1>2, <1>3 DEF Capacity, Bounded
    <2> QED  BY <2>1, <2>2 DEF Bounded
<1>5. Counted /\ Counted'
    BY <1>4, SumsAreCounted, CountedNext DEF IInv, Capacity, Bounded
<1>6. ASSUME NEW a \in Auths
      PROVE  inFlight'[a] = Weight([s \in On(a)' |-> tasks'[s].slots], On(a)')
    <2> DEFINE f == [s \in On(a) |-> tasks[s].slots]
               g == [s \in On(a)' |-> tasks'[s].slots]
    <2>1. inFlight[a] = Weight(f, On(a)) /\ IsFiniteSet(On(a))
        BY <1>5 DEF Capacity, Counted
    <2>2. On(a)' = On(a) \ {t} /\ \A s \in On(a)' : s \in Tasks /\ s # t /\ tasks'[s] = tasks[s]
        BY <1>2, <1>3 DEF On, Live
    <2>3. t \in On(a) <=> a = b
        BY <1>1 DEF On, b
    <2>4. Weight(g, On(a)') = Weight(f, On(a)')
        <3>1. \A s \in On(a)' : g[s] = f[s]
            BY <2>2
        <3> QED  BY <3>1, WeightIsLocal
    <2>5. \A s \in On(a) : f[s] \in Nat
        BY DEF IInv, TypeOK, Task, On, Live
    <2>6. a = b => f[t] = tasks[t].slots
        BY <2>3
    <2> HIDE DEF f, g
    <2>7. CASE a # b
        <3>1. inFlight'[a] = inFlight[a]
            BY <1>1, <2>7 DEF IInv, TypeOK
        <3>2. On(a)' = On(a)
            BY <2>2, <2>3, <2>7
        <3> QED  BY <2>1, <2>4, <3>1, <3>2 DEF g
    <2>8. CASE a = b
        <3> DEFINE n == tasks[t].slots
                   rest == Weight(f, On(a)')
        <3>1. n \in Nat /\ inFlight[a] \in Nat
            BY DEF IInv, TypeOK, Task
        <3>2. inFlight'[a] = IF inFlight[a] - n > 0 THEN inFlight[a] - n ELSE 0
            BY <1>1, <2>8 DEF IInv, TypeOK
        <3>3. Weight(f, On(a)) = f[t] + Weight(f, On(a) \ {t})
            BY <2>1, <2>3, <2>5, <2>8, WeightSplits
        <3>4. rest \in Nat
            <4>1. IsFiniteSet(On(a)')
                BY <1>5 DEF Counted
            <4> QED  BY <2>2, <2>5, <4>1, UnitsAreFinite
        <3>5. inFlight[a] = n + rest
            BY <2>1, <2>2, <2>6, <2>8, <3>3
        <3> HIDE DEF n, rest
        <3>6. inFlight'[a] = rest
            BY <3>1, <3>2, <3>4, <3>5
        <3> QED  BY <2>4, <3>6 DEF rest, g
    <2> QED  BY <2>7, <2>8
<1>7. CapacityExact'
    BY <1>5, <1>6 DEF Counted
<1> QED  BY <1>4, <1>7 DEF Capacity

\* A lifecycle call returns when no task holds anything; configure then
\* starts a table of its own.
LEMMA FinishCounts ==
    ASSUME IInv, IInv', Capacity, Finish
    PROVE  Capacity'
<1>1. Live = {} /\ UNCHANGED tasks
    BY DEF Finish, FinishConfigure, FailConfigure, FinishQuiesce, Drained
<1>2. Live' = {}
    BY <1>1 DEF Live
<1>3. Bounded'
    BY <1>1, <1>2, FS_EmptySet DEF Capacity, Bounded
<1>4. CASE UNCHANGED inFlight
    <2>1. SameHoldings
        BY <1>1, <1>4 DEF SameHoldings
    <2> QED  BY <1>1, <2>1, HoldingsKeepCapacity DEF Capacity, Bounded
<1>5. CASE FinishConfigure
    <2>1. Counted'
        BY <1>3, CountedNext DEF IInv, Bounded
    <2>2. \A a \in Auths : On(a)' = {} /\ inFlight'[a] = 0
        BY <1>2, <1>5 DEF On, FinishConfigure
    <2> QED  BY <1>3, <2>1, <2>2, WeightOfNothing DEF Counted, Capacity
<1> QED  BY <1>4, <1>5 DEF Finish, FailConfigure, FinishQuiesce

\* A wave is no wider than the task's slots, nor than what the other tasks of
\* the credential leave of the limit.
LEMMA WidthWithinRoom ==
    ASSUME TypeOK, NEW t \in Tasks, tasks[t].key \in Keys
    PROVE  /\ Width(t) <= tasks[t].slots
           /\ Width(t) <= limit - (inFlight[AuthOf[tasks[t].key]] - tasks[t].slots)
<1> DEFINE a == AuthOf[tasks[t].key]
           room == limit - (inFlight[a] - tasks[t].slots)
           rest == MaxPerHour - counts[a]
           all == {tasks[t].slots, room} \cup (IF Continuous THEN {} ELSE {rest})
<1>1. tasks[t].slots \in Int /\ room \in Int /\ rest \in Int
    BY AcquisitionAssumption DEF TypeOK, Task
<1>2. \E m \in all : \A w \in all : m =< w
    <2> DEFINE n == tasks[t].slots
    <2>1. n \in Int /\ room \in Int /\ rest \in Int
        BY <1>1
    <2>2. all = IF Continuous THEN {n, room} ELSE {n, room, rest}
        OBVIOUS
    <2> HIDE DEF n, room, rest, all
    <2>3. CASE Continuous
        BY <2>1, <2>2, <2>3
    <2>4. CASE ~Continuous
        BY <2>1, <2>2, <2>4
    <2> QED  BY <2>3, <2>4
<1>3. \A w \in all : Min(all) =< w
    <2> HIDE DEF all
    <2> QED  BY <1>2 DEF Min
<1>4. Width(t) = Min(all)
    BY DEF Width
<1> QED  BY <1>3, <1>4

\* What the own steps of a task do to what it holds and runs.
LEMMA OwnStepCounts ==
    ASSUME IInv, NEW t \in Tasks, Step(t), ~Release(t), Bounded
    PROVE  /\ SameHoldings
           /\ \A s \in Tasks : tasks'[s].running <= tasks[s].slots
           /\ \A s \in Tasks \ {t} : tasks'[s] = tasks[s]
<1>1. ASSUME NEW u, tasks' = [tasks EXCEPT ![t] = u], inFlight' = inFlight,
             tasks[t].step # "free", u.step # "free", u.key = tasks[t].key,
             u.slots = tasks[t].slots, u.running <= tasks[t].slots
      PROVE  /\ SameHoldings
             /\ \A s \in Tasks : tasks'[s].running <= tasks[s].slots
             /\ \A s \in Tasks \ {t} : tasks'[s] = tasks[s]
    <2>1. \A s \in Tasks : tasks'[s] = IF s = t THEN u ELSE tasks[s]
        BY <1>1 DEF IInv, TypeOK
    <2> QED  BY <1>1, <2>1 DEF SameHoldings, Bounded
<1>2. tasks[t] \in Task /\ tasks[t].running <= tasks[t].slots /\ tasks \in [Tasks -> Task]
    BY DEF IInv, TypeOK, Bounded
<1>3. CASE ReadAuth(t)
    <2> DEFINE u == [tasks[t] EXCEPT
             !.identity = host[AuthOf[tasks[t].key]],
             !.step = IF host[AuthOf[tasks[t].key]] \in selected[tasks[t].key]
                      THEN "ready" ELSE "recheck"]
    <2>1. /\ tasks' = [tasks EXCEPT ![t] = u] /\ inFlight' = inFlight
          /\ tasks[t].step # "free"
        BY <1>2, <1>3 DEF ReadAuth
    <2>2. /\ u.step # "free" /\ u.key = tasks[t].key /\ u.slots = tasks[t].slots
          /\ u.running <= tasks[t].slots
        BY <1>2 DEF Task
    <2> HIDE DEF u
    <2> QED  BY <1>1, <2>1, <2>2
<1>4. ASSUME NEW s \in {"finish", "recheck", "ready"},
             tasks' = [tasks EXCEPT ![t].step = s], inFlight' = inFlight, tasks[t].step # "free"
      PROVE  /\ SameHoldings
             /\ \A r \in Tasks : tasks'[r].running <= tasks[r].slots
             /\ \A r \in Tasks \ {t} : tasks'[r] = tasks[r]
    <2> DEFINE u == [tasks[t] EXCEPT !.step = s]
    <2>1. /\ tasks' = [tasks EXCEPT ![t] = u]
          /\ u.step # "free" /\ u.key = tasks[t].key /\ u.slots = tasks[t].slots
          /\ u.running <= tasks[t].slots
        BY <1>2, <1>4 DEF Task
    <2> HIDE DEF u
    <2> QED  BY <1>1, <1>4, <2>1
<1>5. CASE AuthFails(t) \/ NoWave(t) \/ WaveEnd(t)
    <2>1. inFlight' = inFlight /\ tasks[t].step # "free"
        BY <1>5 DEF AuthFails, NoWave, WaveEnd
    <2>2. \E s \in {"finish", "recheck", "ready"} : tasks' = [tasks EXCEPT ![t].step = s]
        BY <1>5 DEF AuthFails, NoWave, WaveEnd
    <2> QED  BY <1>4, <2>1, <2>2
<1>6. CASE StartWave(t)
    <2>1. tasks[t].key \in Keys
        BY <1>6, WorkingIsFiled DEF StartWave, Working, Live
    <2>2. Width(t) \in Int /\ Width(t) <= tasks[t].slots
        BY <2>1, WidthIsInt, WidthWithinRoom DEF IInv
    <2>3. PICK n \in 1..Width(t) :
             tasks' = [tasks EXCEPT ![t].step = "wave", ![t].waves = @ + 1, ![t].running = n]
        BY <1>6 DEF StartWave
    <2> DEFINE u == [tasks[t] EXCEPT !.step = "wave", !.waves = @ + 1, !.running = n]
    <2>4. tasks' = [tasks EXCEPT ![t] = u] /\ inFlight' = inFlight /\ tasks[t].step # "free"
        BY <1>2, <1>6, <2>3 DEF StartWave
    <2>5. /\ u.step # "free" /\ u.key = tasks[t].key /\ u.slots = tasks[t].slots
          /\ u.running = n
        BY <1>2 DEF Task
    <2>6. n <= tasks[t].slots
        BY <1>2, <2>2 DEF Task
    <2> HIDE DEF u
    <2> QED  BY <1>1, <2>4, <2>5, <2>6
<1>7. ASSUME NEW outcome \in {"ok", "credential", "failed"}, FetchEnd(t, outcome)
      PROVE  /\ SameHoldings
             /\ \A s \in Tasks : tasks'[s].running <= tasks[s].slots
             /\ \A s \in Tasks \ {t} : tasks'[s] = tasks[s]
    <2> DEFINE u == [tasks[t] EXCEPT !.running = @ - 1,
                        !.ok = @ \/ outcome = "ok",
                        !.credential = @ \/ outcome = "credential"]
    <2>1. tasks' = [tasks EXCEPT ![t] = u] /\ inFlight' = inFlight /\ tasks[t].step = "wave"
        BY <1>2, <1>7 DEF FetchEnd
    <2>2. /\ u.step = tasks[t].step /\ u.key = tasks[t].key /\ u.slots = tasks[t].slots
          /\ u.running = tasks[t].running - 1
        BY <1>2 DEF Task
    <2>3. tasks[t].running - 1 <= tasks[t].slots
        BY <1>2 DEF Task
    <2> HIDE DEF u
    <2> QED  BY <1>1, <2>1, <2>2, <2>3
<1>8. CASE Recheck(t)
    <2>1. PICK same \in {TRUE, FALSE} :
            tasks' = [tasks EXCEPT ![t].step = "recheck", ![t].ok = @ /\ same]
        BY <1>8 DEF Recheck
    <2> DEFINE u == [tasks[t] EXCEPT !.step = "recheck", !.ok = @ /\ same]
    <2>2. tasks' = [tasks EXCEPT ![t] = u] /\ inFlight' = inFlight /\ tasks[t].step # "free"
        BY <1>2, <1>8, <2>1 DEF Recheck
    <2>3. /\ u.step # "free" /\ u.key = tasks[t].key /\ u.slots = tasks[t].slots
          /\ u.running <= tasks[t].slots
        BY <1>2 DEF Task
    <2> HIDE DEF u
    <2> QED  BY <1>1, <2>2, <2>3
<1>9. CASE Commit(t)
    <2>1. tasks[t].gen = generation
        BY <1>9 DEF Commit, IInv, GenerationCoherent, Live
    <2> DEFINE cache == /\ tasks[t].ok /\ ~tasks[t].cancelled /\ accepting
                        /\ tasks[t].identity \in selected[tasks[t].key]
               u == [tasks[t] EXCEPT !.step = "release", !.cached = cache]
    <2>2. tasks' = [tasks EXCEPT ![t] = u] /\ inFlight' = inFlight /\ tasks[t].step # "free"
        BY <1>2, <1>9, <2>1 DEF Commit
    <2>3. /\ u.step # "free" /\ u.key = tasks[t].key /\ u.slots = tasks[t].slots
          /\ u.running <= tasks[t].slots
        BY <1>2 DEF Task
    <2> HIDE DEF u
    <2> QED  BY <1>1, <2>2, <2>3
<1> QED  BY <1>3, <1>5, <1>6, <1>7, <1>8, <1>9 DEF Step, Own, Fetches

\* Telling tasks to stop changes neither what they hold nor what they run.
LEMMA StopCounts ==
    ASSUME IInv, Bounded, NEW K, NEW C, tasks' = Stop(K, C), inFlight' = inFlight
    PROVE  SameHoldings /\ \A s \in Tasks : tasks'[s].running <= tasks[s].slots
<1> SUFFICES ASSUME NEW s \in Tasks
             PROVE  /\ tasks'[s].step = tasks[s].step /\ tasks'[s].key = tasks[s].key
                    /\ tasks'[s].slots = tasks[s].slots
                    /\ tasks'[s].running = tasks[s].running
    BY DEF SameHoldings, Bounded
<1>1. tasks[s] \in Task
    BY DEF IInv, TypeOK
<1> QED  BY <1>1 DEF Stop, Task

\* Every step keeps the counters of the credentials exact.
LEMMA CapacityStep == IInv /\ Capacity /\ [Next]_vars => Capacity'
<1> SUFFICES ASSUME IInv, Capacity, [Next]_vars PROVE Capacity'
    OBVIOUS
<1>1. IInv' /\ Bounded
    BY InductiveStep DEF Capacity
<1>2. ASSUME NEW t \in Tasks, Step(t) PROVE Capacity'
    <2>1. CASE Release(t)
        BY <1>1, <2>1, ReleaseCounts
    <2>2. CASE ~Release(t)
        BY <1>1, <1>2, <2>2, OwnStepCounts, HoldingsKeepCapacity
    <2> QED  BY <2>1, <2>2
<1>3. ASSUME NEW t \in Tasks, NEW k \in Keys, Prepare(t, k) PROVE Capacity'
    BY <1>1, <1>3, PrepareCounts
<1>4. CASE Finish
    BY <1>1, <1>4, FinishCounts
<1>5. CASE \/ CancelAll \/ SomeReselect \/ BeginConfigure
           \/ \E call \in {"quiesce", "shutdown"} : BeginQuiesce(call)
    <2>1. inFlight' = inFlight /\ \E K, C : tasks' = Stop(K, C)
        BY <1>5 DEF CancelAll, SomeReselect, Reselect, BeginConfigure, BeginQuiesce,
                    StopBackground
    <2> QED  BY <1>1, <2>1, StopCounts, HoldingsKeepCapacity
<1>6. CASE \/ \E k \in Keys : TurnAway(k)
           \/ \E n \in Limits : SaveLimit(n)
           \/ \E a \in Auths, i \in Identities : Rotate(a, i)
           \/ WorkerExit
           \/ UNCHANGED vars
    <2>1. UNCHANGED <<tasks, inFlight>>
        BY <1>6 DEF TurnAway, SaveLimit, Rotate, WorkerExit, vars
    <2>2. SameHoldings /\ \A s \in Tasks : tasks'[s].running <= tasks[s].slots
        BY <1>1, <2>1 DEF SameHoldings, Bounded
    <2> QED  BY <1>1, <2>2, HoldingsKeepCapacity
<1> QED  BY <1>2, <1>3, <1>4, <1>5, <1>6 DEF Next, SomeReselect

LEMMA CapacityInvariance == Spec => []Capacity
<1>1. Init => Capacity
    <2> SUFFICES ASSUME Init PROVE Capacity
        OBVIOUS
    <2>1. TypeOK /\ Live = {}
        BY InitIInv DEF IInv, Init, Live, Free
    <2>2. Bounded
        BY <2>1, FS_EmptySet DEF Bounded, Init, Free
    <2>3. Counted
        BY <2>1, <2>2, SumsAreCounted DEF Bounded
    <2>4. \A a \in Auths : On(a) = {} /\ inFlight[a] = 0
        BY <2>1 DEF On, Init
    <2> QED  BY <2>2, <2>3, <2>4, WeightOfNothing DEF Counted, Capacity
<1> QED  BY <1>1, CapacityStep, Invariance, PTL DEF Spec

\* What is counted as reserved for a credential is what its live tasks hold:
\* no slot leaks and none is returned twice, however many tasks there are.
THEOREM CapacityIsExact == Spec => []CapacityExact
<1>1. Capacity => CapacityExact
    BY DEF Capacity
<1> QED  BY <1>1, CapacityInvariance, PTL

\* Whenever a wave starts, all requests in flight for its credential are
\* within the limit that was saved by then, though the tasks reserved their
\* slots under other limits.
THEOREM WavesKeepWithinLimit == Spec => WaveWithinLimit
<1> DEFINE Within == \A t \in Tasks : StartWave(t) => Running(AuthOf[tasks[t].key])' <= limit
<1>1. IInv /\ Capacity /\ [Next]_vars => [Within]_vars
    <2> SUFFICES ASSUME IInv, Capacity, [Next]_vars, NEW t \in Tasks, StartWave(t)
                 PROVE  Running(AuthOf[tasks[t].key])' <= limit
        OBVIOUS
    <2> DEFINE a == AuthOf[tasks[t].key]
    <2>1. tasks[t].key \in Keys /\ a \in Auths
        BY WorkingIsFiled, AcquisitionAssumption DEF StartWave, Working, Live
    <2>2. /\ SameHoldings /\ Step(t) /\ Bounded
          /\ \A s \in Tasks \ {t} : tasks'[s] = tasks[s]
        BY OwnStepCounts DEF Step, Own, Fetches, StartWave, Release, Capacity
    <2>3. IInv' /\ Capacity'
        BY InductiveStep, CapacityStep
    <2>4. Counted /\ Counted'
        BY <2>3, SumsAreCounted, CountedNext DEF IInv, Capacity, Bounded
    <2>5. On(a)' = On(a) /\ AuthOf[tasks'[t].key] = a
        BY <2>2 DEF On, Live, SameHoldings
    <2> DEFINE S == On(a)
               f == [s \in S |-> tasks[s].slots]
               g == [s \in S |-> tasks'[s].running]
    <2>6. Running(a)' = Weight(g, S)
        BY <2>1, <2>4, <2>5 DEF Counted
    <2>7. inFlight[a] = Weight(f, S) /\ IsFiniteSet(S) /\ IsFiniteSet(S \ {t})
        BY <2>1, <2>4, FS_RemoveElement DEF Counted, Capacity
    <2>8. t \in S /\ S \subseteq Tasks
        BY DEF On, Live, StartWave
    <2>9. \A s \in S : f[s] \in Nat /\ g[s] \in Nat
        BY <2>3, <2>8 DEF IInv, TypeOK, Task
    <2>10. \A s \in S \ {t} : g[s] <= f[s]
        BY <2>2, <2>8 DEF Bounded
    <2>11. f[t] = tasks[t].slots /\ g[t] = tasks'[t].running
        BY <2>8
    <2>12. tasks'[t].running <= limit - (inFlight[a] - tasks[t].slots)
        <3>1. Width(t) \in Int
            BY <2>1, WidthIsInt DEF IInv
        <3>2. Width(t) <= limit - (inFlight[a] - tasks[t].slots)
            BY <2>1, WidthWithinRoom DEF IInv
        <3>3. PICK n \in 1..Width(t) :
                 tasks' = [tasks EXCEPT ![t].step = "wave", ![t].waves = @ + 1, ![t].running = n]
            BY DEF StartWave
        <3>4. tasks'[t].running = n
            BY <3>3 DEF IInv, TypeOK, Task
        <3> DEFINE room == limit - (inFlight[a] - tasks[t].slots)
        <3>5. room \in Int
            BY <2>1, AcquisitionAssumption DEF IInv, TypeOK, Task
        <3> HIDE DEF room
        <3>6. n <= room
            BY <3>1, <3>2, <3>5 DEF room
        <3> QED  BY <3>4, <3>6 DEF room
    <2> HIDE DEF f, g, S, a
    <2>13. Weight(f, S) = f[t] + Weight(f, S \ {t}) /\ Weight(g, S) = g[t] + Weight(g, S \ {t})
        BY <2>7, <2>8, <2>9, WeightSplits
    <2>14. Weight(g, S \ {t}) <= Weight(f, S \ {t})
        BY <2>7, <2>9, <2>10, WeightIsMonotonic
    <2>15. Weight(f, S \ {t}) \in Nat /\ Weight(g, S \ {t}) \in Nat
        BY <2>7, <2>9, UnitsAreFinite
    <2>16. limit \in Int /\ f[t] \in Nat /\ g[t] \in Nat
        BY <2>8, <2>9, AcquisitionAssumption DEF IInv, TypeOK
    <2>17. Weight(g, S) <= limit
        BY <2>7, <2>11, <2>12, <2>13, <2>14, <2>15, <2>16
    <2> QED  BY <2>6, <2>5, <2>17 DEF a
<1> QED  BY <1>1, Invariance, CapacityInvariance, PTL DEF Spec, WaveWithinLimit

----------------------------------------------------------------------------
(* Every acquisition comes nearer its end, and nothing starts while a      *)
(* lifecycle call waits: the part of StoppedTasksEnd that needs no fairness. *)

\* How many steps a task has left, its wave's requests not counted.
StepsLeft(x) ==
    CASE x.step = "free" -> 0
      [] x.step = "release" -> 1
      [] x.step = "recheck" -> 2
      [] x.step = "finish" -> 3
      [] x.step = "ready" -> 4 + 2 * (MaxAttempts - x.waves)
      [] x.step = "wave" -> 5 + 2 * (MaxAttempts - x.waves)
      [] x.step = "reserved" -> 6 + 2 * MaxAttempts

Nearer(x, y) ==
    \/ StepsLeft(y) < StepsLeft(x)
    \/ StepsLeft(y) = StepsLeft(x) /\ y.running < x.running

SamePlace(x, y) == y.step = x.step /\ y.waves = x.waves /\ y.running = x.running

\* A task sends as many waves as it may.
WavesWithinAttempts(x) ==
    /\ x.step = "reserved" => x.waves = 0
    /\ x.step = "ready" => x.waves < MaxAttempts
    /\ x.step = "wave" => x.waves <= MaxAttempts

\* While a lifecycle call waits, the context is cancelled and every task that
\* has not passed its last locked section knows.
Draining ==
    lifecycle # "idle" => ctx # "live" /\ \A t \in Working : tasks[t].cancelled

Orderly == Draining /\ \A t \in Tasks : WavesWithinAttempts(tasks[t])

\* Each step of a task brings it nearer its end, no other step moves it at all.
TasksMoveOn ==
    [][\A t \in Live : IF Step(t) THEN Nearer(tasks[t], tasks'[t])
                       ELSE SamePlace(tasks[t], tasks'[t])]_vars

\* While a lifecycle call waits, tasks and the worker end and none starts, and
\* no task sends a wave.
DrainingOnlyEnds ==
    [][lifecycle # "idle" =>
          /\ Live' \subseteq Live /\ \A t \in Tasks : ~StartWave(t)
          /\ lifecycle' = lifecycle => (worker' => worker)]_vars

\* A step of a task leads on, and concerns no other task.
LEMMA StepMovesOn ==
    ASSUME IInv, Orderly, NEW t \in Tasks, Step(t)
    PROVE  /\ Nearer(tasks[t], tasks'[t]) /\ WavesWithinAttempts(tasks'[t])
           /\ tasks'[t].step = "free" \/ tasks'[t].cancelled = tasks[t].cancelled
           /\ \/ tasks'[t].step \in {"free", "release"} \/ t \in Working
           /\ t \in Live
           /\ \A s \in Tasks \ {t} : tasks'[s] = tasks[s]
<1> DEFINE x == tasks[t]
<1>0. x \in Task /\ WavesWithinAttempts(x) /\ tasks \in [Tasks -> Task]
    BY DEF IInv, TypeOK, Orderly
<1>1. MaxAttempts \in Nat \ {0} /\ x.waves \in Nat /\ x.running \in Nat
    BY <1>0, AcquisitionAssumption DEF Task
<1> DEFINE Led(y) == /\ Nearer(x, y) /\ WavesWithinAttempts(y)
                     /\ y.step = "free" \/ y.cancelled = x.cancelled
<1>2. ASSUME NEW y, tasks' = [tasks EXCEPT ![t] = y], Led(y), x.step # "free",
             x.step # "release" \/ y.step = "free"
      PROVE  /\ Nearer(tasks[t], tasks'[t]) /\ WavesWithinAttempts(tasks'[t])
             /\ tasks'[t].step = "free" \/ tasks'[t].cancelled = tasks[t].cancelled
             /\ \/ tasks'[t].step \in {"free", "release"} \/ t \in Working
             /\ t \in Live
             /\ \A s \in Tasks \ {t} : tasks'[s] = tasks[s]
    BY <1>0, <1>2 DEF Working, Live
<1> USE DEF Nearer, StepsLeft, WavesWithinAttempts
<1>3. CASE ReadAuth(t)
    <2>1. PICK s \in {"ready", "recheck"} : \E i :
            tasks' = [tasks EXCEPT ![t].identity = i, ![t].step = s]
        BY <1>3 DEF ReadAuth
    <2>2. PICK i : tasks' = [tasks EXCEPT ![t].identity = i, ![t].step = s]
        BY <2>1
    <2> DEFINE y == [[x EXCEPT !.identity = i] EXCEPT !.step = s]
    <2>3. tasks' = [tasks EXCEPT ![t] = y]
        BY <2>2
    <2>4. /\ y.step = s /\ y.waves = x.waves /\ y.running = x.running
          /\ y.cancelled = x.cancelled
        BY <1>0 DEF Task
    <2>5. x.step = "reserved"
        BY <1>3 DEF ReadAuth
    <2> HIDE DEF x, y
    <2>6. Led(y)
        BY <1>0, <1>1, <2>4, <2>5
    <2> QED  BY <1>2, <2>3, <2>5, <2>6
<1>4. CASE AuthFails(t) \/ NoWave(t) \/ WaveEnd(t)
    <2> DEFINE Moves(s) ==
                  /\ tasks' = [tasks EXCEPT ![t].step = s]
                  /\ \/ x.step = "reserved" /\ s = "recheck"
                     \/ x.step = "ready" /\ s = "finish"
                     \/ x.step = "wave" /\ (s = "finish" \/ (s = "ready" /\ x.waves < MaxAttempts))
    <2>0. ASSUME WaveEnd(t) PROVE \E s : Moves(s)
        <3> DEFINE over == \/ tasks[t].ok \/ tasks[t].credential \/ tasks[t].cancelled
                           \/ tasks[t].waves >= MaxAttempts
        <3>1. x.step = "wave" /\ tasks' = [tasks EXCEPT ![t].step = IF over THEN "finish" ELSE "ready"]
            BY <2>0 DEF WaveEnd
        <3>2. tasks[t].waves >= MaxAttempts \/ x.waves < MaxAttempts
            BY <1>1
        <3>3. CASE over
            BY <3>1, <3>3
        <3>4. CASE ~over
            <4>1. x.waves < MaxAttempts
                BY <3>2, <3>4
            <4> HIDE DEF over
            <4> QED  BY <3>1, <3>4, <4>1
        <3> QED  BY <3>3, <3>4
    <2>1. PICK s : Moves(s)
        BY <1>4, <2>0 DEF AuthFails, NoWave
    <2> DEFINE y == [x EXCEPT !.step = s]
    <2>2. tasks' = [tasks EXCEPT ![t] = y]
        BY <2>1
    <2>3. /\ y.step = s /\ y.waves = x.waves /\ y.running = x.running
          /\ y.cancelled = x.cancelled
        BY <1>0 DEF Task
    <2> HIDE DEF x, y
    <2>4. Led(y)
        BY <1>0, <1>1, <2>1, <2>3
    <2> QED  BY <1>2, <2>1, <2>2, <2>4
<1>5. CASE StartWave(t)
    <2>1. PICK n \in 1..Width(t) :
            tasks' = [tasks EXCEPT ![t].step = "wave", ![t].waves = @ + 1, ![t].running = n]
        BY <1>5 DEF StartWave
    <2> DEFINE y == [[[x EXCEPT !.step = "wave"] EXCEPT !.waves = @ + 1] EXCEPT !.running = n]
    <2>2. tasks' = [tasks EXCEPT ![t] = y]
        BY <2>1
    <2>3. y.step = "wave" /\ y.waves = x.waves + 1 /\ y.cancelled = x.cancelled
        BY <1>0 DEF Task
    <2>4. x.step = "ready"
        BY <1>5 DEF StartWave
    <2> HIDE DEF x, y
    <2>5. Led(y)
        BY <1>0, <1>1, <2>3, <2>4
    <2> QED  BY <1>2, <2>2, <2>4, <2>5
<1>6. ASSUME NEW outcome \in {"ok", "credential", "failed"}, FetchEnd(t, outcome)
      PROVE  \E y : tasks' = [tasks EXCEPT ![t] = y] /\ Led(y) /\ x.step = "wave"
    <2> DEFINE a == x.ok \/ outcome = "ok"
               b == x.credential \/ outcome = "credential"
               y == [[[x EXCEPT !.running = @ - 1] EXCEPT !.ok = a] EXCEPT !.credential = b]
    <2>1. tasks' = [tasks EXCEPT ![t] = y]
        BY <1>6 DEF FetchEnd
    <2>2. x.step = "wave" /\ x.running > 0
        BY <1>6 DEF FetchEnd
    <2> HIDE DEF a, b
    <2>3. /\ y.step = x.step /\ y.waves = x.waves /\ y.running = x.running - 1
          /\ y.cancelled = x.cancelled
        BY <1>0 DEF Task
    <2> HIDE DEF x, y
    <2>4. Led(y)
        BY <1>0, <1>1, <2>2, <2>3
    <2> QED  BY <2>1, <2>2, <2>4
<1>7. CASE Recheck(t)
    <2>1. PICK b : tasks' = [tasks EXCEPT ![t].step = "recheck", ![t].ok = b]
        BY <1>7 DEF Recheck
    <2> DEFINE y == [[x EXCEPT !.step = "recheck"] EXCEPT !.ok = b]
    <2>2. tasks' = [tasks EXCEPT ![t] = y]
        BY <2>1
    <2>3. x.step = "finish"
        BY <1>7 DEF Recheck
    <2>4. y.step = "recheck" /\ y.cancelled = x.cancelled
        BY <1>0 DEF Task
    <2> HIDE DEF x, y
    <2>5. Led(y)
        BY <2>3, <2>4
    <2> QED  BY <1>2, <2>2, <2>3, <2>5
<1>8. CASE Commit(t)
    <2>1. PICK b : \/ tasks' = [tasks EXCEPT ![t].step = "release"]
                   \/ tasks' = [tasks EXCEPT ![t].step = "release", ![t].cached = b]
        BY <1>8 DEF Commit
    <2> DEFINE y == [x EXCEPT !.step = "release"]
               z == [y EXCEPT !.cached = b]
    <2>2. tasks' = [tasks EXCEPT ![t] = y] \/ tasks' = [tasks EXCEPT ![t] = z]
        BY <2>1
    <2>3. x.step = "recheck"
        BY <1>8 DEF Commit
    <2>4. y.step = "release" /\ y.cancelled = x.cancelled
          /\ z.step = "release" /\ z.cancelled = x.cancelled
        BY <1>0 DEF Task
    <2> HIDE DEF x, y, z
    <2>5. Led(y) /\ Led(z)
        BY <2>3, <2>4
    <2> QED  BY <1>2, <2>2, <2>3, <2>5
<1>9. CASE Release(t)
    <2>1. tasks' = [tasks EXCEPT ![t] = Free] /\ x.step = "release"
        BY <1>9 DEF Release
    <2> QED  BY <1>0, <2>1 DEF Free, Live
<1>10. ASSUME NEW outcome \in {"ok", "credential", "failed"}, FetchEnd(t, outcome)
       PROVE  /\ Nearer(tasks[t], tasks'[t]) /\ WavesWithinAttempts(tasks'[t])
              /\ tasks'[t].step = "free" \/ tasks'[t].cancelled = tasks[t].cancelled
              /\ \/ tasks'[t].step \in {"free", "release"} \/ t \in Working
              /\ t \in Live
              /\ \A s \in Tasks \ {t} : tasks'[s] = tasks[s]
    <2> HIDE DEF Led, x
    <2> QED  BY <1>2, <1>6, <1>10
<1> QED  BY <1>3, <1>4, <1>5, <1>7, <1>8, <1>9, <1>10 DEF Step, Own, Fetches

\* Whoever tells tasks to stop leaves them where they are.
LEMMA StopKeepsPlace ==
    ASSUME IInv, NEW K, NEW C, tasks' = Stop(K, C), NEW t \in Tasks
    PROVE  /\ SamePlace(tasks[t], tasks'[t])
           /\ tasks[t].cancelled \/ t \in C => tasks'[t].cancelled
<1>1. tasks[t] \in Task
    BY DEF IInv, TypeOK
<1> QED  BY <1>1 DEF Stop, Task, SamePlace

\* What every step but a task's own does to the tasks.
Elsewhere(t) == SamePlace(tasks[t], tasks'[t]) /\ (tasks[t].cancelled => tasks'[t].cancelled)

LEMMA OrderlyStep ==
    IInv /\ Orderly /\ [Next]_vars =>
        /\ Orderly'
        /\ \A t \in Live : Step(t) \/ SamePlace(tasks[t], tasks'[t])
        /\ lifecycle # "idle" => Live' \subseteq Live /\ (lifecycle' = lifecycle => (worker' => worker))
<1> SUFFICES ASSUME IInv, Orderly, [Next]_vars
             PROVE  /\ Orderly'
                    /\ \A t \in Live : Step(t) \/ SamePlace(tasks[t], tasks'[t])
                    /\ lifecycle # "idle" =>
                          Live' \subseteq Live /\ (lifecycle' = lifecycle => (worker' => worker))
    OBVIOUS
<1>0. TypeOK /\ TypeOK'
    BY InductiveStep DEF IInv
<1>1. ASSUME \A t \in Tasks : Elsewhere(t)
      PROVE  /\ Live' = Live /\ Working' = Working
             /\ \A t \in Tasks : WavesWithinAttempts(tasks'[t])
             /\ \A t \in Working : tasks[t].cancelled => tasks'[t].cancelled
    BY <1>1 DEF Elsewhere, SamePlace, Live, Working, Orderly, WavesWithinAttempts
<1>2. ASSUME NEW t \in Tasks, Step(t)
      PROVE  /\ Orderly' /\ Live' \subseteq Live
             /\ UNCHANGED <<lifecycle, worker>>
             /\ \A s \in Tasks : s # t => tasks'[s] = tasks[s]
    <2>1. UNCHANGED <<ctx, lifecycle, worker>>
        BY <1>2 DEF Step, Own, Fetches, ReadAuth, AuthFails, StartWave, NoWave, FetchEnd, WaveEnd, Recheck,
                    Commit, Release, controlVars
    <2>2. \A s \in Tasks : WavesWithinAttempts(tasks'[s])
        BY <1>2, StepMovesOn DEF Orderly
    <2>3. Live' \subseteq Live /\ Working' \subseteq Working
        BY <1>2, StepMovesOn DEF Live, Working
    <2>4. \A s \in Working' : tasks[s].cancelled => tasks'[s].cancelled
        BY <1>2, StepMovesOn DEF Live, Working
    <2> QED  BY <1>2, <2>1, <2>2, <2>3, <2>4, StepMovesOn DEF Orderly, Draining
<1>3. ASSUME NEW t \in Tasks, NEW k \in Keys, Prepare(t, k)
      PROVE  /\ Orderly' /\ lifecycle = "idle" /\ t \notin Live
             /\ \A s \in Tasks : s # t => tasks'[s] = tasks[s]
    <2>1. lifecycle = "idle" /\ UNCHANGED lifecycle
        BY <1>3 DEF Prepare, Due, Orderly, Draining, controlVars
    <2>2. PICK n : tasks' = [tasks EXCEPT ![t] = [Free EXCEPT
                              !.step = "reserved", !.key = k, !.slots = n, !.gen = generation]]
        BY <1>3 DEF Prepare
    <2>3. WavesWithinAttempts(tasks'[t]) /\ \A s \in Tasks : s # t => tasks'[s] = tasks[s]
        BY <1>0, <2>2 DEF TypeOK, Free, WavesWithinAttempts
    <2>4. t \notin Live
        BY <1>3 DEF Prepare, Live
    <2> QED  BY <2>1, <2>3, <2>4 DEF Orderly, Draining
<1>4. CASE CancelAll \/ SomeReselect
    <2>1. PICK K, C : tasks' = Stop(K, C)
        BY <1>4 DEF CancelAll, SomeReselect, Reselect
    <2>2. \A t \in Tasks : Elsewhere(t)
        BY <2>1, StopKeepsPlace DEF Elsewhere
    <2>3. UNCHANGED <<ctx, lifecycle, worker>>
        BY <1>4 DEF CancelAll, SomeReselect, Reselect, controlVars
    <2> QED  BY <1>1, <2>2, <2>3 DEF Orderly, Draining, Elsewhere, Live
<1>5. CASE BeginConfigure \/ \E call \in {"quiesce", "shutdown"} : BeginQuiesce(call)
    <2>1. PICK next : StopBackground(next)
        BY <1>5 DEF BeginConfigure, BeginQuiesce
    <2>2. tasks' = Stop(Keys, Working) /\ lifecycle = "idle" /\ ctx' # "live"
        BY <1>0, <2>1 DEF StopBackground, TypeOK
    <2>3. \A t \in Tasks : Elsewhere(t) /\ (t \in Working => tasks'[t].cancelled)
        BY <2>2, StopKeepsPlace DEF Elsewhere
    <2> QED  BY <1>1, <2>2, <2>3 DEF Orderly, Draining, Elsewhere, Live, Working
<1>6. CASE Finish
    <2>1. lifecycle' = "idle" /\ lifecycle # "idle" /\ UNCHANGED tasks
        BY <1>6 DEF Finish, FinishConfigure, FailConfigure, FinishQuiesce
    <2>2. \A t \in Tasks : Elsewhere(t)
        BY <2>1 DEF Elsewhere, SamePlace
    <2> QED  BY <1>1, <2>1, <2>2 DEF Orderly, Draining, Elsewhere, Live
<1>7. CASE \/ \E k \in Keys : TurnAway(k)
           \/ \E n \in Limits : SaveLimit(n)
           \/ \E a \in Auths, i \in Identities : Rotate(a, i)
           \/ WorkerExit
           \/ UNCHANGED vars
    <2>1. UNCHANGED <<tasks, ctx, lifecycle>> /\ (worker' => worker)
        BY <1>7 DEF TurnAway, SaveLimit, Rotate, WorkerExit, controlVars, vars
    <2>2. \A t \in Tasks : Elsewhere(t)
        BY <2>1 DEF Elsewhere, SamePlace
    <2> QED  BY <1>1, <2>1, <2>2 DEF Orderly, Draining, Elsewhere, Live
<1>8. ASSUME NEW t \in Tasks, \A s \in Tasks : s # t => tasks'[s] = tasks[s]
      PROVE  \A s \in Live : s = t \/ SamePlace(tasks[s], tasks'[s])
    BY <1>8 DEF Live, SamePlace
<1> QED  BY <1>2, <1>3, <1>4, <1>5, <1>6, <1>7, <1>8 DEF Next, SomeReselect

LEMMA OrderlyInvariance == Spec => []Orderly
<1>1. Init => Orderly
    BY DEF Init, Orderly, Draining, WavesWithinAttempts, Free
<1> QED  BY <1>1, OrderlyStep, Invariance, PTL DEF Spec

\* A live task comes nearer its end with each of its steps and is set back by
\* nobody else's: it sends at most so many waves, collects every request of
\* each, and passes its two locked sections once.
THEOREM TasksComeToAnEnd == Spec => TasksMoveOn
<1>1. IInv /\ Orderly /\ [Next]_vars =>
        [\A t \in Live : IF Step(t) THEN Nearer(tasks[t], tasks'[t])
                         ELSE SamePlace(tasks[t], tasks'[t])]_vars
    <2> SUFFICES ASSUME IInv, Orderly, [Next]_vars, NEW t \in Live
                 PROVE  IF Step(t) THEN Nearer(tasks[t], tasks'[t])
                        ELSE SamePlace(tasks[t], tasks'[t])
        OBVIOUS
    <2>1. t \in Tasks
        BY DEF Live
    <2> QED  BY <2>1, StepMovesOn, OrderlyStep
<1> QED  BY <1>1, Invariance, OrderlyInvariance, PTL DEF Spec, TasksMoveOn

\* While quiesce, shutdown or a reconfiguration waits for the worker and the
\* tasks, none of them starts, and no task sends another wave.
THEOREM NothingStartsWhileDraining == Spec => DrainingOnlyEnds
<1>1. IInv /\ Orderly /\ [Next]_vars =>
        [lifecycle # "idle" =>
            /\ Live' \subseteq Live /\ \A t \in Tasks : ~StartWave(t)
            /\ lifecycle' = lifecycle => (worker' => worker)]_vars
    <2> SUFFICES ASSUME IInv, Orderly, [Next]_vars, lifecycle # "idle"
                 PROVE  /\ Live' \subseteq Live /\ \A t \in Tasks : ~StartWave(t)
                        /\ lifecycle' = lifecycle => (worker' => worker)
        OBVIOUS
    <2>1. \A t \in Tasks : ~StartWave(t)
        BY DEF StartWave, Orderly, Draining, Working, Live
    <2> QED  BY <2>1, OrderlyStep
<1> QED  BY <1>1, Invariance, OrderlyInvariance, PTL DEF Spec, DrainingOnlyEnds
==============================================================================
