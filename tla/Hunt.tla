-------------------------------- MODULE Hunt --------------------------------
(***************************************************************************)
(* The bounded acquisition test (src/cmd/hunt292/main.go 94-136, 172-292,  *)
(* src/cmd/hunt292/fast.go 45-109, 184-222, 249-415): a run sends requests *)
(* through two proxies, one after the other or with a worker for each, and *)
(* records every attempt in a report before it sends it.  Writes may fail, *)
(* the process may stop at any time, and the next run, of either kind,     *)
(* goes on from the report.                                                *)
(*                                                                         *)
(* Of the report only what a run decides by is kept: the attempts of each  *)
(* proxy, whether a 292 was found, and whether the credential is known to  *)
(* be unusable.  Both kinds of run have the same cap, since each refuses   *)
(* the report of another.                                                  *)
(***************************************************************************)
EXTENDS Integers

CONSTANTS
    PerProxy,    \* perProxyLimit, half of maxAttempts
    NoReport,
    MaxRuns      \* bound: runs started

Proxies == {1, 2}

Reports == [counts : [Proxies -> Nat], found : BOOLEAN,
            credential : {"open", "expired", "rejected"}]

ASSUME HuntAssumption == PerProxy \in Nat \ {0} /\ NoReport \notin Reports /\ MaxRuns \in Nat

VARIABLES
    run,       \* the process: "none", "fast" or "sequential"
    report,    \* what it holds in memory
    onDisk,    \* report.json
    at,        \* how far each proxy's next request has come
    cancelled, \* the context the workers share
    runs,      \* runs started
    sent,      \* history: requests sent through each proxy
    mixed      \* history: did a sequential run take part?

huntVars == <<run, report, onDisk, at, cancelled, runs, sent, mixed>>

Blank == [counts |-> [p \in Proxies |-> 0], found |-> FALSE, credential |-> "open"]

Resumed == IF onDisk = NoReport THEN Blank ELSE onDisk

Attempts(r) == r.counts[1] + r.counts[2]

Finished(r) == r.found \/ Attempts(r) >= 2 * PerProxy

\* Two requests through one proxy, two through the other.
Turn(r) == 1 + ((Attempts(r) \div 2) % 2)

AllOff == [p \in Proxies |-> "off"]

HuntInit ==
    /\ run = "none" /\ report = Blank /\ onDisk = NoReport /\ at = AllOff
    /\ cancelled = FALSE /\ runs = 0
    /\ sent = [p \in Proxies |-> 0] /\ mixed = FALSE

Writes(r, ok) == onDisk' = IF ok THEN r ELSE onDisk

Gets(p, step) == at' = [at EXCEPT ![p] = step]

----------------------------------------------------------------------------
(* A run begins.  One that cannot write, or finds nothing left to do,      *)
(* changes nothing.                                                        *)

Starts == run = "none" /\ runs < MaxRuns /\ runs' = runs + 1 /\ ~Finished(Resumed)

\* runFast does not begin with a credential known to be unusable, nor with one
\* whose token expired since.
StartFast(expired) ==
    /\ Starts /\ Resumed.credential = "open"
    /\ IF expired
       THEN /\ onDisk' = [Resumed EXCEPT !.credential = "expired"]
            /\ UNCHANGED <<run, report, at>>
       ELSE /\ run' = "fast" /\ report' = Resumed /\ onDisk' = Resumed
            /\ at' = [p \in Proxies |-> "loop"]
    /\ UNCHANGED <<cancelled, sent, mixed>>

\* run knows nothing of the credential and drops what the report says of it.
StartSequential ==
    /\ Starts
    /\ run' = "sequential" /\ report' = [Resumed EXCEPT !.credential = "open"]
    /\ at' = [AllOff EXCEPT ![Turn(Resumed)] = "loop"]
    /\ mixed' = TRUE
    /\ UNCHANGED <<onDisk, cancelled, sent>>

----------------------------------------------------------------------------
(* An attempt.                                                             *)

MayReserve(p) ==
    /\ Attempts(report) < 2 * PerProxy
    /\ run = "fast" => ~cancelled /\ report.counts[p] < PerProxy

Reserved(p) == [report EXCEPT !.counts[p] = @ + 1]

\* Mutant: the attempt is saved with its result only.
ReserveUnsaved(p, ok) ==
    /\ at[p] = "loop" /\ MayReserve(p)
    /\ report' = Reserved(p) /\ Gets(p, "reserved")
    /\ UNCHANGED <<run, onDisk, cancelled, runs, sent, mixed>>

\* An attempt that cannot be saved is taken back, and not sent.
Reserve(p, ok) ==
    /\ at[p] = "loop" /\ MayReserve(p)
    /\ IF ok THEN report' = Reserved(p) /\ Gets(p, "reserved")
       ELSE UNCHANGED report /\ Gets(p, "error")
    /\ Writes(Reserved(p), ok)
    /\ UNCHANGED <<run, cancelled, runs, sent, mixed>>

\* A request of a cancelled context does not leave.
Send(p) ==
    /\ at[p] = "reserved"
    /\ IF cancelled THEN Gets(p, "unsent") /\ UNCHANGED sent
       ELSE Gets(p, "waiting") /\ sent' = [sent EXCEPT ![p] = @ + 1]
    /\ UNCHANGED <<run, report, onDisk, cancelled, runs, mixed>>

\* What finish records: the upstream rejected the credential, or a 292 is in
\* the archive.
Recorded(rejected, found) ==
    [report EXCEPT !.found = @ \/ found,
                   !.credential = IF rejected THEN "rejected" ELSE @]

\* Mutant: the other worker goes on.
FinishAlone(p, rejected, found, next, ok) ==
    /\ run = "fast" /\ at[p] \in {"waiting", "unsent"} /\ (rejected => at[p] = "waiting")
    /\ report' = Recorded(rejected, found) /\ Writes(report', ok)
    /\ Gets(p, IF ~ok THEN "error" ELSE IF rejected \/ found \/ cancelled THEN "off" ELSE next)
    /\ UNCHANGED <<run, cancelled, runs, sent, mixed>>

\* finish, and what fastWorker makes of the answer: another round, or a reason
\* to stop all, or the end.
Finish(p, rejected, found, next, ok) ==
    /\ run = "fast" /\ at[p] \in {"waiting", "unsent"} /\ (rejected => at[p] = "waiting")
    /\ report' = Recorded(rejected, found) /\ Writes(report', ok)
    /\ cancelled' = (cancelled \/ rejected \/ found)
    /\ Gets(p, IF ~ok THEN "error" ELSE IF rejected \/ cancelled' THEN "off" ELSE next)
    /\ UNCHANGED <<run, runs, sent, mixed>>

\* The same of the sequential run.
FinishSequential(found, next) ==
    /\ run = "sequential" /\ \E p \in Proxies : at[p] = "waiting"
    /\ report' = Recorded(FALSE, found) /\ onDisk' = report'
    /\ at' = IF ~found /\ next = "loop" /\ Attempts(report) < 2 * PerProxy
             THEN [AllOff EXCEPT ![Turn(report)] = "loop"]
             ELSE AllOff
    /\ UNCHANGED <<run, cancelled, runs, sent, mixed>>

----------------------------------------------------------------------------
(* The end of a run.                                                       *)

\* A worker's own checks before it reserves; the report is told, the other
\* worker not yet.
NoticeExpired(p) ==
    /\ run = "fast" /\ at[p] = "loop" /\ Gets(p, "stopping")
    /\ report' = [report EXCEPT !.credential = "expired"]
    /\ UNCHANGED <<run, onDisk, cancelled, runs, sent, mixed>>

NoticeFound(p) ==
    /\ at[p] = "loop" /\ Gets(p, IF run = "fast" THEN "stopping" ELSE "off")
    /\ report' = [report EXCEPT !.found = TRUE]
    /\ UNCHANGED <<run, onDisk, cancelled, runs, sent, mixed>>

\* The host or a private file fails a worker.
Fail(p) ==
    /\ run = "fast" /\ at[p] \in {"loop", "waiting"} /\ Gets(p, "error")
    /\ UNCHANGED <<run, report, onDisk, cancelled, runs, sent, mixed>>

Quit(p) ==
    /\ run = "fast" /\ at[p] = "loop" /\ ~MayReserve(p) /\ Gets(p, "off")
    /\ UNCHANGED <<run, report, onDisk, cancelled, runs, sent, mixed>>

StopAll(p, ok) ==
    /\ run = "fast" /\ at[p] \in {"stopping", "error"} /\ Gets(p, "off")
    /\ cancelled' = TRUE /\ Writes(report, ok)
    /\ UNCHANGED <<run, report, runs, sent, mixed>>

Gone ==
    /\ run' = "none" /\ report' = Blank /\ at' = AllOff /\ cancelled' = FALSE
    /\ UNCHANGED <<runs, sent, mixed>>

\* The last save.
Wrap(ok) == run # "none" /\ at = AllOff /\ Writes(report, ok) /\ Gone

\* The process stops; a sequential run does on any error, one of a write
\* included.
Interrupt == run # "none" /\ UNCHANGED onDisk /\ Gone

----------------------------------------------------------------------------

Nexts == {"loop", "stopping"}

HuntNext ==
    \/ \E expired \in BOOLEAN : StartFast(expired)
    \/ StartSequential \/ Interrupt
    \/ \E ok \in BOOLEAN :
        \/ Wrap(ok)
        \/ \E p \in Proxies : Reserve(p, ok) \/ StopAll(p, ok)
        \/ \E p \in Proxies, rejected \in BOOLEAN, found \in BOOLEAN, next \in Nexts :
               Finish(p, rejected, found, next, ok)
    \/ \E found \in BOOLEAN, next \in Nexts : FinishSequential(found, next)
    \/ \E p \in Proxies : Send(p) \/ NoticeExpired(p) \/ NoticeFound(p) \/ Fail(p) \/ Quit(p)

HuntSpec == HuntInit /\ [][HuntNext]_huntVars

----------------------------------------------------------------------------

Steps == {"off", "loop", "reserved", "waiting", "unsent", "stopping", "error"}

HuntTypeOK ==
    /\ run \in {"none", "fast", "sequential"} /\ report \in Reports
    /\ onDisk \in Reports \cup {NoReport}
    /\ at \in [Proxies -> Steps] /\ cancelled \in BOOLEAN /\ mixed \in BOOLEAN
    /\ runs \in 0..MaxRuns /\ sent \in [Proxies -> Nat]

\* "Each attempt is saved before transmission and included in the 100-request
\* cap, including failures or interrupted attempts" (cmd/hunt292/README.md:9):
\* whatever fails or is interrupted, all runs together send no more than the
\* cap, and through no proxy more than its own, unless a sequential run, which
\* has no cap per proxy, took over the report of a fast one.
CapHolds ==
    /\ sent[1] + sent[2] <= 2 * PerProxy
    /\ ~mixed => \A p \in Proxies : sent[p] <= PerProxy

\* What TestCredentialRejectionStopsBothQueues asks of two calls
\* (cmd/hunt292/fast_test.go:38), of all schedules: once the answer of one
\* worker rejects the credential the other sends no more, and a report that
\* says so is never taken up by another fast run.
RejectionIsFinal ==
    [][run # "sequential" =>
          /\ sent' # sent => "rejected" \notin {report.credential, Resumed.credential}
          /\ Resumed.credential # "open" => Resumed'.credential # "open"]_huntVars
=============================================================================
