------------------------------ MODULE Baseline ------------------------------
(***************************************************************************)
(* baseline.Manager: the mean and the variance it learns for every host,   *)
(* the deviations it reports, and the file the baselines survive in from   *)
(* one run of the program to the next.                                     *)
(*                                                                         *)
(* Means and variances are exact: the mean is mean / unit, the variance    *)
(* var / unit^2, and unit is B^n after n samples, where the smoothing      *)
(* factor is A / B.                                                        *)
(* Ports per minute are averaged too, but nothing looks at them.           *)
(***************************************************************************)
EXTENDS Integers, FiniteSets

CONSTANTS
    Hosts, Metrics,  \* "packets" and "bytes" in the code
    Samples,         \* what ObserveHost may be given: a rate for every metric
    A, B,            \* Config.Alpha = A / B
    SigmaK,          \* Config.SigmaK
    MinSigma,        \* per metric: 1 packet and 1024 bytes in the code
    MinSamples, EnoughSamples,  \* 10 and 30 in the code
    WarmupSec,
    MaxSamples, MaxUp, MaxRuns, \* bounds: samples per host, seconds, runs
    DiskFails

ASSUME BaselineAssumption ==
    /\ A \in Nat \ {0} /\ B \in Nat /\ A < B /\ SigmaK \in Nat
    /\ Samples \subseteq [Metrics -> Nat]

VARIABLES
    hosts,       \* Manager.hosts; an entry of no samples is a host not in the map
    up,          \* seconds since startTime, and ticks
    file,        \* baseline.json; whole = FALSE: missing, or cut short by a crash
    phase,       \* "running", "save", "write" or "down"
    runs,        \* history: starts of the program
    last,        \* history: per host the last sample and the metrics flagged by it
    before,      \* history: and the one before, in the same run
    flaggedAt,   \* history: seconds of this run at which something was flagged
    saved        \* history: what the last save that completed had to write

vars == <<hosts, up, file, phase, runs, last, before, flaggedAt, saved>>

Unknown ==
    [n |-> 0, unit |-> 1, mean |-> [m \in Metrics |-> 0], var |-> [m \in Metrics |-> 0]]
Nobody == [h \in Hosts |-> Unknown]
NoSample == [rate |-> [m \in Metrics |-> 0], flagged |-> {}]

Init ==
    /\ hosts = Nobody /\ up = 0
    /\ file = [whole |-> FALSE, hosts |-> Nobody]
    /\ phase = "running" /\ runs = 1
    /\ last = [h \in Hosts |-> NoSample] /\ before = last
    /\ flaggedAt = {} /\ saved = Nobody

\* The first sample of a host is its mean.
Metric(h, s) ==
    IF hosts[h].n = 0 THEN [Unknown EXCEPT !.mean = s] ELSE hosts[h]

\* The distance of the sample from the mean, in parts of the unit.
Distance(hm, s, m) == s[m] * hm.unit - hm.mean[m]

WarmedUp(hm) == up + 1 >= WarmupSec \/ hm.n >= EnoughSamples

\* Compared before the sample is learned; no square roots, both sides squared.
Deviates(hm, s, m) ==
    /\ WarmedUp(hm) /\ hm.n > MinSamples
    /\ hm.var[m] > MinSigma[m] * MinSigma[m] * hm.unit * hm.unit
    /\ Distance(hm, s, m) > 0
    /\ Distance(hm, s, m) * Distance(hm, s, m) > SigmaK * SigmaK * hm.var[m]

\* Mutant of Learn: the variance takes the distance from the mean just updated.
LearnMeanFirst(hm, s) ==
    LET mean == [m \in Metrics |-> A * s[m] * hm.unit + (B - A) * hm.mean[m]]
        Rest(m) == (s[m] * B * hm.unit - mean[m]) \div B
    IN  [n |-> hm.n + 1, unit |-> B * hm.unit,
         mean |-> mean,
         var |-> [m \in Metrics |-> (B - A) * (B * hm.var[m] + A * Rest(m) * Rest(m))]]

Learn(hm, s) ==
    [n |-> hm.n + 1, unit |-> B * hm.unit,
     mean |-> [m \in Metrics |-> A * s[m] * hm.unit + (B - A) * hm.mean[m]],
     var |-> [m \in Metrics |->
                (B - A) * (B * hm.var[m] + A * Distance(hm, s, m) * Distance(hm, s, m))]]

(***************************************************************************)
(* ObserveHost of every talker, once a second.  A host that has sent or    *)
(* received anything in this run stays a talker.                           *)
(***************************************************************************)
Tick ==
    \E talkers \in SUBSET Hosts : \E s \in [talkers -> Samples] :
        LET Hm(h) == Metric(h, s[h])
            Flagged(h) == {m \in Metrics : Deviates(Hm(h), s[h], m)}
        IN  /\ phase = "running" /\ up < MaxUp
            /\ \A h \in talkers : hosts[h].n < MaxSamples
            /\ {h \in Hosts : last[h] # NoSample} \subseteq talkers
            /\ up' = up + 1
            /\ hosts' = [h \in Hosts |-> IF h \in talkers THEN Learn(Hm(h), s[h]) ELSE hosts[h]]
            /\ before' = last
            /\ last' = [h \in Hosts |-> IF h \in talkers
                                        THEN [rate |-> s[h], flagged |-> Flagged(h)]
                                        ELSE NoSample]
            /\ flaggedAt' = IF \A h \in talkers : Flagged(h) = {}
                            THEN flaggedAt ELSE flaggedAt \union {up + 1}
            /\ UNCHANGED <<file, phase, runs, saved>>

Stop ==
    /\ phase = "running"
    /\ phase' = "save"
    /\ UNCHANGED <<hosts, up, file, runs, last, before, flaggedAt, saved>>

(***************************************************************************)
(* SaveToFile.  os.WriteFile first truncates; a failed or interrupted      *)
(* write leaves a part of the text, which is no JSON.                      *)
(***************************************************************************)
SaveOpen ==
    /\ phase = "save"
    /\ \/ phase' = "write" /\ file' = [whole |-> FALSE, hosts |-> Nobody]
       \/ DiskFails /\ phase' = "down" /\ UNCHANGED file
    /\ UNCHANGED <<hosts, up, runs, last, before, flaggedAt, saved>>

SaveWrite ==
    /\ phase = "write"
    /\ phase' = "down"
    /\ file' = [whole |-> TRUE, hosts |-> hosts]
    /\ saved' = hosts
    /\ UNCHANGED <<hosts, up, runs, last, before, flaggedAt>>

\* The program dies, in a run or in the middle of the save.
Crash ==
    /\ phase # "down"
    /\ phase' = "down"
    /\ \/ UNCHANGED file
       \/ /\ phase = "write"
          /\ \E written \in SUBSET Hosts :
               file' = [whole |-> FALSE,
                        hosts |-> [h \in Hosts |-> IF h \in written THEN hosts[h] ELSE Unknown]]
    /\ UNCHANGED <<hosts, up, runs, last, before, flaggedAt, saved>>

\* Mutant of LoadFromFile: what could be read of a torn file is taken.
LoadFromTornFile == file.hosts

\* An error of reading or parsing leaves the new manager empty.
LoadFromFile == IF file.whole THEN file.hosts ELSE Nobody

\* NewManager in a new run.
Start ==
    /\ phase = "down" /\ runs < MaxRuns
    /\ phase' = "running" /\ runs' = runs + 1
    /\ up' = 0
    /\ hosts' = LoadFromFile
    /\ last' = [h \in Hosts |-> NoSample] /\ before' = last'
    /\ flaggedAt' = {}
    /\ UNCHANGED <<file, saved>>

Next ==
    \/ Tick \/ Stop \/ SaveOpen \/ SaveWrite \/ Crash \/ Start

Spec == Init /\ [][Next]_vars
-----------------------------------------------------------------------------
(***************************************************************************)
(* A rate that lasts is reported once: when a host deviates and its next   *)
(* sample is not higher, the variance has grown enough that the metric is  *)
(* not flagged again.  It needs A / B >= 1 / (1 + SigmaK^2), which is met  *)
(* exactly by the defaults 0.1 and 3.0.                                    *)
(***************************************************************************)
LastingRateFlaggedOnce ==
    \A h \in Hosts : \A m \in last[h].flagged \intersect before[h].flagged :
        last[h].rate[m] > before[h].rate[m]

(***************************************************************************)
(* A new run starts from the baselines of a save that completed or from    *)
(* none at all, whatever crash came before: never from a mixture.          *)
(***************************************************************************)
LoadedWasSaved ==
    [][phase = "down" /\ phase' = "running" => hosts' \in {Nobody, saved}]_vars

\* "Warm-up duration in seconds before flagging alerts" (baseline.go:29): no
\* alert of a run is younger than that.
WarmupHolds == \A t \in flaggedAt : t >= WarmupSec

(***************************************************************************)
(* "Expected BEHAVIORAL_DEVIATION anomaly on burst traffic"                *)
(* (baseline_test.go:38): a warmed up host whose rates never varied, and   *)
(* then are all far above the mean, is flagged.                            *)
(***************************************************************************)
BurstIsFlagged ==
    [][\A h \in Hosts :
         LET Far(m) == last'[h].rate[m] * hosts[h].unit > 4 * hosts[h].mean[m]
         IN  /\ up' = up + 1 /\ last'[h] # NoSample
             /\ WarmedUp(hosts[h]) /\ hosts[h].n > MinSamples
             /\ \A m \in Metrics : hosts[h].var[m] = 0 /\ Far(m)
             => last'[h].flagged # {}]_vars
=============================================================================
