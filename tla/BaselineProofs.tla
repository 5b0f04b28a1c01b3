--------------------------- MODULE BaselineProofs ---------------------------
(***************************************************************************)
(* Theorems about the file of the baselines and about the deviations they  *)
(* report, for any hosts, any samples and any number of crashes and        *)
(* restarts.                                                               *)
(***************************************************************************)
EXTENDS Baseline, TLAPS

\* A file that can be parsed is what the last save that completed has written.
FileIsSaved ==
  /\ DOMAIN file = {"whole", "hosts"}
  /\ file.whole => file.hosts = saved

LEMMA NextFileIsSaved == FileIsSaved /\ [Next]_vars => FileIsSaved'
<1> SUFFICES ASSUME FileIsSaved, [Next]_vars PROVE FileIsSaved'
  OBVIOUS
<1>1. CASE Tick
  BY <1>1 DEF Tick, FileIsSaved
<1>2. CASE Stop \/ Start
  BY <1>2 DEF Stop, Start, FileIsSaved
<1>3. CASE SaveOpen
  BY <1>3 DEF SaveOpen, FileIsSaved
<1>4. CASE SaveWrite
  BY <1>4 DEF SaveWrite, FileIsSaved
<1>5. CASE Crash
  BY <1>5 DEF Crash, FileIsSaved
<1>6. CASE UNCHANGED vars
  BY <1>6 DEF vars, FileIsSaved
<1> QED
  BY <1>1, <1>2, <1>3, <1>4, <1>5, <1>6 DEF Next

(***************************************************************************)
(* Whatever crash or disk failure came before, a run of the program starts *)
(* from the baselines of a save that completed or from none at all.        *)
(***************************************************************************)
THEOREM StartsFromASave == Spec => LoadedWasSaved
<1>1. Init => FileIsSaved
  BY DEF Init, FileIsSaved
<1>2. FileIsSaved /\ [Next]_vars =>
        [phase = "down" /\ phase' = "running" => hosts' \in {Nobody, saved}]_vars
  <2> SUFFICES ASSUME FileIsSaved, Next, phase = "down", phase' = "running"
               PROVE  hosts' \in {Nobody, saved}
    OBVIOUS
  <2>1. Start
    BY DEF Next, Tick, Stop, SaveOpen, SaveWrite, Crash
  <2> QED
    BY <2>1 DEF Start, LoadFromFile, FileIsSaved
<1> QED
  BY <1>1, <1>2, NextFileIsSaved, PTL DEF Spec, LoadedWasSaved
-----------------------------------------------------------------------------
(* Products, for which the provers need small steps. *)

LEMMA ProductType ==
  ASSUME NEW x \in Nat, NEW y \in Nat
  PROVE  x * y \in Nat
OBVIOUS

LEMMA PositiveProduct ==
  ASSUME NEW x \in Nat \ {0}, NEW y \in Nat \ {0}
  PROVE  x * y \in Nat \ {0}
OBVIOUS

LEMMA SquareType ==
  ASSUME NEW x \in Int
  PROVE  x * x \in Nat
<1>1. CASE x >= 0
  BY <1>1
<1>2. CASE x < 0
  <2>1. x * x = (-x) * (-x) /\ -x \in Nat
    BY <1>2
  <2> QED
    BY <2>1, ProductType
<1> QED
  BY <1>1, <1>2

LEMMA SquareGrows ==
  ASSUME NEW x \in Int, NEW y \in Int, 0 < x, x <= y
  PROVE  x * x <= y * y
OBVIOUS

LEMMA ProductGrows ==
  ASSUME NEW x \in Nat, NEW y \in Nat, x <= y, NEW z \in Nat
  PROVE  x * z <= y * z
OBVIOUS

\* After a sample that deviates, the variance keeps up with the distance.
LEMMA VarianceKeepsUp ==
  ASSUME NEW c \in Nat, NEW a \in Nat, NEW b \in Nat, NEW q \in Nat, c <= q * a,
         NEW d \in Int, NEW v \in Nat
  PROVE  (c * d) * (c * d) <= q * (c * (b * v + a * (d * d)))
<1>1. PICK e \in Nat : e = d * d
  BY SquareType
<1>2. PICK qa \in Nat : qa = q * a
  BY ProductType
<1>3. PICK ce \in Nat : ce = c * e
  BY ProductType
<1>4. (c * d) * (c * d) = c * ce
  <2>1. (c * d) * (c * d) = c * (c * (d * d))
    OBVIOUS
  <2> QED
    BY <1>1, <1>3, <2>1
<1>5. c * ce <= qa * ce
  BY <1>2, <1>3, ProductGrows
<1>6. PICK w \in Nat : w = q * (c * (b * v))
  BY ProductType
<1>7. q * (c * (b * v + a * e)) = w + qa * ce
  <2>1. q * (c * (b * v + a * e)) = q * (c * (b * v)) + q * (c * (a * e))
    OBVIOUS
  <2>2. q * (c * (a * e)) = (q * a) * (c * e)
    OBVIOUS
  <2> QED
    BY <1>2, <1>3, <1>6, <2>1, <2>2
<1>8. qa * ce \in Nat
  BY ProductType
<1> QED
  BY <1>1, <1>4, <1>5, <1>6, <1>7, <1>8
-----------------------------------------------------------------------------
(* Baselines. *)

Average == [n : Nat, unit : Nat \ {0}, mean : [Metrics -> Nat], var : [Metrics -> Nat]]
Observed == [rate : [Metrics -> Nat], flagged : SUBSET Metrics]

Typed ==
  /\ hosts \in [Hosts -> Average] /\ saved \in [Hosts -> Average]
  /\ last \in [Hosts -> Observed] /\ before \in [Hosts -> Observed]

\* What the baseline hm has learned of a rate: the same again does not deviate.
Absorbed(hm, rate, m) ==
  hm.n # 0 /\ Distance(hm, rate, m) * Distance(hm, rate, m) <= SigmaK * SigmaK * hm.var[m]

FlaggedIsAbsorbed ==
  \A h \in Hosts : \A m \in last[h].flagged : Absorbed(hosts[h], last[h].rate, m)

LEMMA NobodyTyped ==
  /\ Unknown \in Average /\ NoSample \in Observed /\ NoSample.flagged = {}
  /\ Nobody \in [Hosts -> Average]
BY DEF Unknown, NoSample, Nobody, Average, Observed

LEMMA MetricType ==
  ASSUME NEW h \in Hosts, hosts \in [Hosts -> Average], NEW s \in [Metrics -> Nat]
  PROVE  Metric(h, s) \in Average
BY DEF Metric, Unknown, Average

LEMMA LearnType ==
  ASSUME NEW hm \in Average, NEW s \in [Metrics -> Nat]
  PROVE  /\ Learn(hm, s) \in Average
         /\ Learn(hm, s).n # 0
         /\ \A m \in Metrics :
              /\ Distance(hm, s, m) \in Int
              /\ Distance(Learn(hm, s), s, m) = (B - A) * Distance(hm, s, m)
              /\ Learn(hm, s).var[m] =
                   (B - A) * (B * hm.var[m] + A * (Distance(hm, s, m) * Distance(hm, s, m)))
<1>1. /\ A \in Nat \ {0} /\ B \in Nat \ {0} /\ A < B /\ B - A \in Nat
  BY BaselineAssumption
<1>2. /\ hm.n \in Nat /\ hm.unit \in Nat \ {0}
      /\ \A m \in Metrics : hm.mean[m] \in Nat /\ hm.var[m] \in Nat /\ s[m] \in Nat
  BY DEF Average
<1>3. ASSUME NEW m \in Metrics
      PROVE  /\ Distance(hm, s, m) \in Int
             /\ A * s[m] * hm.unit + (B - A) * hm.mean[m] \in Nat
             /\ Learn(hm, s).mean[m] = A * s[m] * hm.unit + (B - A) * hm.mean[m]
             /\ Learn(hm, s).var[m] =
                  (B - A) * (B * hm.var[m] + A * (Distance(hm, s, m) * Distance(hm, s, m)))
             /\ Learn(hm, s).var[m] \in Nat
  <2>1. /\ s[m] \in Nat /\ hm.unit \in Nat /\ hm.mean[m] \in Nat /\ hm.var[m] \in Nat
    BY <1>2
  <2>2. Distance(hm, s, m) \in Int
    BY <2>1 DEF Distance
  <2>3. /\ A * s[m] * hm.unit \in Nat /\ (B - A) * hm.mean[m] \in Nat
    BY <1>1, <2>1, ProductType
  <2>4. Learn(hm, s).mean[m] = A * s[m] * hm.unit + (B - A) * hm.mean[m]
    BY DEF Learn
  <2>5. PICK d \in Int : d = Distance(hm, s, m)
    BY <2>2
  <2>6. Learn(hm, s).var[m] = (B - A) * (B * hm.var[m] + A * d * d)
    BY <2>5 DEF Learn
  <2>7. A * d * d = A * (d * d)
    BY <1>1
  <2>8. d * d \in Nat
    BY SquareType
  <2>9. PICK u \in Nat : u = B * hm.var[m]
    BY <1>1, <2>1, ProductType
  <2>10. PICK w \in Nat : w = A * (d * d)
    BY <1>1, <2>8, ProductType
  <2>11. (B - A) * (u + w) \in Nat
    BY <1>1, ProductType
  <2> QED
    BY <2>2, <2>3, <2>4, <2>5, <2>6, <2>7, <2>9, <2>10, <2>11
<1>4. Learn(hm, s).n = hm.n + 1 /\ Learn(hm, s).unit = B * hm.unit
  BY DEF Learn
<1>5. B * hm.unit \in Nat \ {0}
  BY <1>1, <1>2, PositiveProduct
<1>6. Learn(hm, s) \in Average
  <2>1. PICK mean, var : /\ mean = Learn(hm, s).mean /\ var = Learn(hm, s).var
    OBVIOUS
  <2>2. Learn(hm, s) = [n |-> hm.n + 1, unit |-> B * hm.unit, mean |-> mean, var |-> var]
    BY <2>1 DEF Learn
  <2>3. mean = [m \in Metrics |-> mean[m]] /\ var = [m \in Metrics |-> var[m]]
    BY <2>1 DEF Learn
  <2>4. \A m \in Metrics : mean[m] \in Nat /\ var[m] \in Nat
    BY <1>3, <2>1
  <2>5. mean \in [Metrics -> Nat] /\ var \in [Metrics -> Nat]
    BY <2>3, <2>4
  <2> QED
    BY <1>2, <1>5, <2>2, <2>5 DEF Average
<1>7. ASSUME NEW m \in Metrics
      PROVE  Distance(Learn(hm, s), s, m) = (B - A) * Distance(hm, s, m)
  <2>1. PICK x, p, y : x = s[m] /\ p = hm.unit /\ y = hm.mean[m]
    OBVIOUS
  <2>2. x \in Nat /\ p \in Nat /\ y \in Nat
    BY <1>2, <2>1
  <2>3. Distance(Learn(hm, s), s, m) = x * (B * p) - (A * x * p + (B - A) * y)
    BY <1>3, <1>4, <2>1 DEF Distance
  <2>4. x * (B * p) = B * (x * p) /\ A * x * p = A * (x * p)
    BY <1>1, <2>2
  <2>5. PICK z \in Nat : z = x * p
    BY <2>2, ProductType
  <2>6. B * z - (A * z + (B - A) * y) = (B - A) * (z - y)
    BY <1>1, <2>2
  <2>7. Distance(hm, s, m) = z - y
    BY <2>1, <2>5 DEF Distance
  <2> QED
    BY <2>3, <2>4, <2>5, <2>6, <2>7
<1> QED
  BY <1>2, <1>3, <1>4, <1>6, <1>7

\* A sample that deviates is absorbed when it is learned.
LEMMA DeviationAbsorbed ==
  ASSUME B <= (1 + SigmaK * SigmaK) * A,
         NEW hm \in Average, NEW s \in [Metrics -> Nat], NEW m \in Metrics
  PROVE  Absorbed(Learn(hm, s), s, m)
<1>1. PICK c, q, d, v : /\ c = B - A /\ q = SigmaK * SigmaK
                        /\ d = Distance(hm, s, m) /\ v = hm.var[m]
  OBVIOUS
<1>2. /\ A \in Nat /\ B \in Nat /\ c \in Nat /\ q \in Nat /\ v \in Nat
  BY <1>1, BaselineAssumption, ProductType DEF Average
<1>3. c <= q * A
  <2>1. (1 + q) * A = A + q * A
    BY <1>2
  <2> QED
    BY <1>1, <1>2, <2>1
<1>4. /\ d \in Int /\ Learn(hm, s).n # 0
      /\ Distance(Learn(hm, s), s, m) = c * d
      /\ Learn(hm, s).var[m] = c * (B * v + A * (d * d))
  BY <1>1, LearnType
<1>5. (c * d) * (c * d) <= q * (c * (B * v + A * (d * d)))
  BY <1>2, <1>3, <1>4, VarianceKeepsUp
<1> QED
  BY <1>1, <1>4, <1>5 DEF Absorbed

\* What is absorbed does not deviate again, nor does anything below it.
LEMMA AbsorbedIsQuiet ==
  ASSUME NEW hm \in Average, NEW rate \in [Metrics -> Nat], NEW m \in Metrics,
         Absorbed(hm, rate, m),
         NEW s \in [Metrics -> Nat], s[m] <= rate[m]
  PROVE  ~Deviates(hm, s, m)
<1>1. PICK d, e : d = Distance(hm, s, m) /\ e = Distance(hm, rate, m)
  OBVIOUS
<1>2. /\ s[m] \in Nat /\ rate[m] \in Nat /\ hm.unit \in Nat /\ hm.mean[m] \in Nat
      /\ hm.var[m] \in Nat
  BY DEF Average
<1>3. d \in Int /\ e \in Int /\ d <= e
  <2>1. s[m] * hm.unit \in Nat /\ rate[m] * hm.unit \in Nat
    BY <1>2, ProductType
  <2>2. s[m] * hm.unit <= rate[m] * hm.unit
    BY <1>2, ProductGrows
  <2> QED
    BY <1>1, <1>2, <2>1, <2>2 DEF Distance
<1>4. PICK r \in Nat : r = SigmaK * SigmaK * hm.var[m]
  BY <1>2, BaselineAssumption, ProductType
<1>5. d > 0 => d * d <= e * e
  BY <1>3, SquareGrows
<1>6. d * d \in Nat /\ e * e \in Nat
  BY <1>3, SquareType
<1>7. e * e <= r
  BY <1>1, <1>4 DEF Absorbed
<1>8. ~(d > 0 /\ d * d > r)
  BY <1>3, <1>4, <1>5, <1>6, <1>7
<1> QED
  BY <1>1, <1>4, <1>8 DEF Deviates

\* What a tick does to each host.
Observes(talkers, s) ==
  /\ hosts' = [h \in Hosts |-> IF h \in talkers THEN Learn(Metric(h, s[h]), s[h])
                               ELSE hosts[h]]
  /\ before' = last
  /\ last' = [h \in Hosts |->
        IF h \in talkers
        THEN [rate |-> s[h],
              flagged |-> {m \in Metrics : Deviates(Metric(h, s[h]), s[h], m)}]
        ELSE NoSample]
  /\ UNCHANGED <<file, saved>>

LEMMA TickEffect ==
  ASSUME Tick
  PROVE  \E talkers \in SUBSET Hosts : \E s \in [talkers -> [Metrics -> Nat]] :
           Observes(talkers, s)
<1>1. PICK talkers \in SUBSET Hosts :
        \E s \in [talkers -> Samples] : Observes(talkers, s)
  BY DEF Tick, Observes
<1>2. [talkers -> Samples] \subseteq [talkers -> [Metrics -> Nat]]
  BY BaselineAssumption
<1> QED
  BY <1>1, <1>2

Inductive == FileIsSaved /\ Typed /\ FlaggedIsAbsorbed /\ LastingRateFlaggedOnce

LEMMA NextInductive ==
  ASSUME B <= (1 + SigmaK * SigmaK) * A, Inductive, [Next]_vars
  PROVE  Inductive'
<1>1. FileIsSaved /\ Typed /\ FlaggedIsAbsorbed /\ LastingRateFlaggedOnce
  BY DEF Inductive
<1>2. FileIsSaved'
  BY <1>1, NextFileIsSaved
<1>3. CASE Tick
  <2>0. PICK talkers \in SUBSET Hosts :
          \E s \in [talkers -> [Metrics -> Nat]] : Observes(talkers, s)
    BY <1>3, TickEffect
  <2>1. PICK s \in [talkers -> [Metrics -> Nat]] : Observes(talkers, s)
    BY <2>0
  <2>2. \A h \in talkers : s[h] \in [Metrics -> Nat] /\ Metric(h, s[h]) \in Average
    BY <1>1, MetricType DEF Typed
  <2>3. Typed'
    <3>1. hosts' \in [Hosts -> Average]
      BY <1>1, <2>1, <2>2, LearnType DEF Typed, Observes
    <3>2. last' \in [Hosts -> Observed]
      BY <2>1, <2>2, NobodyTyped DEF Observes, Observed
    <3> QED
      BY <1>1, <2>1, <3>1, <3>2 DEF Typed, Observes
  <2>4. FlaggedIsAbsorbed'
    <3> SUFFICES ASSUME NEW h \in Hosts, NEW m \in last'[h].flagged
                 PROVE  Absorbed(hosts'[h], last'[h].rate, m)
      BY DEF FlaggedIsAbsorbed
    <3>1. h \in talkers
      BY <2>1, NobodyTyped DEF Observes
    <3>2. last'[h].rate = s[h] /\ m \in Metrics /\ hosts'[h] = Learn(Metric(h, s[h]), s[h])
      BY <2>1, <3>1 DEF Observes
    <3> QED
      BY <2>2, <3>1, <3>2, DeviationAbsorbed
  <2>5. LastingRateFlaggedOnce'
    <3> SUFFICES ASSUME NEW h \in Hosts, NEW m \in last'[h].flagged, m \in before'[h].flagged
                 PROVE  last'[h].rate[m] > before'[h].rate[m]
      BY DEF LastingRateFlaggedOnce
    <3>1. h \in talkers
      BY <2>1, NobodyTyped DEF Observes
    <3>2. /\ last'[h].rate = s[h] /\ m \in Metrics
          /\ Deviates(Metric(h, s[h]), s[h], m)
      BY <2>1, <3>1 DEF Observes
    <3>3. /\ Absorbed(hosts[h], last[h].rate, m) /\ before'[h] = last[h]
          /\ hosts[h] \in Average /\ last[h].rate \in [Metrics -> Nat]
      BY <1>1, <2>1 DEF FlaggedIsAbsorbed, Typed, Observed, Observes
    <3>4. Metric(h, s[h]) = hosts[h]
      BY <3>3 DEF Absorbed, Metric
    <3>5. ~(s[h][m] <= last[h].rate[m])
      BY <2>2, <3>1, <3>2, <3>3, <3>4, AbsorbedIsQuiet
    <3>6. s[h][m] \in Nat /\ last[h].rate[m] \in Nat
      BY <2>2, <3>1, <3>2, <3>3
    <3> QED
      BY <3>2, <3>3, <3>5, <3>6
  <2> QED
    BY <1>2, <2>3, <2>4, <2>5 DEF Inductive
<1>4. CASE Start
  <2>1. /\ hosts' = LoadFromFile /\ UNCHANGED <<file, saved>>
        /\ last' = [h \in Hosts |-> NoSample] /\ before' = last'
    BY <1>4 DEF Start
  <2>2. LoadFromFile \in [Hosts -> Average]
    BY <1>1, NobodyTyped DEF LoadFromFile, FileIsSaved, Typed
  <2>3. Typed'
    BY <1>1, <2>1, <2>2, NobodyTyped DEF Typed
  <2>4. FlaggedIsAbsorbed' /\ LastingRateFlaggedOnce'
    BY <2>1, NobodyTyped DEF FlaggedIsAbsorbed, LastingRateFlaggedOnce
  <2> QED
    BY <1>2, <2>3, <2>4 DEF Inductive
<1>5. CASE SaveWrite
  <2>1. saved' = hosts /\ UNCHANGED <<hosts, last, before>>
    BY <1>5 DEF SaveWrite
  <2> QED
    BY <1>1, <1>2, <2>1 DEF Inductive, Typed, FlaggedIsAbsorbed, LastingRateFlaggedOnce
<1>6. CASE Stop \/ SaveOpen \/ Crash \/ UNCHANGED vars
  <2>1. UNCHANGED <<hosts, saved, last, before>>
    BY <1>6 DEF Stop, SaveOpen, Crash, vars
  <2> QED
    BY <1>1, <1>2, <2>1 DEF Inductive, Typed, FlaggedIsAbsorbed, LastingRateFlaggedOnce
<1> QED
  BY <1>3, <1>4, <1>5, <1>6 DEF Next

(***************************************************************************)
(* For any hosts, rates, runs and crashes: with a smoothing factor of at   *)
(* least 1 / (1 + SigmaK^2), which the defaults 0.1 and 3.0 just reach, a  *)
(* metric that deviates is not flagged again by a next sample that is not  *)
(* higher.                                                                 *)
(***************************************************************************)
THEOREM LastingRatesFlaggedOnce ==
  ASSUME B <= (1 + SigmaK * SigmaK) * A
  PROVE  Spec => []LastingRateFlaggedOnce
<1>1. Init => Inductive
  BY NobodyTyped DEF Init, Inductive, FileIsSaved, Typed, FlaggedIsAbsorbed,
     LastingRateFlaggedOnce
<1>2. Inductive /\ [Next]_vars => Inductive'
  BY NextInductive
<1>3. Inductive => LastingRateFlaggedOnce
  BY DEF Inductive
<1> QED
  BY <1>1, <1>2, <1>3, PTL DEF Spec
=============================================================================
