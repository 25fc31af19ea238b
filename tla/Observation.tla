---------------------------- MODULE Observation ----------------------------
(***************************************************************************)
(* One observation of DNS Guard's metrics in VictoriaMetrics, as the local *)
(* agent's laboratory assesses it: four metrics, a value and the time of   *)
(* its sample each, against the clock the queries were made for            *)
(* (local_ai_agent_v021c63_8_1, assess).  Constants only: LiveReads and    *)
(* Incident read the values, each in its own way.                          *)
(***************************************************************************)
EXTENDS Integers

CONSTANTS
  TTL_COLLECTION, \* how old a collection may be
  TTL_RAW,        \* how old its sample
  MAX_SPREAD,     \* between the samples of one observation
  FUTURE_SECONDS  \* how far the router's clock may be ahead

ASSUME ObservationAssumption ==
  /\ TTL_COLLECTION \in Nat /\ TTL_RAW \in Nat
  /\ MAX_SPREAD \in Nat /\ FUTURE_SECONDS \in Nat

METRICS == {"collection", "valid", "local", "bootstrap"}
Missing == -1

\* Mutant: the sample may be of another time than the collection it carries.
Fresh_Misaligned(values, times, now) ==
  /\ \A k \in METRICS :
       /\ values[k] # Missing /\ times[k] # Missing
       /\ now - times[k] \in -FUTURE_SECONDS..TTL_RAW
  /\ values["collection"] # 0
  /\ now - values["collection"] \in -FUTURE_SECONDS..TTL_COLLECTION
  /\ \A j, k \in METRICS : times[j] - times[k] <= MAX_SPREAD

\* Every metric is there, with samples of one collection that is not too old.
Fresh(values, times, now) ==
  /\ \A k \in METRICS :
       /\ values[k] # Missing /\ times[k] # Missing
       /\ now - times[k] \in -FUTURE_SECONDS..TTL_RAW
  /\ values["collection"] # 0
  /\ now - values["collection"] \in -FUTURE_SECONDS..TTL_COLLECTION
  /\ values["collection"] - times["collection"] \in -TTL_COLLECTION..TTL_COLLECTION
  /\ \A j, k \in METRICS : times[j] - times[k] <= MAX_SPREAD

\* Two modes at once, or none; looked at only when there is no other gap.
Contradictory(values) == values["valid"] = 1 /\ values["local"] + values["bootstrap"] # 1

QUALIFIED == "DNS_GUARD_MODE_SAMPLED_ONLY"
INSUFFICIENT == "INSUFFICIENT_EVIDENCE"
INVALID_STATE == "INVALID_DNS_GUARD_STATE_SAMPLED"

assess(values, times, now) ==
  LET class == IF ~Fresh(values, times, now) \/ Contradictory(values) THEN INSUFFICIENT
               ELSE IF values["valid"] # 1 THEN INVALID_STATE ELSE QUALIFIED IN
  [at |-> now, times |-> times, classification |-> class,
   mode |-> IF class # QUALIFIED THEN "UNVERIFIED"
            ELSE IF values["local"] = 1 THEN "LOCAL" ELSE "BOOTSTRAP"]

=============================================================================
