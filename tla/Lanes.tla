------------------------------- MODULE Lanes -------------------------------
(***************************************************************************)
(* One lane of the pool and the generation it hands out: pool/lane.rs.     *)
(*                                                                         *)
(* The credentials of a generation are drawn from the system's random      *)
(* number generator for one (lane, epoch) and are never drawn twice for    *)
(* it, so the pair stands for them.  A SOCKS address and the identifier of *)
(* the Tor instance behind it are the number of the run of Tor that opened *)
(* them: run 1 is the one the pool was built on.                           *)
(***************************************************************************)
EXTENDS Naturals

CONSTANTS NumLanes,       \* PoolConfig::lanes
          MaxEpoch,       \* stands for u64::MAX, the last epoch of a lane
          RngMayFail      \* whether the system's generator may fail

ASSUME NumLanesAssumption == NumLanes \in Nat \ {0}
ASSUME MaxEpochAssumption == MaxEpoch \in Nat \ {0}
ASSUME RngAssumption      == RngMayFail \in BOOLEAN

Lanes  == 0 .. (NumLanes - 1)
Epochs == 1 .. MaxEpoch

LaneEndpoint == [lane : Lanes, epoch : Epochs, run : Nat]

LaneState == {"Ready", "Retiring", "Failed"}

Lane == [epoch : Epochs, endpoint : LaneEndpoint,
         assignments : Nat, state : LaneState]

Endpoint(id, epoch, run) == [lane |-> id, epoch |-> epoch, run |-> run]

NewLane(id, run) ==
  [epoch |-> 1, endpoint |-> Endpoint(id, 1, run),
   assignments |-> 0, state |-> "Ready"]

\* Faulty: wrapping addition in place of checked_add.
RotateMayEndWrapping(lane, ok) == ok \/ RngMayFail

\* A rotation fails at the last epoch (checked_add) or for want of randomness,
\* and then leaves the lane Retiring with its old generation.
RotateMayEnd(lane, ok) ==
  IF ok THEN lane.epoch < MaxEpoch ELSE lane.epoch = MaxEpoch \/ RngMayFail

\* Faulty: new credentials under the old epoch.
RotateLaneSameEpoch(lane, id, run, ok) ==
  [lane EXCEPT !.endpoint = Endpoint(id, lane.epoch, run),
               !.assignments = 0, !.state = IF ok THEN "Ready" ELSE "Retiring"]

RotateLane(lane, id, run, ok) ==
  IF ok
  THEN [epoch |-> lane.epoch + 1, endpoint |-> Endpoint(id, lane.epoch + 1, run),
        assignments |-> 0, state |-> "Ready"]
  ELSE [lane EXCEPT !.state = "Retiring"]

\* What every caller in the manager makes of it: an error fails the lane.
Regenerate(lane, id, run, ok) ==
  IF ok THEN RotateLane(lane, id, run, ok)
        ELSE [RotateLane(lane, id, run, ok) EXCEPT !.state = "Failed"]
=============================================================================
