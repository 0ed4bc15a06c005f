----------------------------- MODULE PoolClaims -----------------------------
(***************************************************************************)
(* What the README and the comments of the code say of the pool, where the *)
(* program does otherwise: TLC finds a counterexample to each of these.    *)
(***************************************************************************)
EXTENDS TorPool

\* README.MD:201-202, of a rotation: `their old credentials are no longer
\* returned by subsequent pool selections'.  Here, when the rotation of a lane is
\* over (the manager is idle and none of that lane is outstanding), only its last
\* generation is published.  The snapshot that another lane's queue_rotation took
\* before brings the old one back.
OldCredentialsGone ==
  mpc = "idle" =>
    \A e \in ready : ~InFlight(e.lane) => e = lanes[e.lane].endpoint

\* pool/lane.rs:73, of LaneState::Failed: `The lane failed to rotate and will not
\* become ready again'.  A Rotate queued before the failure revives it.
FailedIsFinal ==
  [][\A l \in Lanes : lanes[l].state = "Failed" => lanes'[l].state # "Ready"]_vars

\* pool/manager.rs:175, of shutdown: `Shuts down the managed Tor process and
\* background manager task'.  The first caller waits for the answer and the second
\* for the task; the third finds the handle taken and returns at once.
ShutdownStopsAll ==
  \A c \in Clients : pc[c] = "returned" => tor = 0 /\ mpc = "done"
=============================================================================
