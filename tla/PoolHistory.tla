---------------------------- MODULE PoolHistory ----------------------------
(***************************************************************************)
(* The pool, with a count the code does not keep: how many times the       *)
(* current generation of each lane has been handed out.  The manager only  *)
(* learns of it through the Assign commands, which arrive later, and some  *)
(* of them when the generation they speak of is gone.  Nothing is counted   *)
(* of a lane that does not work: its next generation starts from 0.        *)
(***************************************************************************)
EXTENDS TorPool

VARIABLE handed

\* The clients that return a proxy of the current generation of l in this step.
Returning(l) ==
  {c \in Clients : /\ pc[c] = "send" /\ op[c] \in {"next", "key"} /\ pc'[c] = "idle"
                   /\ Alive /\ lanes[l].endpoint \in snap[c]}

HInit == Init /\ handed = [l \in Lanes |-> 0]

HNext ==
  /\ Next
  /\ handed' = [l \in Lanes |-> IF lanes'[l].epoch # lanes[l].epoch \/ lanes'[l].state # "Ready"
                                THEN 0
                                ELSE handed[l] + Cardinality(Returning(l))]

HSpec == HInit /\ [][HNext]_<<vars, handed>>

QueuedAssigns(l) ==
  Cardinality({i \in 1 .. Len(queue) :
                 /\ queue[i].type = "Assign" /\ queue[i].lane = l
                 /\ queue[i].epoch = lanes[l].epoch})

\* after_assignments counts proxies returned: while a lane works, every proxy of
\* its generation has been counted or is still to be, none twice and none of an
\* earlier generation, whatever rotated the lane in between.  And no generation is
\* past its limit but for what is still queued: the assignment that reaches the
\* limit rotates the lane in the step that counts it.
AssignmentsCounted ==
  AssignmentLimit # 0 /\ Alive =>
    \A l \in ReadyIds : /\ handed[l] = lanes[l].assignments + QueuedAssigns(l)
                        /\ lanes[l].assignments < AssignmentLimit
=============================================================================
