--------------------------- MODULE LaneOwnership ---------------------------
(***************************************************************************)
(* What the queue promises about one execution lane, stated without jobs,  *)
(* leases, clocks or fences: at any moment a lane has at most one holder,  *)
(* identified by its execution token; only the holder of the moment        *)
(* changes business data on behalf of the lane; and whoever takes the lane *)
(* over comes with a token under which nothing was ever written, so the    *)
(* writes of two holders never interleave.                                 *)
(*                                                                         *)
(* JobQueue implements this specification (JobQueue!Lanes).                *)
(***************************************************************************)
CONSTANTS
  Lane,     \* the execution lanes
  Token,    \* execution tokens
  NoToken   \* "nobody", which is not a token

VARIABLES
  holder,   \* holder[l] : the token that owns lane l now
  writer    \* writer[l] : the token of the last committed write in lane l

laneVars == <<holder, writer>>

Vacant == [l \in Lane |-> NoToken]

Init ==
  /\ holder = Vacant
  /\ writer = Vacant

\* A new execution takes the lane, from nobody or from a holder it supersedes.
Acquire(l, t) ==
  /\ \A k \in Lane : t # holder[k] /\ t # writer[k]
  /\ holder' = [holder EXCEPT ![l] = t]
  /\ UNCHANGED writer

\* The lane becomes vacant without a write.
Leave(l) ==
  /\ holder' = [holder EXCEPT ![l] = NoToken]
  /\ UNCHANGED writer

\* The holder changes business data and keeps the lane.
Write(l) ==
  /\ holder[l] # NoToken
  /\ writer' = [writer EXCEPT ![l] = holder[l]]
  /\ UNCHANGED holder

\* The holder's last write commits together with giving the lane up.
WriteAndLeave(l) ==
  /\ holder[l] # NoToken
  /\ writer' = [writer EXCEPT ![l] = holder[l]]
  /\ holder' = [holder EXCEPT ![l] = NoToken]

Next ==
  \E l \in Lane :
    \/ \E t \in Token : Acquire(l, t)
    \/ Leave(l)
    \/ Write(l)
    \/ WriteAndLeave(l)

Spec == Init /\ [][Next]_laneVars
=============================================================================
