----------------------------- MODULE RoomPromise -----------------------------
(***************************************************************************)
(* What a room promises its correspondents, whatever jobs, turns, leases   *)
(* and retries it takes: it replies once for each time that somebody asked *)
(* for it, and before a newer message has come.  Only a message or the     *)
(* operator's release makes a reply due, what is due may lapse, and        *)
(* nothing is said while the operator holds the room.                      *)
(***************************************************************************)
EXTENDS Naturals

CONSTANTS Rooms

VARIABLES
  arrived,   \* messages of a room
  due,       \* replies that may be given since its newest message
  replies,   \* replies given
  held       \* the operator has taken the room over

vars == <<arrived, due, replies, held>>

Init ==
  /\ arrived = [r \in Rooms |-> 0]
  /\ due = [r \in Rooms |-> 0]
  /\ replies = [r \in Rooms |-> 0]
  /\ held = [r \in Rooms |-> FALSE]

\* What was due is no more; the message may make a reply due, or none.
Arrive(r) ==
  /\ arrived' = [arrived EXCEPT ![r] = @ + 1]
  /\ due' \in {[due EXCEPT ![r] = n] : n \in {0, 1}}
  /\ UNCHANGED <<replies, held>>

Answer(r) ==
  /\ due[r] > 0 /\ ~ held[r]
  /\ due' = [due EXCEPT ![r] = @ - 1]
  /\ replies' = [replies EXCEPT ![r] = @ + 1]
  /\ UNCHANGED <<arrived, held>>

Lapse(r) ==
  /\ due' \in {[due EXCEPT ![r] = n] : n \in 0 .. due[r]}
  /\ UNCHANGED <<arrived, replies, held>>

Hold(r) ==
  /\ held' = [held EXCEPT ![r] = TRUE]
  /\ due' \in {[due EXCEPT ![r] = n] : n \in 0 .. due[r]}
  /\ UNCHANGED <<arrived, replies>>

Release(r) ==
  /\ held' = [held EXCEPT ![r] = FALSE]
  /\ due' \in {due, [due EXCEPT ![r] = @ + 1]}
  /\ UNCHANGED <<arrived, replies>>

Next ==
  \E r \in Rooms : Arrive(r) \/ Answer(r) \/ Lapse(r) \/ Hold(r) \/ Release(r)

Spec == Init /\ [][Next]_vars
=============================================================================
