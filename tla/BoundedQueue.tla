---------------------------- MODULE BoundedQueue ----------------------------
(***************************************************************************)
(* What the delta ring promises its users: a bounded, multi-producer,      *)
(* multi-consumer FIFO log of positions.                                   *)
(*                                                                         *)
(* Position p of the queue is given to exactly one push and, later, to     *)
(* exactly one pop, and that pop returns exactly the message the push was  *)
(* called with.  At most Capacity positions are outstanding.  A push       *)
(* reserves its position (Reserve) before the message can be taken, and a  *)
(* pop takes its position (Take) before it returns the message (Return):   *)
(* these are the two linearization points of the real code, its            *)
(* compare-and-swaps on `tail` and `head`.                                 *)
(***************************************************************************)
EXTENDS Naturals

CONSTANTS
    Msg,        \* the messages
    Capacity,   \* how many positions may be outstanding
    MaxPos,     \* bound on the number of pushes of a behaviour
    None        \* "no message here"

VARIABLES
    reserved,   \* positions 0 .. reserved-1 were handed to pushes
    taken,      \* positions 0 .. taken-1 were handed to pops
    sent,       \* position -> the message its push carried
    returned    \* position -> the message its pop returned, or None

queueVars == <<reserved, taken, sent, returned>>

Positions == 0 .. MaxPos - 1

Init ==
    /\ reserved = 0
    /\ taken = 0
    /\ sent = [p \in Positions |-> None]
    /\ returned = [p \in Positions |-> None]

Reserve(m) ==
    /\ reserved \in Positions
    /\ reserved - taken < Capacity
    /\ reserved' = reserved + 1
    /\ sent' = [sent EXCEPT ![reserved] = m]
    /\ UNCHANGED <<taken, returned>>

Take ==
    /\ taken < reserved
    /\ taken' = taken + 1
    /\ UNCHANGED <<reserved, sent, returned>>

Return(p) ==
    /\ p < taken
    /\ returned[p] = None
    /\ returned' = [returned EXCEPT ![p] = sent[p]]
    /\ UNCHANGED <<reserved, taken, sent>>

Next ==
    \/ \E m \in Msg : Reserve(m)
    \/ Take
    \/ \E p \in Positions : Return(p)

Spec == Init /\ [][Next]_queueVars

=============================================================================
