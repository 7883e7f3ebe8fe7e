----------------------------- MODULE SessionGate -----------------------------
(***************************************************************************)
(* What ConnectionManager promises to the room callbacks that call         *)
(* waitForOperations(): a gate that is closed (no session), pending (a     *)
(* join or an SDK reconnect is under way) or open (operations enabled),    *)
(* and callers that block while it is pending.  A caller leaves admitted   *)
(* only through an open gate, dropped only through a closed one, and is    *)
(* not left behind by a gate that stays open or stays closed.              *)
(* ConnectionManager implements this module (ImplementsGate there).        *)
(***************************************************************************)
CONSTANT Callers

VARIABLES gate,     \* "closed", "pending" or "open"
          caller    \* what each caller is doing

vars == <<gate, caller>>

Init == /\ gate = "closed"
        /\ caller = [c \in Callers |-> "away"]

(* The owner moves the gate as the room session comes and goes. *)
MoveGate == /\ gate' \in {"closed", "pending", "open"}
            /\ UNCHANGED caller

Call(c) == /\ caller[c] = "away"
           /\ caller' = [caller EXCEPT ![c] = "blocked"]
           /\ UNCHANGED gate

Return(c) == /\ caller[c] = "blocked"
             /\ \/ gate = "open"   /\ caller' = [caller EXCEPT ![c] = "admitted"]
                \/ gate = "closed" /\ caller' = [caller EXCEPT ![c] = "dropped"]
             /\ UNCHANGED gate

Leave(c) == /\ caller[c] \in {"admitted", "dropped"}
            /\ caller' = [caller EXCEPT ![c] = "away"]
            /\ UNCHANGED gate

Next == MoveGate \/ \E c \in Callers : Call(c) \/ Return(c) \/ Leave(c)

(* What callers may see, and that one who finds the gate settled is not    *)
(* left behind.                                                            *)
SafeSpec == Init /\ [][Next]_vars
Spec == SafeSpec /\ \A c \in Callers : WF_vars(Return(c))
==============================================================================
