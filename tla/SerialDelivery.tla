---------------------------- MODULE SerialDelivery ----------------------------
(***************************************************************************)
(* What result-delivery.ts promises, with nothing of how it does it:       *)
(* accepted results are handed over in the order they were accepted, one   *)
(* turn at a time, each at most once; a new session starts from nothing.   *)
(***************************************************************************)
EXTENDS Naturals, Sequences

CONSTANTS Ids, NoTurn

VARIABLES
    waiting,    \* accepted results, oldest first
    turn,       \* the result whose turn is open, or NoTurn
    delivered   \* the results handed over, in order

abstract == <<waiting, turn, delivered>>

SInit == waiting = <<>> /\ turn = NoTurn /\ delivered = <<>>

Accept(id) ==
    /\ id \notin {waiting[i] : i \in DOMAIN waiting}
    /\ waiting' = Append(waiting, id)
    /\ UNCHANGED <<turn, delivered>>

(* Hand over the oldest result that can be sent, when no turn is open: a   *)
(* result whose send throws is given up, not retried and not in the way.   *)
HandOver(n) ==
    /\ turn = NoTurn
    /\ n \in 1..Len(waiting)
    /\ waiting' = SubSeq(waiting, n + 1, Len(waiting))
    /\ turn' = waiting[n]
    /\ delivered' = Append(delivered, waiting[n])

(* Every waiting result fails to send.                                     *)
GiveUpAll ==
    /\ turn = NoTurn
    /\ waiting' = <<>>
    /\ UNCHANGED <<turn, delivered>>

CloseTurn ==
    /\ turn # NoTurn
    /\ turn' = NoTurn
    /\ UNCHANGED <<waiting, delivered>>

NewSession ==
    /\ waiting' = <<>>
    /\ turn' = NoTurn
    /\ UNCHANGED delivered

(* One event of the coordinator: an arrival or the end of a turn, each of  *)
(* which may at once hand over the next result.                            *)
AcceptAndHandOver(id) ==
    /\ id \notin {waiting[i] : i \in DOMAIN waiting}
    /\ turn = NoTurn
    /\ LET all == Append(waiting, id) IN
       \/ \E n \in 1..Len(all) :
             /\ waiting' = SubSeq(all, n + 1, Len(all))
             /\ turn' = all[n]
             /\ delivered' = Append(delivered, all[n])
       \/ waiting' = <<>> /\ UNCHANGED <<turn, delivered>>

CloseAndHandOver ==
    /\ turn # NoTurn
    /\ \/ \E n \in 1..Len(waiting) :
             /\ waiting' = SubSeq(waiting, n + 1, Len(waiting))
             /\ turn' = waiting[n]
             /\ delivered' = Append(delivered, waiting[n])
       \/ waiting' = <<>> /\ turn' = NoTurn /\ UNCHANGED delivered

SNext ==
    \/ \E id \in Ids : Accept(id) \/ AcceptAndHandOver(id)
    \/ \E n \in 1..Len(waiting) : HandOver(n)
    \/ GiveUpAll \/ CloseTurn \/ CloseAndHandOver \/ NewSession

SSpec == SInit /\ [][SNext]_abstract
=============================================================================
