---------------------------- MODULE OrderedDelivery ----------------------------
(***************************************************************************)
(* What the batch writer of shared/cache promises to the services that use *)
(* it, with no channel, no goroutine and no batch: the items handed to it  *)
(* form one sequence, every cache is offered that same sequence from its   *)
(* beginning, without a gap, a repetition or an exchange, no cache runs    *)
(* more than Window items ahead of another, and the writer is done only    *)
(* when every cache has been offered everything.                           *)
(***************************************************************************)
EXTENDS Naturals, Sequences

CONSTANTS Items,    \* what can be handed to the writer
          Caches,   \* the cache clients
          Window    \* how far one cache may be ahead of another

VARIABLES phase,     \* "new", then "open", then "done"
          targets,   \* the caches this writer was opened for
          accepted,  \* the items accepted so far
          offered    \* for each cache, the items it was offered so far

vars == <<phase, targets, accepted, offered>>

Init == /\ phase = "new"
        /\ targets = {}
        /\ accepted = <<>>
        /\ offered = [c \in Caches |-> <<>>]

Open(cs) == /\ phase = "new"
            /\ phase' = "open"
            /\ targets' = cs
            /\ UNCHANGED <<accepted, offered>>

Accept(i) == /\ phase = "open"
             /\ accepted' = Append(accepted, i)
             /\ UNCHANGED <<phase, targets, offered>>

Offer(c, n) == /\ phase = "open"
               /\ Len(offered[c]) <= n
               /\ \A d \in targets : n <= Len(offered[d]) + Window
               /\ offered' = [offered EXCEPT ![c] = SubSeq(accepted, 1, n)]
               /\ UNCHANGED <<phase, targets, accepted>>

Finish == /\ phase = "open"
          /\ \A c \in targets : offered[c] = accepted
          /\ phase' = "done"
          /\ UNCHANGED <<targets, accepted, offered>>

Next == \/ \E cs \in SUBSET Caches : Open(cs)
        \/ \E i \in Items : Accept(i)
        \/ \E c \in targets, n \in 0..Len(accepted) : Offer(c, n)
        \/ Finish

Spec == Init /\ [][Next]_vars
================================================================================
