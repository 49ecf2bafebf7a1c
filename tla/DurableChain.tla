---------------------------- MODULE DurableChain ----------------------------
(***************************************************************************)
(* What the block storage promises: the node knows a set of blocks closed  *)
(* under parents and has a best block among them, which moves along the    *)
(* tree one block at a time.  The best block is saved now and then; after  *)
(* a stop, however it came about, the node goes on from a best block that  *)
(* was saved, with its whole chain, or from none.                          *)
(***************************************************************************)
CONSTANTS Block, Parent, NoBlock

VARIABLES
  known,   \* the blocks in the index
  best,    \* the end of the active chain
  saves    \* the best blocks one of which a restart will find

vars == <<known, best, saves>>

Closed(S) == \A b \in S : Parent[b] \in S \cup {NoBlock}

Init == known = {} /\ best = NoBlock /\ saves = {NoBlock}

Learn ==
  /\ \E b \in Block \ known : known' = known \cup {b} /\ Closed(known')
  /\ UNCHANGED <<best, saves>>

Advance ==
  /\ \E b \in known : Parent[b] = best /\ best' = b
  /\ UNCHANGED <<known, saves>>

Retreat ==
  /\ best # NoBlock /\ best' = Parent[best]
  /\ UNCHANGED <<known, saves>>

Save ==
  /\ saves' = saves \cup {best}
  /\ UNCHANGED <<known, best>>

\* A stop may lose what was learnt last and some of the saves, the start of a rebuild
\* all that is known.
Stop ==
  /\ known' \in SUBSET known /\ Closed(known')
  /\ saves' \in SUBSET saves /\ saves' # {}
  /\ best' \in (saves' \cap known') \cup {NoBlock}

\* A rebuild of the databases from the block files starts from nothing: once nothing
\* is known, the saves are given up too.
Rebuild ==
  /\ known = {} /\ best = NoBlock /\ saves' = {NoBlock}
  /\ UNCHANGED <<known, best>>

Next == Learn \/ Advance \/ Retreat \/ Save \/ Stop \/ Rebuild

Spec == Init /\ [][Next]_vars
=============================================================================
