---------------------------- MODULE BlockDownload ----------------------------
(***************************************************************************)
(* Fetching blocks from peers: the per-peer queues of CNodeState and the   *)
(* maps mapBlocksToDownload and mapBlocksInFlight of main.cpp, driven by   *)
(* the "inv" and "block" messages, SendMessages, and the socket thread     *)
(* that closes and deletes connections.                                    *)
(*                                                                         *)
(* Message and socket threads interleave; each handler below runs under    *)
(* cs_main and is one action.  Node ids are not reused, so a Peer is one   *)
(* connection; none is local, so a ban always disconnects.  Times are kept *)
(* as ages in units of a minute, up to MaxAge.                             *)
(***************************************************************************)
EXTENDS Integers, Sequences, FiniteSets, SequencesExt

CONSTANTS
  Peer,
  Block,                           \* block hashes
  NoPeer,
  MAX_BLOCKS_IN_TRANSIT_PER_PEER,
  BLOCK_DOWNLOAD_TIMEOUT,
  InactivityTimeout,               \* 90 minutes in ThreadSocketHandler
  MaxToDownload,                   \* 5000 in AddBlockToQueue
  BanScore,                        \* -banscore
  MaxAge,                          \* bound: ages beyond this are not told apart
  Outcomes                         \* what ProcessBlock makes of a block

ASSUME BlockDownloadAssumption ==
  /\ NoPeer \notin Peer
  /\ MAX_BLOCKS_IN_TRANSIT_PER_PEER \in Nat \ {0}
  /\ BLOCK_DOWNLOAD_TIMEOUT \in Nat \ {0} /\ InactivityTimeout \in Nat
  /\ MaxToDownload \in Nat /\ BanScore \in Nat
  /\ MaxAge \in Nat /\ MaxAge > InactivityTimeout + 1 + 2 * BLOCK_DOWNLOAD_TIMEOUT
  /\ Outcomes \subseteq {"stored", "rejected"}

VARIABLES
  conn,     \* conn[p]: "new", "up", then why fDisconnect was set, then "gone"
  state,    \* state[p]: CNodeState
  mapBlocksToDownload,   \* the peer in whose queue a block is, or NoPeer
  mapBlocksInFlight,     \* the peer a block has been requested from, or NoPeer
  have,     \* AlreadyHave: blocks in mapBlockIndex or mapOrphanBlocks
  waiting   \* history: for how long p has had requested blocks outstanding
            \* without delivering one; 0 if it has none

vars == <<conn, state, mapBlocksToDownload, mapBlocksInFlight, have, waiting>>

CNodeState ==
  [vBlocksInFlight |-> <<>>, nBlocksInFlight |-> 0,
   vBlocksToDownload |-> <<>>, nBlocksToDownload |-> 0,
   nLastBlockReceive |-> MaxAge, nLastBlockProcess |-> MaxAge,
   nMisbehavior |-> 0, fShouldBan |-> FALSE]

fDisconnect(p) == conn[p] \in {"banned", "stalled", "closed"}

Init ==
  /\ conn = [p \in Peer |-> "new"]
  /\ state = [p \in Peer |-> CNodeState]
  /\ mapBlocksToDownload = [h \in Block |-> NoPeer]
  /\ mapBlocksInFlight = [h \in Block |-> NoPeer]
  /\ have = {}
  /\ waiting = [p \in Peer |-> 0]

-----------------------------------------------------------------------------
(* The functions at the top of main.cpp, on the queues                     *)
(* q = [state, toDownload, inFlight].                                      *)

Queues == [state |-> state, toDownload |-> mapBlocksToDownload,
           inFlight |-> mapBlocksInFlight]

SetQueues(q) ==
  /\ state' = q.state
  /\ mapBlocksToDownload' = q.toDownload
  /\ mapBlocksInFlight' = q.inFlight

\* Scores above BanScore are not told apart.
Misbehaving(s, howmuch) ==
  [s EXCEPT !.nMisbehavior = Min({@ + howmuch, BanScore}),
            !.fShouldBan = @ \/ s.nMisbehavior + howmuch >= BanScore]

\* The block leaves the list it is queued in: the map keeps an iterator to it.
Dequeued(q, h) ==
  LET p == q.toDownload[h]
      s == q.state[p]
      it == CHOOSE i \in DOMAIN s.vBlocksToDownload : s.vBlocksToDownload[i] = h
  IN IF p = NoPeer THEN q
     ELSE [q EXCEPT !.state[p] = [s EXCEPT !.vBlocksToDownload = RemoveAt(@, it),
                                           !.nBlocksToDownload = @ - 1],
                    !.toDownload[h] = NoPeer]

\* Mutant: the timer is not reset by a delivery.
Arrived_NoReset(q, h, from) ==
  LET p == q.inFlight[h]
      s == q.state[p]
      it == CHOOSE i \in DOMAIN s.vBlocksInFlight : s.vBlocksInFlight[i].hash = h
  IN IF p = NoPeer THEN q
     ELSE [q EXCEPT !.state[p] = [s EXCEPT !.vBlocksInFlight = RemoveAt(@, it),
                                           !.nBlocksInFlight = @ - 1],
                    !.inFlight[h] = NoPeer]

\* The same for the list of those requested; the timer is reset only if the block
\* comes from the peer it was requested from.
Arrived(q, h, from) ==
  LET p == q.inFlight[h]
      s == q.state[p]
      it == CHOOSE i \in DOMAIN s.vBlocksInFlight : s.vBlocksInFlight[i].hash = h
  IN IF p = NoPeer THEN q
     ELSE [q EXCEPT !.state[p] = [s EXCEPT
                      !.vBlocksInFlight = RemoveAt(@, it),
                      !.nBlocksInFlight = @ - 1,
                      !.nLastBlockReceive = IF p = from THEN 0 ELSE @],
                    !.inFlight[h] = NoPeer]

MarkBlockAsReceived(q, h, from) == Arrived(Dequeued(q, h), h, from)

\* Mutant: blocks in flight from another peer are queued again.
AddBlockToQueue_QueuedOnly(q, p, h) ==
  IF q.toDownload[h] # NoPeer THEN q
  ELSE [q EXCEPT
         !.state[p].vBlocksToDownload = Append(@, h),
         !.state[p].nBlocksToDownload = @ + 1,
         !.toDownload[h] = p]

\* Mutant: a full queue drops its oldest block.
AddBlockToQueue_DropOldest(q, p, h) ==
  IF q.toDownload[h] # NoPeer \/ q.inFlight[h] # NoPeer THEN q
  ELSE LET full == q.state[p].nBlocksToDownload >= MaxToDownload
           r == IF full /\ q.state[p].vBlocksToDownload # <<>>
                  THEN MarkBlockAsReceived(q, Head(q.state[p].vBlocksToDownload), NoPeer)
                  ELSE q
       IN [r EXCEPT !.state[p].vBlocksToDownload = Append(@, h),
                    !.state[p].nBlocksToDownload = @ + 1,
                    !.toDownload[h] = p]

\* A block somebody is already asked for is not queued twice; a long queue
\* counts as misbehaviour.
AddBlockToQueue(q, p, h) ==
  IF q.toDownload[h] # NoPeer \/ q.inFlight[h] # NoPeer THEN q
  ELSE LET s == [q.state[p] EXCEPT !.vBlocksToDownload = Append(@, h),
                                   !.nBlocksToDownload = @ + 1]
       IN [q EXCEPT !.state[p] = IF s.nBlocksToDownload > MaxToDownload
                                   THEN Misbehaving(s, 10) ELSE s,
                    !.toDownload[h] = p]

MarkBlockAsInFlight(q, p, h) ==
  LET q1 == MarkBlockAsReceived(q, h, NoPeer)
      s == q1.state[p]
  IN [q1 EXCEPT !.state[p] = [s EXCEPT
                  !.vBlocksInFlight = Append(@, [hash |-> h, nTime |-> 0]),
                  !.nBlocksInFlight = @ + 1,
                  !.nLastBlockReceive = IF s.nBlocksInFlight = 0 THEN 0 ELSE @],
                !.inFlight[h] = p]

\* ProcessMessage notes the time before it looks at the command.
Processed(q, p) == [q EXCEPT !.state[p] = [q.state[p] EXCEPT !.nLastBlockProcess = 0]]

-----------------------------------------------------------------------------
InitializeNode(p) ==
  /\ conn[p] = "new"
  /\ conn' = [conn EXCEPT ![p] = "up"]
  /\ UNCHANGED <<state, mapBlocksToDownload, mapBlocksInFlight, have, waiting>>

\* "inv": p announces block h.
Inv(p, h) ==
  /\ conn[p] = "up"
  /\ SetQueues(LET q == Processed(Queues, p)
               IN IF h \in have THEN q ELSE AddBlockToQueue(q, p, h))
  /\ UNCHANGED <<conn, have, waiting>>

\* The age of waiting starts anew when the queue in flight is empty.
Waited(q, w) == [p \in Peer |-> IF q.state[p].vBlocksInFlight = <<>> THEN 0 ELSE w[p]]

\* "block": requested or not, from the peer it was requested from or not.
BlockMessage(p, h, outcome) ==
  /\ conn[p] = "up"
  /\ LET q == MarkBlockAsReceived(Processed(Queues, p), h, p)
     IN /\ SetQueues(q)
        /\ waiting' = Waited(q, IF mapBlocksInFlight[h] = p
                                  THEN [waiting EXCEPT ![p] = 0] ELSE waiting)
  /\ have' = IF outcome = "stored" THEN have \cup {h} ELSE have
  /\ UNCHANGED conn

\* Any other message.
OtherMessage(p) ==
  /\ conn[p] = "up"
  /\ SetQueues(Processed(Queues, p))
  /\ UNCHANGED <<conn, have, waiting>>

\* ProcessBlock for a block of this node's miner, of submitblock or of an
\* import: the queues are not told.
LocalBlock(h) ==
  /\ have' = have \cup {h}
  /\ UNCHANGED <<conn, state, mapBlocksToDownload, mapBlocksInFlight, waiting>>

\* The peer is stalling the download.
Stalling(s) ==
  /\ s.nBlocksInFlight # 0
  /\ s.nLastBlockReceive > s.nLastBlockProcess + BLOCK_DOWNLOAD_TIMEOUT
  /\ Head(s.vBlocksInFlight).nTime > s.nLastBlockProcess + 2 * BLOCK_DOWNLOAD_TIMEOUT

\* Mutant: the loop stops one block early.
GetData_KeepsLast(q, p) ==
  LET s == q.state[p]
      n == Min({s.nBlocksToDownload - 1,
                Max({0, MAX_BLOCKS_IN_TRANSIT_PER_PEER - s.nBlocksInFlight})})
      moved[k \in 0..n] ==
        IF k = 0 THEN q
        ELSE MarkBlockAsInFlight(moved[k - 1], p, s.vBlocksToDownload[k])
  IN IF n < 0 THEN q ELSE moved[n]

\* The "getdata (blocks)" loop: each round moves the front of the queue.
GetData(q, p) ==
  LET s == q.state[p]
      n == Min({s.nBlocksToDownload,
                Max({0, MAX_BLOCKS_IN_TRANSIT_PER_PEER - s.nBlocksInFlight})})
      moved[k \in 0..n] ==
        IF k = 0 THEN q
        ELSE MarkBlockAsInFlight(moved[k - 1], p, s.vBlocksToDownload[k])
  IN moved[n]

\* SendMessages: ban, else detect a stalled peer, else request blocks.
SendMessages(p) ==
  /\ conn[p] = "up"
  /\ LET s == state[p] IN
     \/ /\ s.fShouldBan
        /\ conn' = [conn EXCEPT ![p] = "banned"]
        /\ state' = [state EXCEPT ![p].fShouldBan = FALSE]
        /\ UNCHANGED <<mapBlocksToDownload, mapBlocksInFlight>>
     \/ /\ ~s.fShouldBan /\ Stalling(s)
        /\ conn' = [conn EXCEPT ![p] = "stalled"]
        /\ UNCHANGED <<state, mapBlocksToDownload, mapBlocksInFlight>>
     \/ /\ ~s.fShouldBan /\ ~Stalling(s)
        /\ SetQueues(GetData(Queues, p))
        /\ UNCHANGED conn
  /\ UNCHANGED <<have, waiting>>

\* The peer closes the connection, or an error does.
SocketClosed(p) ==
  /\ conn[p] = "up"
  /\ conn' = [conn EXCEPT ![p] = "closed"]
  /\ UNCHANGED <<state, mapBlocksToDownload, mapBlocksInFlight, have, waiting>>

\* ThreadSocketHandler, "socket inactivity timeout".
Inactive(p) ==
  /\ conn[p] = "up" /\ state[p].nLastBlockProcess > InactivityTimeout
  /\ conn' = [conn EXCEPT ![p] = "closed"]
  /\ UNCHANGED <<state, mapBlocksToDownload, mapBlocksInFlight, have, waiting>>

\* The node is deleted once no thread uses it; its entries leave the maps.
FinalizeNode(p) ==
  /\ fDisconnect(p)
  /\ conn' = [conn EXCEPT ![p] = "gone"]
  /\ state' = [state EXCEPT ![p] = CNodeState]
  /\ mapBlocksInFlight' =
       [h \in Block |-> IF h \in {e.hash : e \in ToSet(state[p].vBlocksInFlight)}
                          THEN NoPeer ELSE mapBlocksInFlight[h]]
  /\ mapBlocksToDownload' =
       [h \in Block |-> IF h \in ToSet(state[p].vBlocksToDownload)
                          THEN NoPeer ELSE mapBlocksToDownload[h]]
  /\ UNCHANGED <<have, waiting>>

Older(n) == Min({n + 1, MaxAge})
OlderEntries(v) == [i \in DOMAIN v |-> [v[i] EXCEPT !.nTime = Older(@)]]
Aged(s) == [s EXCEPT !.nLastBlockReceive = Older(@), !.nLastBlockProcess = Older(@),
                     !.vBlocksInFlight = OlderEntries(@)]

\* A minute passes; the socket thread notices inactivity within that time.
Tick ==
  /\ \A p \in Peer : conn[p] = "up" /\ state[p].nBlocksInFlight # 0 =>
                       state[p].nLastBlockProcess <= InactivityTimeout
  /\ state' = [p \in Peer |-> IF conn[p] = "up" THEN Aged(state[p]) ELSE state[p]]
  /\ waiting' = [p \in Peer |-> IF state[p].vBlocksInFlight = <<>> THEN waiting[p]
                                ELSE Older(waiting[p])]
  /\ UNCHANGED <<conn, mapBlocksToDownload, mapBlocksInFlight, have>>

Next ==
  \/ \E p \in Peer : InitializeNode(p)
  \/ \E p \in Peer, h \in Block : Inv(p, h)
  \/ \E p \in Peer, h \in Block, o \in Outcomes : BlockMessage(p, h, o)
  \/ \E p \in Peer : OtherMessage(p)
  \/ \E h \in Block : LocalBlock(h)
  \/ \E p \in Peer : SendMessages(p)
  \/ \E p \in Peer : SocketClosed(p)
  \/ \E p \in Peer : Inactive(p)
  \/ \E p \in Peer : FinalizeNode(p)
  \/ Tick

Spec == Init /\ [][Next]_vars

\* The message thread visits every peer again and again, the socket thread
\* closes and deletes, and time passes.  Peers need not send anything.
Fairness ==
  /\ \A p \in Peer : WF_vars(SendMessages(p)) /\ WF_vars(Inactive(p))
                     /\ WF_vars(FinalizeNode(p))
  /\ WF_vars(Tick)

FairSpec == Spec /\ Fairness
-----------------------------------------------------------------------------
(* Properties *)

HashesInFlight(p) == [i \in DOMAIN state[p].vBlocksInFlight |->
                        state[p].vBlocksInFlight[i].hash]

\* The maps and the peers' lists tell the same story: a block is in at most one
\* list of one peer, the map names that peer, the counters are the lengths, no
\* peer is asked for more than its share at a time, and the maps name no peer
\* that is gone: MarkBlockAsReceived dereferences State(peer) without a check.
\* The iterators kept in the maps rely on it, and so does the request loop,
\* which ends because each round shortens the list it takes the front of.
QueuesMatchMaps ==
  /\ \A p \in Peer :
       /\ state[p].nBlocksToDownload = Len(state[p].vBlocksToDownload)
       /\ state[p].nBlocksInFlight = Len(state[p].vBlocksInFlight)
       /\ Len(state[p].vBlocksInFlight) <= MAX_BLOCKS_IN_TRANSIT_PER_PEER
       /\ IsInjective(state[p].vBlocksToDownload) /\ IsInjective(HashesInFlight(p))
       /\ \A h \in Block :
            /\ h \in ToSet(state[p].vBlocksToDownload) <=> mapBlocksToDownload[h] = p
            /\ h \in ToSet(HashesInFlight(p)) <=> mapBlocksInFlight[h] = p
  /\ \A h \in Block : NoPeer \in {mapBlocksToDownload[h], mapBlocksInFlight[h]}
  /\ \A h \in Block, p \in Peer :
       p \in {mapBlocksToDownload[h], mapBlocksInFlight[h]} => conn[p] = "up" \/ fDisconnect(p)

\* A peer is dropped as stalling only after it left requests unanswered for more
\* than a minute without a break: "we haven't received a (requested) block in
\* one minute".
StallJustified ==
  [][\A p \in Peer : conn[p] = "up" /\ conn'[p] = "stalled" =>
       waiting[p] > BLOCK_DOWNLOAD_TIMEOUT]_vars

Wanted(h) == mapBlocksToDownload[h] # NoPeer \/ mapBlocksInFlight[h] # NoPeer

\* A block the node wants stays wanted until somebody sends it or the peer that
\* was to deliver it is gone.
WantedUntilSent ==
  [][\A h \in Block : Wanted(h) /\ ~Wanted(h)' =>
       \/ \E p \in Peer, o \in Outcomes : BlockMessage(p, h, o)
       \/ \E p \in Peer : /\ p \in {mapBlocksToDownload[h], mapBlocksInFlight[h]}
                          /\ conn'[p] = "gone"]_vars

\* No block is waited for for ever: a peer that neither delivers nor hangs up is
\* found by stall detection or by the inactivity timeout, even if it keeps
\* sending other messages.  (A peer that delivers other blocks resets its timer
\* each time; it cannot do so for ever here, because Block is finite and what has
\* been stored is not asked for again.)
WantedIsSettled == \A h \in Block : Wanted(h) ~> ~Wanted(h)
=============================================================================
