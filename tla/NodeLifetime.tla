---------------------------- MODULE NodeLifetime ----------------------------
(***************************************************************************)
(* The life of a CNode (net.cpp): the threads that open connections, the   *)
(* socket thread that accepts, serves, drops and deletes them, and the     *)
(* message thread.  Threads share vNodes under cs_vNodes, keep references  *)
(* in copies of it, and outbound connections hold a grant of semOutbound.  *)
(*                                                                         *)
(* Only the socket thread holds cs_vNodes over several steps, while it     *)
(* drops nodes.  Flags and grants of a node have no lock: a test or write  *)
(* that another thread may see is a step.  nRefCount changes under         *)
(* cs_vNodes, but for the AddRef of a node that ConnectNode has found:     *)
(* that one is a step as well, and the increment it may undo is left to    *)
(* the exceptions of NodesInUseExist.  What is written to a deleted node   *)
(* is lost.  Messages, bans and time-outs are choices.                     *)
(***************************************************************************)
EXTENDS Integers, FiniteSets, FiniteSetsExt

CONSTANTS
  MaxNodes,                 \* bound: CNode objects ever made
  Addr,                     \* remote addresses
  Opener,                   \* "opencon" and "addcon"
  ByName,                   \* those that go by name: "addcon" with a name proxy
  nMaxOutbound,             \* initial value of semOutbound
  nMaxInbound               \* nMaxConnections - MAX_OUTBOUND_CONNECTIONS

ASSUME NodeLifetimeAssumption ==
  /\ MaxNodes \in Nat /\ nMaxOutbound \in Nat \ {0} /\ nMaxInbound \in Nat
  /\ IsFiniteSet(Opener) /\ ByName \subseteq Opener

VARIABLES
  node,                 \* node[n]: the CNode made n-th
  nLastNodeId,          \* nodes made so far
  vNodes, vNodesDisconnected,
  semOutbound,          \* its value
  sock,                 \* ThreadSocketHandler: pc, vNodesCopy, the rest of a loop
  msg,                  \* ThreadMessageHandler: pc and vNodesCopy
  opener,               \* the threads that open connections
  \* history
  leaked,               \* nodes dropped without releasing their own reference
  found,                \* nodes ConnectNode has found instead of making one
  contended             \* nodes whose grant two threads moved or released at once

history == <<leaked, found, contended>>
vars == <<node, nLastNodeId, vNodes, vNodesDisconnected, semOutbound,
          sock, msg, opener, history>>

Node == 1..MaxNodes
NoNode == 0
NoAddr == "none"

CNode(a, inbound) ==
  [addr |-> a, exists |-> TRUE, fInbound |-> inbound, fNetworkNode |-> FALSE,
   fDisconnect |-> FALSE, nRefCount |-> 1, grantOutbound |-> FALSE]

NoCNode == [CNode(NoAddr, FALSE) EXCEPT !.exists = FALSE, !.nRefCount = 0]
Waiting ==
  [pc |-> "wait", addr |-> NoAddr, pnode |-> NoNode, grant |-> FALSE, made |-> FALSE,
   fOneShot |-> FALSE]

Init ==
  /\ node = [n \in Node |-> NoCNode] /\ nLastNodeId = 0
  /\ vNodes = {} /\ vNodesDisconnected = {}
  /\ semOutbound = nMaxOutbound
  /\ sock = [pc |-> "top", copy |-> {}, rest |-> {}]
  /\ msg = [pc |-> "top", copy |-> {}]
  /\ opener = [o \in Opener |-> Waiting]
  /\ leaked = {} /\ found = {} /\ contended = {}

\* cs_vNodes is held by the socket thread.
Locked == sock.pc \in {"disconnect", "test", "post", "clear", "drop"}

\* AddRef (d = 1) or Release (d = -1) for each node of S.
Ref(S, d) == [n \in Node |-> IF n \in S THEN [node[n] EXCEPT !.nRefCount = @ + d]
                                        ELSE node[n]]

\* The node of vNodes a loop over a copy comes to next: they are in the order
\* in which they were made.
First(S) == Min(S)

\* An address stands for address and port.
FindNode(a) == {n \in vNodes : node[n].addr = a}

\* A thread is between its test of the node's fHaveGrant and its last write to it.
InGrant(n) ==
  \/ sock.pc \in {"post", "clear"} /\ First(sock.rest) = n
  \/ \E o \in Opener : opener[o].pnode = n /\ opener[o].pc \in {"post", "clear", "give"}
Enter(S) == contended' = contended \cup {n \in S : InGrant(n)}
-----------------------------------------------------------------------------
(* ThreadSocketHandler *)

\* The loop over rest goes on, or cs_vNodes is released.
Rest(S) == [sock EXCEPT !.rest = S, !.pc = IF S = {} THEN "delete" ELSE "disconnect"]

\* LOCK(cs_vNodes) and the copy of vNodes for "Disconnect unused nodes".
SockLock ==
  /\ sock.pc = "top"
  /\ sock' = Rest(vNodes)
  /\ UNCHANGED <<node, nLastNodeId, vNodes, vNodesDisconnected,
                 semOutbound, msg, opener, history>>

\* One round of that loop: a node to be disconnected, or without references,
\* leaves vNodes.
SockDisconnect ==
  /\ sock.pc = "disconnect"
  /\ LET n == First(sock.rest) IN
     IF node[n].fDisconnect \/ node[n].nRefCount <= 0
       THEN vNodes' = vNodes \ {n} /\ sock' = [sock EXCEPT !.pc = "test"]
       ELSE sock' = Rest(sock.rest \ {n}) /\ UNCHANGED vNodes
  /\ UNCHANGED <<node, nLastNodeId, vNodesDisconnected, semOutbound, msg, opener, history>>

\* CSemaphoreGrant::Release of the node's grant: if it has one ...
SockTest ==
  /\ sock.pc = "test"
  /\ IF node[First(sock.rest)].grantOutbound
       THEN sock' = [sock EXCEPT !.pc = "post"] /\ Enter({First(sock.rest)})
       ELSE sock' = [sock EXCEPT !.pc = "drop"] /\ UNCHANGED contended
  /\ UNCHANGED <<node, nLastNodeId, vNodes, vNodesDisconnected, semOutbound, msg, opener,
                 leaked, found>>

\* ... it is posted ...
SockPost ==
  /\ sock.pc = "post"
  /\ semOutbound' = semOutbound + 1
  /\ sock' = [sock EXCEPT !.pc = "clear"]
  /\ UNCHANGED <<node, nLastNodeId, vNodes, vNodesDisconnected, msg, opener, history>>

\* ... and then no longer had.
SockClear ==
  /\ sock.pc = "clear"
  /\ node' = [node EXCEPT ![First(sock.rest)].grantOutbound = FALSE]
  /\ sock' = [sock EXCEPT !.pc = "drop"]
  /\ UNCHANGED <<nLastNodeId, vNodes, vNodesDisconnected, semOutbound, msg, opener, history>>

\* Mutant: only inbound connections have a reference of their own to release.
SockDrop_InboundOnly ==
  /\ sock.pc = "drop"
  /\ LET n == First(sock.rest)
         own == node[n].fNetworkNode \/ node[n].fInbound
     IN /\ node' = [node EXCEPT ![n].fDisconnect = TRUE,
                                ![n].nRefCount = IF node[n].fInbound THEN @ - 1 ELSE @]
        /\ vNodesDisconnected' = vNodesDisconnected \cup {n}
        /\ leaked' = IF own THEN leaked ELSE leaked \cup {n}
        /\ sock' = Rest(sock.rest \ {n})
  /\ UNCHANGED <<nLastNodeId, vNodes, semOutbound, msg, opener, found, contended>>

\* The socket is closed and the connection's own reference released -- if the
\* node is known to be inbound or outbound by now.
SockDrop ==
  /\ sock.pc = "drop"
  /\ LET n == First(sock.rest)
         own == node[n].fNetworkNode \/ node[n].fInbound
     IN /\ node' = [node EXCEPT ![n].fDisconnect = TRUE,
                                ![n].nRefCount = IF own THEN @ - 1 ELSE @]
        /\ vNodesDisconnected' = vNodesDisconnected \cup {n}
        /\ leaked' = IF own THEN leaked ELSE leaked \cup {n}
        /\ sock' = Rest(sock.rest \ {n})
  /\ UNCHANGED <<nLastNodeId, vNodes, semOutbound, msg, opener, found, contended>>

\* "Delete disconnected nodes": nobody holds a lock of a node without having a
\* reference.  ~CNode gives back a grant that is still there.
SockDelete ==
  LET unused == {n \in vNodesDisconnected : node[n].nRefCount <= 0}
  IN /\ sock.pc = "delete"
     /\ vNodesDisconnected' = vNodesDisconnected \ unused
     /\ semOutbound' = semOutbound + Cardinality({n \in unused : node[n].grantOutbound})
     /\ node' = [n \in Node |-> IF n \in unused THEN NoCNode ELSE node[n]]
     /\ sock' = [sock EXCEPT !.pc = "accept"]
     /\ Enter({n \in unused : node[n].grantOutbound})
     /\ UNCHANGED <<nLastNodeId, vNodes, msg, opener, leaked, found>>

\* "Accept new connections": nobody may be calling, or somebody who is banned.
SockAccept ==
  /\ sock.pc = "accept"
  /\ sock' = [sock EXCEPT !.pc = "copy"]
  /\ \/ UNCHANGED <<node, nLastNodeId, vNodes>>
     \/ /\ Cardinality({n \in vNodes : node[n].fInbound}) < nMaxInbound
        /\ nLastNodeId < MaxNodes
        /\ nLastNodeId' = nLastNodeId + 1
        /\ \E a \in Addr : node' = [node EXCEPT ![nLastNodeId'] = CNode(a, TRUE)]
        /\ vNodes' = vNodes \cup {nLastNodeId'}
  /\ UNCHANGED <<vNodesDisconnected, semOutbound, msg, opener, history>>

SockCopy ==
  /\ sock.pc = "copy"
  /\ node' = Ref(vNodes, 1)
  /\ sock' = [sock EXCEPT !.pc = "service", !.copy = vNodes]
  /\ UNCHANGED <<nLastNodeId, vNodes, vNodesDisconnected, semOutbound,
                 msg, opener, history>>

\* "Service each socket": a connection is closed or in error, or one of the
\* time-outs sets fDisconnect.
SockService(n) ==
  /\ sock.pc = "service" /\ n \in sock.copy
  /\ ~node[n].fDisconnect
  /\ node' = [node EXCEPT ![n].fDisconnect = TRUE]
  /\ UNCHANGED <<nLastNodeId, vNodes, vNodesDisconnected, semOutbound, sock, msg, opener, history>>

SockRelease ==
  /\ sock.pc = "service"
  /\ node' = Ref(sock.copy, -1)
  /\ sock' = [sock EXCEPT !.pc = "top", !.copy = {}]
  /\ UNCHANGED <<nLastNodeId, vNodes, vNodesDisconnected, semOutbound,
                 msg, opener, history>>
-----------------------------------------------------------------------------
(* ThreadMessageHandler *)

\* Mutant: the message thread keeps no references.
MsgCopy_NoRef ==
  /\ msg.pc = "top" /\ ~Locked
  /\ msg' = [pc |-> "poll", copy |-> vNodes]
  /\ UNCHANGED <<node, nLastNodeId, vNodes, vNodesDisconnected, semOutbound, sock,
                 opener, history>>

MsgCopy ==
  /\ msg.pc = "top" /\ ~Locked
  /\ node' = Ref(vNodes, 1)
  /\ msg' = [pc |-> "poll", copy |-> vNodes]
  /\ UNCHANGED <<nLastNodeId, vNodes, vNodesDisconnected, semOutbound, sock, opener, history>>

\* ProcessMessages and SendMessages may close the connection.
MsgPoll(n) ==
  /\ msg.pc = "poll" /\ n \in msg.copy
  /\ ~node[n].fDisconnect
  /\ node' = [node EXCEPT ![n].fDisconnect = TRUE]
  /\ UNCHANGED <<nLastNodeId, vNodes, vNodesDisconnected, semOutbound, sock, msg, opener, history>>

MsgRelease ==
  /\ msg.pc = "poll" /\ ~Locked
  /\ node' = Ref(msg.copy, -1)
  /\ msg' = [pc |-> "top", copy |-> {}]
  /\ UNCHANGED <<nLastNodeId, vNodes, vNodesDisconnected, semOutbound, sock, opener, history>>
-----------------------------------------------------------------------------
(* ThreadOpenConnections and ThreadOpenAddedConnections; addnode onetry *)

Set(o, f) == opener' = [opener EXCEPT ![o] = f]

\* CSemaphoreGrant grant(*semOutbound): f is what the thread does with it.
TakeGrant(o, f) ==
  /\ opener[o].pc = "wait" /\ semOutbound > 0
  /\ semOutbound' = semOutbound - 1
  /\ Set(o, [f EXCEPT !.grant = TRUE])
  /\ UNCHANGED <<node, nLastNodeId, vNodes, vNodesDisconnected, sock, msg, history>>

Acquire(o) ==
  /\ o \notin ByName
  /\ TakeGrant(o, [opener[o] EXCEPT !.pc = "check"])

\* ProcessOneShot and the added nodes behind a name proxy: a name is compared with the
\* names of nodes only.  OpenNetworkConnection fails if it is known, as it does if no
\* connection is made.
OpenByName(o, a) ==
  /\ o \in ByName \/ o = "opencon"
  /\ TakeGrant(o, [opener[o] EXCEPT !.pc = "connect", !.addr = a, !.fOneShot = o = "opencon"])

\* The grant leaves its scope.
GiveUp(o) ==
  /\ semOutbound' = semOutbound + (IF opener[o].grant THEN 1 ELSE 0)
  /\ Set(o, Waiting)

\* OpenNetworkConnection for address a: not if there is a connection to it.
OpenNetworkConnection(o, a) ==
  /\ opener[o].pc = "check" /\ ~Locked
  /\ IF FindNode(a) = {}
       THEN /\ Set(o, [opener[o] EXCEPT !.pc = "find", !.addr = a])
            /\ UNCHANGED semOutbound
       ELSE GiveUp(o)
  /\ UNCHANGED <<node, nLastNodeId, vNodes, vNodesDisconnected, sock, msg, history>>

\* ConnectNode: "Look for an existing connection" once more.
FindExisting(o) ==
  /\ opener[o].pc = "find" /\ ~Locked
  /\ \/ FindNode(opener[o].addr) = {} /\ Set(o, [opener[o] EXCEPT !.pc = "connect"])
     \/ \E n \in FindNode(opener[o].addr) :
          Set(o, [opener[o] EXCEPT !.pc = "addref", !.pnode = n])
  /\ UNCHANGED <<node, nLastNodeId, vNodes, vNodesDisconnected, semOutbound, sock, msg, history>>

\* It gets a reference that nobody releases; cs_vNodes is no longer held.
AddRefExisting(o) ==
  /\ opener[o].pc = "addref"
  /\ node' = Ref({opener[o].pnode}, 1)
  /\ found' = found \cup {opener[o].pnode}
  /\ Set(o, [opener[o] EXCEPT !.pc = "move"])
  /\ UNCHANGED <<nLastNodeId, vNodes, vNodesDisconnected, semOutbound, sock, msg, leaked,
                 contended>>

\* A connection is made and the node joins vNodes.
AddNode(a) ==
  /\ ~Locked /\ nLastNodeId < MaxNodes
  /\ nLastNodeId' = nLastNodeId + 1
  /\ node' = [node EXCEPT ![nLastNodeId'] = CNode(a, FALSE)]
  /\ vNodes' = vNodes \cup {nLastNodeId'}

\* Or it fails.
ConnectNode(o) ==
  /\ opener[o].pc = "connect"
  /\ \/ /\ AddNode(opener[o].addr)
        /\ Set(o, [opener[o] EXCEPT !.pc = "move", !.pnode = nLastNodeId', !.made = TRUE])
        /\ UNCHANGED semOutbound
     \/ /\ GiveUp(o)
        /\ UNCHANGED <<node, nLastNodeId, vNodes>>
  /\ UNCHANGED <<vNodesDisconnected, sock, msg, history>>

\* addnode onetry: ConnectNode by name, and no more.
OneTry(a) ==
  /\ AddNode(a)
  /\ UNCHANGED <<vNodesDisconnected, semOutbound, sock, msg, opener, history>>

\* grantOutbound->MoveTo(pnode->grantOutbound): a grant the node has is released.
TestGrant(o) ==
  /\ opener[o].pc = "move"
  /\ Set(o, [opener[o] EXCEPT !.pc = IF node[opener[o].pnode].grantOutbound THEN "post" ELSE "give"])
  /\ Enter({opener[o].pnode})
  /\ UNCHANGED <<node, nLastNodeId, vNodes, vNodesDisconnected, semOutbound, sock, msg, leaked,
                 found>>

PostGrant(o) ==
  /\ opener[o].pc = "post"
  /\ semOutbound' = semOutbound + 1
  /\ Set(o, [opener[o] EXCEPT !.pc = "clear"])
  /\ UNCHANGED <<node, nLastNodeId, vNodes, vNodesDisconnected, sock, msg, history>>

ClearGrant(o) ==
  /\ opener[o].pc = "clear"
  /\ node' = [node EXCEPT ![opener[o].pnode].grantOutbound = FALSE]
  /\ Set(o, [opener[o] EXCEPT !.pc = "give"])
  /\ UNCHANGED <<nLastNodeId, vNodes, vNodesDisconnected, semOutbound, sock, msg, history>>

\* Mutant: the grant is copied to the node and released by the thread as well.
MoveGrant_Copy(o) ==
  /\ opener[o].pc = "give"
  /\ node' = [node EXCEPT ![opener[o].pnode].grantOutbound = TRUE]
  /\ semOutbound' = semOutbound + 1
  /\ Set(o, [opener[o] EXCEPT !.pc = "mark", !.grant = FALSE])
  /\ UNCHANGED <<nLastNodeId, vNodes, vNodesDisconnected, sock, msg, history>>

\* Then the node has the grant, and the thread, which alone sees its own, does not.
MoveGrant(o) ==
  /\ opener[o].pc = "give"
  /\ node' = [node EXCEPT ![opener[o].pnode].grantOutbound = TRUE]
  /\ Set(o, [opener[o] EXCEPT !.pc = "mark", !.grant = FALSE])
  /\ UNCHANGED <<nLastNodeId, vNodes, vNodesDisconnected, semOutbound, sock, msg, history>>

\* pnode->fNetworkNode = true
MarkOutbound(o) ==
  /\ opener[o].pc = "mark"
  /\ node' = [node EXCEPT ![opener[o].pnode].fNetworkNode = TRUE]
  /\ Set(o, IF opener[o].fOneShot THEN [opener[o] EXCEPT !.pc = "oneshot"] ELSE Waiting)
  /\ UNCHANGED <<nLastNodeId, vNodes, vNodesDisconnected, semOutbound, sock, msg, history>>

\* pnode->fOneShot = true: what the flag does to the connection is left out, so that
\* only the use of the node remains.
MarkOneShot(o) ==
  /\ opener[o].pc = "oneshot"
  /\ Set(o, Waiting)
  /\ UNCHANGED <<node, nLastNodeId, vNodes, vNodesDisconnected, semOutbound, sock, msg, history>>
-----------------------------------------------------------------------------
SocketThread ==
  \/ SockLock \/ SockDisconnect \/ SockTest \/ SockPost \/ SockClear \/ SockDrop
  \/ SockDelete \/ SockAccept \/ SockCopy \/ SockRelease \/ \E n \in Node : SockService(n)

MessageThread == MsgCopy \/ MsgRelease \/ \E n \in Node : MsgPoll(n)

OpenThread(o) ==
  \/ Acquire(o) \/ FindExisting(o) \/ AddRefExisting(o) \/ ConnectNode(o)
  \/ TestGrant(o) \/ PostGrant(o) \/ ClearGrant(o) \/ MoveGrant(o)
  \/ MarkOutbound(o) \/ MarkOneShot(o)
  \/ \E a \in Addr : OpenNetworkConnection(o, a) \/ OpenByName(o, a)

Next ==
  \/ SocketThread \/ MessageThread \/ \E o \in Opener : OpenThread(o)
  \/ \E a \in Addr : OneTry(a)

Spec == Init /\ [][Next]_vars

\* The socket and the message thread run for ever; the message thread gets
\* cs_vNodes now and then although the socket thread takes it again and again.
\* Nothing is assumed of the other threads, which may hang in connect().
Fairness == WF_vars(SocketThread) /\ SF_vars(MessageThread)
FairSpec == Spec /\ Fairness
-----------------------------------------------------------------------------
(* Properties *)

\* A node a thread works on is not deleted: the copies of vNodes hold references,
\* and so does the thread that has just made a connection, although the socket
\* thread may already have dropped it, until that thread has set fNetworkNode.  Its
\* write of fOneShot comes after that and is not protected, nor is a node that
\* ConnectNode has found: it may be deleted before AddRef, and as AddRef does without
\* cs_vNodes it may undo the one of another thread.
NodesInUseExist ==
  /\ \A n \in vNodes \cup vNodesDisconnected : node[n].exists
  /\ \A n \in (sock.copy \cup msg.copy) \ found : node[n].exists
  /\ \A o \in Opener : opener[o].made /\ opener[o].pc # "oneshot" =>
       opener[o].pnode \in found \/ node[opener[o].pnode].exists

\* The node's grant has been posted but not yet cleared.
Posted(n) ==
  \/ sock.pc = "clear" /\ First(sock.rest) = n
  \/ \E o \in Opener : opener[o].pnode = n /\ opener[o].pc = "clear"

HasGrant(n) == node[n].grantOutbound /\ ~Posted(n)

\* Outbound connections: marked as such, or just made by a thread with a grant.
Outbound ==
  {n \in vNodes : \/ node[n].fNetworkNode
                  \/ \E o \in Opener : opener[o].made /\ opener[o].pnode = n}

\* Every grant of semOutbound is free, in the hands of a thread that opens a
\* connection, or with a node that has yet to be deleted, and every outbound
\* connection has one or is about to get that of a thread, so that there are never
\* more than nMaxOutbound.  The way to lose a grant for good is a lost
\* reference: the node was dropped before OpenNetworkConnection had marked it
\* outbound, or ConnectNode found it already there.  Excepted are two threads at the
\* grant of one node at once, which can lose a grant and give one back twice; that
\* takes a node ConnectNode has found.
OutboundSlotsKept ==
  /\ contended \subseteq found
  /\ contended = {} =>
       /\ semOutbound + Cardinality({o \in Opener : opener[o].grant})
            + Cardinality({n \in Node : /\ HasGrant(n)
                                        /\ node[n].exists \/ n \in leaked \cup found}) = nMaxOutbound
       /\ \A n \in Outbound :
            HasGrant(n) \/ \E o \in Opener : opener[o].pnode = n /\ opener[o].grant

\* "hold in disconnected pool until all refs are released": a node that is to be
\* disconnected is deleted in the end, and FinalizeNode forgets its blocks and
\* orphans -- unless a reference was lost in OpenNetworkConnection.
DisconnectedNodesDeleted ==
  \A n \in Node : node[n].fDisconnect ~> (~node[n].exists \/ n \in leaked \cup found)

=============================================================================
