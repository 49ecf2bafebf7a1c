----------------------------- MODULE PeersProofs -----------------------------
(***************************************************************************)
(* Proofs about the peers of a node: its connections (NodeLifetime) and    *)
(* the addresses it knows (AddrMan).  The two specifications share no      *)
(* variable.                                                               *)
(*                                                                         *)
(* NodeLifetime: for every number of nodes, connecting threads and slots.  *)
(* Neither property is inductive.  That a node in use exists needs its     *)
(* reference count to cover every claim on it at once: the connection's    *)
(* own, one for each copy of vNodes, and those that were lost              *)
(* (RefsCounted).  The thread that has just made a connection holds no     *)
(* reference of its own; it is safe because the socket thread releases the *)
(* connection's reference only once the node is marked, which nobody else  *)
(* does without a reference that is lost (MakerOK).  That no grant is lost *)
(* or doubled needs, for each node, to know who is inside MoveTo or        *)
(* Release of its grant (GrantOK, one case per step of these two), that    *)
(* whoever is not the only one there met the other at a node ConnectNode   *)
(* has found (MakersAlone), that a node that is gone has no grant unless a *)
(* reference was lost (GoneHasNone), and that a node that needs a grant    *)
(* and has none is promised that of the thread that made it (SlotsHeld).   *)
(*                                                                         *)
(* AddrMan: for every set of addresses and sources, every assignment of    *)
(* buckets and all limits.  Consistent is inductive only with what it does *)
(* not say: that mapAddr has no name without an entry (Named), that every  *)
(* place of vRandom is that of its entry (Ordered), and that a tried entry *)
(* is in the bucket of its address (TriedFits).  Fit states this for the   *)
(* tables in the middle of an operation too, when one reference is counted *)
(* and not yet in a bucket, or one entry has none; each helper of the code *)
(* has a lemma that says which of these states it takes to which.          *)
(***************************************************************************)
EXTENDS NodeLifetime, AddrMan, FiniteSetTheorems, SequenceTheorems,
        WellFoundedInduction, NaturalsInduction, TLAPS

-----------------------------------------------------------------------------
(* Connections *)

CNodes == [addr : Addr \cup {NoAddr}, exists : BOOLEAN, fInbound : BOOLEAN,
           fNetworkNode : BOOLEAN, fDisconnect : BOOLEAN, nRefCount : Int,
           grantOutbound : BOOLEAN]

\* The socket thread has taken the first node of its loop out of vNodes.
Erased == sock.pc \in {"test", "post", "clear", "drop"}

Socks == [pc : {"top", "disconnect", "test", "post", "clear", "drop", "delete", "accept",
                "copy", "service"},
          copy : SUBSET Node, rest : SUBSET Node]

Msgs == [pc : {"top", "poll"}, copy : SUBSET Node]

Before == {"check", "find", "connect", "addref"}
Moving == {"move", "post", "clear", "give"}

Openers == [pc : {"wait", "mark", "oneshot"} \cup Before \cup Moving,
            addr : Addr \cup {NoAddr}, pnode : Node \cup {NoNode},
            grant : BOOLEAN, made : BOOLEAN, fOneShot : BOOLEAN]

TypeOK ==
  /\ node \in [Node -> CNodes]
  /\ nLastNodeId \in 0..MaxNodes
  /\ vNodes \subseteq Node /\ vNodesDisconnected \subseteq Node
  /\ leaked \subseteq Node /\ found \subseteq Node
  /\ semOutbound \in Nat
  /\ sock \in Socks /\ msg \in Msgs
  /\ opener \in [Opener -> Openers]

\* The nodes that have not been made yet are nowhere.
NotMadeYet ==
  \A n \in Node : n > nLastNodeId =>
    /\ node[n] = NoCNode
    /\ n \notin vNodes \cup vNodesDisconnected \cup leaked \cup found \cup sock.copy \cup msg.copy
    /\ \A o \in Opener : opener[o].pnode # n

\* The socket thread's loop over vNodes, and the copies between two loops.
LoopsOK ==
  /\ Locked => sock.rest # {}
  /\ sock.pc = "disconnect" => sock.rest \subseteq vNodes
  /\ Erased => /\ First(sock.rest) \notin vNodes
               /\ sock.rest \ {First(sock.rest)} \subseteq vNodes
  /\ sock.pc # "service" => sock.copy = {}
  /\ msg.pc = "top" => msg.copy = {}

\* Nodes whose connection still has its own reference.
Connected == vNodes \cup (IF Erased THEN {First(sock.rest)} ELSE {})

AllExist ==
  \A n \in Connected \cup vNodesDisconnected \cup sock.copy \cup msg.copy : node[n].exists

In(n, S) == IF n \in S THEN 1 ELSE 0
Claims(n) ==
  In(n, Connected) + In(n, sock.copy) + In(n, msg.copy) + In(n, leaked) + In(n, found)
RefsCounted == \A n \in Node : node[n].exists => node[n].nRefCount >= Claims(n)

\* The thread is between ConnectNode and the end of OpenNetworkConnection, but for
\* the mark of a one-shot connection.
Finishing(o) == opener[o].pc \in Moving \cup {"mark"}

MakerOK(o) ==
  /\ opener[o].pnode \in Connected \cup leaked \cup found
  /\ node[opener[o].pnode].exists /\ ~node[opener[o].pnode].fInbound
  /\ node[opener[o].pnode].fNetworkNode => opener[o].pnode \in found
  /\ opener[o].pc \in Moving /\ node[opener[o].pnode].grantOutbound => opener[o].pnode \in found

OpenerOK(o) ==
  /\ opener[o].grant <=> opener[o].pc \in Before \cup Moving
  /\ opener[o].pc = "addref" \/ Finishing(o) => opener[o].pnode \in Node
  /\ Finishing(o) => opener[o].made \/ opener[o].pnode \in found
  /\ opener[o].made =>
       /\ opener[o].pnode \in Node
       /\ Finishing(o) \/ opener[o].pc = "oneshot"
       /\ Finishing(o) => MakerOK(o)
       /\ \A p \in Opener : opener[p].made /\ opener[p].pnode = opener[o].pnode => p = o

OpenersOK == \A o \in Opener : OpenerOK(o)

GoneHasNone ==
  \A n \in Node : ~node[n].exists => n \in leaked \cup found \/ ~node[n].grantOutbound

IInv ==
  /\ TypeOK /\ NotMadeYet /\ LoopsOK /\ AllExist /\ RefsCounted /\ OpenersOK /\ GoneHasNone
-----------------------------------------------------------------------------
\* The first node of a loop is one of those left.
LEMMA FirstIn ==
  ASSUME NEW S \in SUBSET Node, S # {}
  PROVE  First(S) \in S
<1> DEFINE R == {ss \in Nat \X Nat : ss[1] < ss[2]}
<1>1. IsWellFoundedOn(R, Nat)
  BY NatLessThanWellFounded, Zenon DEF OpToRel
<1>2. \A x, y \in Nat : <<x, y>> \in R <=> x < y
  OBVIOUS
<1> HIDE DEF R
<1>3. S \in SUBSET Nat /\ \A y \in S : y \in Nat
  BY DEF Node
<1>4. PICK x \in S : \A y \in S : ~(<<y, x>> \in R)
  BY <1>1, <1>3, WFMin, Zenon
<1>5. \A y \in S : ~(y < x)
  BY <1>2, <1>3, <1>4
<1>6. \A y \in S : x <= y
  BY <1>3, <1>5
<1> QED
  BY <1>6 DEF First, Min

\* What the loops work on are nodes.
LEMMA LoopsType ==
  ASSUME TypeOK, LoopsOK
  PROVE  /\ Connected \subseteq Node /\ sock.copy \subseteq Node /\ msg.copy \subseteq Node
         /\ Locked => First(sock.rest) \in sock.rest /\ First(sock.rest) \in Node
         /\ Erased => Locked
<1>1. sock.rest \in SUBSET Node /\ sock.copy \subseteq Node /\ msg.copy \subseteq Node
  BY DEF TypeOK, Socks, Msgs
<1>2. Locked => First(sock.rest) \in sock.rest /\ First(sock.rest) \in Node
  BY <1>1, FirstIn DEF LoopsOK
<1>3. Erased => Locked
  BY DEF Erased, Locked
<1> QED
  BY <1>1, <1>2, <1>3 DEF Connected, TypeOK

\* Fields of a node are written.
LEMMA WriteNode ==
  ASSUME NEW c \in CNodes, NEW b \in BOOLEAN, NEW d \in Int
  PROVE  /\ [c EXCEPT !.fDisconnect = b] \in CNodes
         /\ [c EXCEPT !.fNetworkNode = b] \in CNodes
         /\ [c EXCEPT !.grantOutbound = b] \in CNodes
         /\ [c EXCEPT !.nRefCount = d] \in CNodes
         /\ [c EXCEPT !.exists = b, !.nRefCount = d] \in CNodes
         /\ [c EXCEPT !.fDisconnect = b, !.nRefCount = d] \in CNodes
BY DEF CNodes

\* Nodes as they are made, deleted and changed.
LEMMA CNodeIs ==
  /\ \A a \in Addr \cup {NoAddr}, b \in BOOLEAN :
       /\ CNode(a, b) \in CNodes /\ CNode(a, b).exists /\ CNode(a, b).fInbound = b
       /\ ~CNode(a, b).fNetworkNode /\ ~CNode(a, b).grantOutbound /\ CNode(a, b).nRefCount = 1
  /\ NoCNode \in CNodes /\ ~NoCNode.exists /\ ~NoCNode.fInbound /\ ~NoCNode.fNetworkNode
  /\ ~NoCNode.grantOutbound /\ NoCNode.nRefCount = 0
<1>1. CNode(NoAddr, FALSE) \in CNodes /\ ~CNode(NoAddr, FALSE).fInbound
      /\ ~CNode(NoAddr, FALSE).fNetworkNode /\ ~CNode(NoAddr, FALSE).grantOutbound
  BY DEF CNode, CNodes
<1>2. /\ NoCNode \in CNodes /\ ~NoCNode.exists /\ ~NoCNode.fInbound /\ ~NoCNode.fNetworkNode
      /\ ~NoCNode.grantOutbound /\ NoCNode.nRefCount = 0
  <2>1. ASSUME NEW c \in CNodes
        PROVE  LET d == [c EXCEPT !.exists = FALSE, !.nRefCount = 0]
               IN  /\ d \in CNodes /\ d.exists = FALSE /\ d.nRefCount = 0
                   /\ d.fInbound = c.fInbound /\ d.fNetworkNode = c.fNetworkNode
                   /\ d.grantOutbound = c.grantOutbound
    <3> DEFINE d == [c EXCEPT !.exists = FALSE, !.nRefCount = 0]
    <3>1. d \in CNodes
      <4>1. FALSE \in BOOLEAN /\ 0 \in Int
        OBVIOUS
      <4> QED
        BY <4>1, WriteNode, Zenon
    <3> QED
      BY <3>1 DEF CNodes
  <2> DEFINE c == CNode(NoAddr, FALSE)
             d == [c EXCEPT !.exists = FALSE, !.nRefCount = 0]
  <2>2. NoCNode = d
    BY DEF NoCNode
  <2> HIDE DEF c
  <2>3. c \in CNodes /\ ~c.fInbound /\ ~c.fNetworkNode /\ ~c.grantOutbound
    BY <1>1 DEF c
  <2>4. /\ d \in CNodes /\ d.exists = FALSE /\ d.nRefCount = 0
        /\ d.fInbound = c.fInbound /\ d.fNetworkNode = c.fNetworkNode
        /\ d.grantOutbound = c.grantOutbound
    BY <2>1, <2>3
  <2> HIDE DEF d
  <2> QED
    BY <2>2, <2>3, <2>4
<1>3. \A a \in Addr \cup {NoAddr}, b \in BOOLEAN :
        /\ CNode(a, b) \in CNodes /\ CNode(a, b).exists /\ CNode(a, b).fInbound = b
        /\ ~CNode(a, b).fNetworkNode /\ ~CNode(a, b).grantOutbound /\ CNode(a, b).nRefCount = 1
  BY DEF CNode, CNodes
<1> QED
  BY <1>2, <1>3

\* The invariant holds initially.
LEMMA InitInv == Init => IInv
<1> SUFFICES ASSUME Init
             PROVE  IInv
  OBVIOUS
<1>2. TypeOK
  BY CNodeIs, NodeLifetimeAssumption DEF Init, TypeOK, Socks, Msgs, Openers, Before, Moving,
     Waiting, NoNode
<1>3. NotMadeYet
  BY DEF Init, NotMadeYet, Waiting, NoNode, Node
<1>4. LoopsOK /\ AllExist
  BY DEF Init, LoopsOK, AllExist, Connected, Locked, Erased
<1>5. RefsCounted /\ GoneHasNone
  BY CNodeIs DEF Init, RefsCounted, GoneHasNone
<1>6. OpenersOK
  BY DEF Init, OpenersOK, OpenerOK, Waiting, Finishing, Before, Moving
<1> QED
  BY <1>2, <1>3, <1>4, <1>5, <1>6 DEF IInv

\* A step that only asks for a connection to be closed.
LEMMA DisconnectInv ==
  ASSUME IInv, NEW n \in Node, node' = [node EXCEPT ![n].fDisconnect = TRUE],
         UNCHANGED <<nLastNodeId, vNodes, vNodesDisconnected, semOutbound, sock, msg, opener, leaked, found>>,
         node[n].exists
  PROVE  IInv'
<1>1. /\ \A m \in Node \ {n} : node'[m] = node[m]
      /\ node'[n] = [node[n] EXCEPT !.fDisconnect = TRUE]
  BY DEF IInv, TypeOK
<1>2. \A m \in Node : /\ node'[m].exists = node[m].exists
                      /\ node'[m].fInbound = node[m].fInbound
                      /\ node'[m].fNetworkNode = node[m].fNetworkNode
                      /\ node'[m].nRefCount = node[m].nRefCount
                      /\ node'[m].grantOutbound = node[m].grantOutbound
  BY <1>1 DEF IInv, TypeOK, CNodes
<1>3. TypeOK'
  <2>1. node[n] \in CNodes
    BY DEF IInv, TypeOK
  <2>2. [node[n] EXCEPT !.fDisconnect = TRUE] \in CNodes
    <3>1. TRUE \in BOOLEAN /\ 0 \in Int
      OBVIOUS
    <3> QED
      BY <2>1, <3>1, WriteNode, Zenon
  <2>3. node' \in [Node -> CNodes]
    BY <2>2 DEF IInv, TypeOK
  <2> QED
    BY <2>3 DEF IInv, TypeOK
<1>4. NotMadeYet'
  <2>1. ~(n > nLastNodeId)
    BY CNodeIs DEF IInv, NotMadeYet
  <2> QED
    BY <1>1, <2>1 DEF IInv, NotMadeYet, TypeOK, Node
<1>5. LoopsOK' /\ Connected' = Connected
  BY DEF IInv, LoopsOK, Connected, Locked, Erased
<1>6. AllExist'
  BY <1>2, <1>5 DEF IInv, AllExist
<1>7. RefsCounted'
  BY <1>2, <1>5 DEF IInv, RefsCounted, Claims
<1>8. OpenersOK'
  BY <1>2, <1>5 DEF IInv, OpenersOK, OpenerOK, MakerOK, Finishing
<1>9. GoneHasNone'
  BY <1>2 DEF IInv, GoneHasNone
<1> QED
  BY <1>3, <1>4, <1>5, <1>6, <1>7, <1>8, <1>9 DEF IInv

\* AddRef or Release for some nodes.
LEMMA RefOK ==
  ASSUME TypeOK, NEW S, NEW d \in Int, node' = Ref(S, d)
  PROVE  /\ node' \in [Node -> CNodes]
         /\ \A m \in Node : /\ node'[m].exists = node[m].exists
                            /\ node'[m].fInbound = node[m].fInbound
                            /\ node'[m].fNetworkNode = node[m].fNetworkNode
                            /\ node'[m].grantOutbound = node[m].grantOutbound
                            /\ m \notin S => node'[m] = node[m]
                            /\ m \in S => node'[m].nRefCount = node[m].nRefCount + d
<1>1. ASSUME NEW m \in Node
      PROVE  /\ [node[m] EXCEPT !.nRefCount = @ + d] \in CNodes
             /\ node[m] \in CNodes
  <2>1. node[m] \in CNodes
    BY DEF TypeOK
  <2>2. node[m].nRefCount + d \in Int
    BY <2>1 DEF CNodes
  <2>3. TRUE \in BOOLEAN
    OBVIOUS
  <2> QED
    BY <2>1, <2>2, <2>3, WriteNode, Zenon
<1>2. node' \in [Node -> CNodes]
  BY <1>1 DEF Ref
<1>3. ASSUME NEW m \in Node
      PROVE  /\ node'[m].exists = node[m].exists
             /\ node'[m].fInbound = node[m].fInbound
             /\ node'[m].fNetworkNode = node[m].fNetworkNode
             /\ node'[m].grantOutbound = node[m].grantOutbound
             /\ m \notin S => node'[m] = node[m]
             /\ m \in S => node'[m].nRefCount = node[m].nRefCount + d
  <2>1. CASE m \in S
    <3>1. node'[m] = [node[m] EXCEPT !.nRefCount = @ + d]
      BY <2>1 DEF Ref
    <3> QED
      BY <1>1, <2>1, <3>1 DEF CNodes
  <2>2. CASE m \notin S
    BY <2>2 DEF Ref
  <2> QED
    BY <2>1, <2>2
<1> QED
  BY <1>2, <1>3

\* A thread takes its copy of vNodes or drops it: the references follow.
LEMMA CopyInv ==
  ASSUME IInv, NEW S \in SUBSET Node, NEW d \in Int, node' = Ref(S, d),
         UNCHANGED <<nLastNodeId, vNodes, vNodesDisconnected, semOutbound, opener, leaked, found>>,
         sock' \in Socks, msg' \in Msgs, LoopsOK', Connected' = Connected,
         sock'.copy \cup msg'.copy \cup S \subseteq sock.copy \cup msg.copy \cup vNodes,
         \A m \in Node : In(m, sock'.copy) + In(m, msg'.copy) =
                           In(m, sock.copy) + In(m, msg.copy) + (IF m \in S THEN d ELSE 0)
  PROVE  IInv'
<1>1. /\ node' \in [Node -> CNodes]
      /\ \A m \in Node : /\ node'[m].exists = node[m].exists
                         /\ node'[m].fInbound = node[m].fInbound
                         /\ node'[m].fNetworkNode = node[m].fNetworkNode
                         /\ node'[m].grantOutbound = node[m].grantOutbound
                         /\ m \notin S => node'[m] = node[m]
                         /\ m \in S => node'[m].nRefCount = node[m].nRefCount + d
  BY RefOK DEF IInv
<1>2. TypeOK'
  BY <1>1 DEF IInv, TypeOK
<1>3. NotMadeYet'
  BY <1>1 DEF IInv, NotMadeYet, TypeOK
<1>4. AllExist'
  <2>1. \A m \in sock'.copy \cup msg'.copy \cup vNodes : m \in Node /\ node[m].exists
    BY LoopsType DEF IInv, AllExist, TypeOK, Connected
  <2>2. \A m \in Connected \cup vNodesDisconnected : m \in Node /\ node[m].exists
    BY LoopsType DEF IInv, AllExist, TypeOK
  <2> QED
    BY <1>1, <2>1, <2>2 DEF AllExist
<1>5. RefsCounted'
  <2> SUFFICES ASSUME NEW m \in Node, node'[m].exists
               PROVE  node'[m].nRefCount >= Claims(m)'
    BY DEF RefsCounted
  <2>1. node[m].nRefCount >= Claims(m) /\ node[m].nRefCount \in Int
    BY <1>1 DEF IInv, RefsCounted, TypeOK, CNodes
  <2>2. Claims(m)' = Claims(m) + (IF m \in S THEN d ELSE 0)
    BY DEF Claims, In
  <2>3. node'[m].nRefCount = node[m].nRefCount + (IF m \in S THEN d ELSE 0)
    BY <1>1, <2>1
  <2>4. Claims(m) \in Int
    BY DEF Claims, In
  <2> QED
    BY <2>1, <2>2, <2>3, <2>4
<1>6. OpenersOK'
  BY <1>1 DEF IInv, OpenersOK, OpenerOK, MakerOK, Finishing
<1>7. GoneHasNone'
  BY <1>1 DEF IInv, GoneHasNone, TypeOK
<1> QED
  BY <1>2, <1>3, <1>4, <1>5, <1>6, <1>7 DEF IInv

\* The socket thread's copy.
LEMMA SockCopyInv ==
  ASSUME IInv, SockCopy
  PROVE  IInv'
<1>1. /\ sock.pc = "copy" /\ node' = Ref(vNodes, 1)
      /\ sock' = [sock EXCEPT !.pc = "service", !.copy = vNodes]
      /\ UNCHANGED <<nLastNodeId, vNodes, vNodesDisconnected, semOutbound, msg, opener, leaked, found>>
  BY DEF SockCopy, history
<1>2. sock \in Socks /\ vNodes \in SUBSET Node /\ msg \in Msgs
  BY DEF IInv, TypeOK
<1>3. sock'.pc = "service" /\ sock'.copy = vNodes /\ sock' \in Socks
  BY <1>1, <1>2 DEF Socks
<1>4. sock.copy = {} /\ LoopsOK' /\ Connected' = Connected
  BY <1>1, <1>3 DEF IInv, LoopsOK, Connected, Locked, Erased
<1>5. \A m \in Node : In(m, sock'.copy) + In(m, msg'.copy) =
                        In(m, sock.copy) + In(m, msg.copy) + (IF m \in vNodes THEN 1 ELSE 0)
  BY <1>1, <1>3, <1>4 DEF In
<1> QED
  BY <1>1, <1>2, <1>3, <1>4, <1>5, CopyInv

\* It is given up.
LEMMA SockReleaseInv ==
  ASSUME IInv, SockRelease
  PROVE  IInv'
<1>1. /\ sock.pc = "service" /\ node' = Ref(sock.copy, -1)
      /\ sock' = [sock EXCEPT !.pc = "top", !.copy = {}]
      /\ UNCHANGED <<nLastNodeId, vNodes, vNodesDisconnected, semOutbound, msg, opener, leaked, found>>
  BY DEF SockRelease, history
<1>2. sock \in Socks /\ sock.copy \in SUBSET Node /\ msg \in Msgs
  BY DEF IInv, TypeOK, Socks
<1>3. sock'.pc = "top" /\ sock'.copy = {} /\ sock' \in Socks
  BY <1>1, <1>2 DEF Socks
<1>4. LoopsOK' /\ Connected' = Connected
  BY <1>1, <1>3 DEF IInv, LoopsOK, Connected, Locked, Erased
<1>5. \A m \in Node : In(m, sock'.copy) + In(m, msg'.copy) =
                        In(m, sock.copy) + In(m, msg.copy) + (IF m \in sock.copy THEN -1 ELSE 0)
  BY <1>1, <1>3 DEF In
<1> QED
  BY <1>1, <1>2, <1>3, <1>4, <1>5, CopyInv

\* The message thread's copy.
LEMMA MsgCopyInv ==
  ASSUME IInv, MsgCopy
  PROVE  IInv'
<1>1. /\ msg.pc = "top" /\ node' = Ref(vNodes, 1)
      /\ msg' = [pc |-> "poll", copy |-> vNodes]
      /\ UNCHANGED <<nLastNodeId, vNodes, vNodesDisconnected, semOutbound, sock, opener, leaked, found>>
  BY DEF MsgCopy, history
<1>2. vNodes \in SUBSET Node /\ sock \in Socks
  BY DEF IInv, TypeOK
<1>3. msg'.pc = "poll" /\ msg'.copy = vNodes /\ msg' \in Msgs
  BY <1>1, <1>2 DEF Msgs
<1>4. msg.copy = {} /\ LoopsOK' /\ Connected' = Connected
  BY <1>1, <1>3 DEF IInv, LoopsOK, Connected, Locked, Erased
<1>5. \A m \in Node : In(m, sock'.copy) + In(m, msg'.copy) =
                        In(m, sock.copy) + In(m, msg.copy) + (IF m \in vNodes THEN 1 ELSE 0)
  BY <1>1, <1>3, <1>4 DEF In
<1> QED
  BY <1>1, <1>2, <1>3, <1>4, <1>5, CopyInv

\* It is given up.
LEMMA MsgReleaseInv ==
  ASSUME IInv, MsgRelease
  PROVE  IInv'
<1>1. /\ msg.pc = "poll" /\ node' = Ref(msg.copy, -1)
      /\ msg' = [pc |-> "top", copy |-> {}]
      /\ UNCHANGED <<nLastNodeId, vNodes, vNodesDisconnected, semOutbound, sock, opener, leaked, found>>
  BY DEF MsgRelease, history
<1>2. msg.copy \in SUBSET Node /\ sock \in Socks
  BY DEF IInv, TypeOK, Msgs
<1>3. msg'.pc = "top" /\ msg'.copy = {} /\ msg' \in Msgs
  BY <1>1, <1>2 DEF Msgs
<1>4. LoopsOK' /\ Connected' = Connected
  BY <1>1, <1>3 DEF IInv, LoopsOK, Connected, Locked, Erased
<1>5. \A m \in Node : In(m, sock'.copy) + In(m, msg'.copy) =
                        In(m, sock.copy) + In(m, msg.copy) + (IF m \in msg.copy THEN -1 ELSE 0)
  BY <1>1, <1>3 DEF In
<1> QED
  BY <1>1, <1>2, <1>3, <1>4, <1>5, CopyInv

\* The copies do not outlive their nodes, so a message or a time-out closes one that exists.
LEMMA ServiceInv ==
  ASSUME IInv, NEW n \in Node, SockService(n) \/ MsgPoll(n)
  PROVE  IInv'
<1>1. n \in sock.copy \cup msg.copy
  BY DEF SockService, MsgPoll
<1>2. node[n].exists
  BY <1>1 DEF IInv, AllExist
<1> QED
  BY <1>2, DisconnectInv DEF SockService, MsgPoll, history

\* A step of a thread that opens a connection before it has a node, or as it ends.
LEMMA OpenerStepInv ==
  ASSUME IInv, NEW o \in Opener, NEW r \in Openers, opener' = [opener EXCEPT ![o] = r],
         UNCHANGED <<node, nLastNodeId, vNodes, vNodesDisconnected, sock, msg, leaked, found>>,
         semOutbound' \in Nat, ~r.made, r.pc \in {"wait"} \cup Before,
         r.grant <=> r.pc \in Before,
         r.pnode \in {NoNode, opener[o].pnode} \cup vNodes, r.pc = "addref" => r.pnode \in vNodes
  PROVE  IInv'
<1>1. /\ opener'[o] = r
      /\ \A p \in Opener \ {o} : opener'[p] = opener[p]
  BY DEF IInv, TypeOK
<1>2. TypeOK'
  BY DEF IInv, TypeOK
<1>3. NotMadeYet'
  BY <1>1 DEF IInv, NotMadeYet, Node, NoNode
<1>4. LoopsOK' /\ Connected' = Connected
  BY DEF IInv, LoopsOK, Connected, Locked, Erased
<1>5. AllExist' /\ RefsCounted' /\ GoneHasNone'
  BY <1>4 DEF IInv, AllExist, RefsCounted, Claims, GoneHasNone
<1>6. ASSUME NEW p \in Opener
      PROVE  OpenerOK(p)'
  <2>1. CASE p = o
    BY <1>1, <2>1 DEF OpenerOK, Finishing, IInv, TypeOK, Before, Moving
  <2>2. CASE p # o
    <3>1. MakerOK(p) => MakerOK(p)'
      BY <1>1, <1>4, <2>2 DEF MakerOK
    <3> QED
      BY <1>1, <2>2, <3>1 DEF IInv, OpenersOK, OpenerOK, Finishing
  <2> QED
    BY <2>1, <2>2
<1>7. OpenersOK'
  BY <1>6 DEF OpenersOK, OpenerOK
<1> QED
  BY <1>2, <1>3, <1>4, <1>5, <1>7 DEF IInv

\* A thread takes a grant.
LEMMA TakeGrantInv ==
  ASSUME IInv, NEW o \in Opener, NEW f \in Openers, TakeGrant(o, f), ~f.made, f.pc \in Before,
         f.pc # "addref", f.pnode = opener[o].pnode
  PROVE  IInv'
<1> DEFINE r == [f EXCEPT !.grant = TRUE]
<1>1. /\ opener[o].pc = "wait" /\ opener' = [opener EXCEPT ![o] = r]
      /\ semOutbound > 0 /\ semOutbound' = semOutbound - 1
      /\ UNCHANGED <<node, nLastNodeId, vNodes, vNodesDisconnected, sock, msg, leaked, found>>
  BY DEF TakeGrant, Set, history
<1>2. semOutbound' \in Nat
  BY <1>1 DEF IInv, TypeOK
<1>3. r \in Openers /\ ~r.made /\ r.pc = f.pc /\ r.grant /\ r.pnode = opener[o].pnode
  BY DEF Openers
<1> HIDE DEF r
<1> QED
  BY <1>1, <1>2, <1>3, OpenerStepInv

\* A thread that waits for a grant has no node.
LEMMA WaitingMadeNone ==
  ASSUME IInv, NEW o \in Opener, opener[o].pc \in {"wait"} \cup Before
  PROVE  opener[o] \in Openers /\ ~opener[o].made
BY DEF IInv, TypeOK, OpenersOK, OpenerOK, Finishing, Before, Moving

\* ThreadOpenConnections and ThreadOpenAddedConnections take a grant before they choose.
LEMMA AcquireInv ==
  ASSUME IInv, NEW o \in Opener, Acquire(o)
  PROVE  IInv'
<1> DEFINE f == [opener[o] EXCEPT !.pc = "check"]
<1>1. TakeGrant(o, f) /\ opener[o].pc = "wait"
  BY DEF Acquire, TakeGrant
<1>2. opener[o] \in Openers /\ ~opener[o].made
  BY <1>1, WaitingMadeNone
<1>3. f \in Openers /\ ~f.made /\ f.pc \in Before /\ f.pc # "addref" /\ f.pnode = opener[o].pnode
  BY <1>2 DEF Openers, Before
<1> HIDE DEF f
<1> QED
  BY <1>1, <1>3, TakeGrantInv

\* So do ProcessOneShot and the added nodes behind a name proxy.
LEMMA OpenByNameInv ==
  ASSUME IInv, NEW o \in Opener, NEW a \in Addr, OpenByName(o, a)
  PROVE  IInv'
<1> DEFINE f == [opener[o] EXCEPT !.pc = "connect", !.addr = a, !.fOneShot = o = "opencon"]
<1>1. TakeGrant(o, f) /\ opener[o].pc = "wait"
  BY DEF OpenByName, TakeGrant
<1>2. opener[o] \in Openers /\ ~opener[o].made
  BY <1>1, WaitingMadeNone
<1>3. f \in Openers /\ ~f.made /\ f.pc \in Before /\ f.pc # "addref" /\ f.pnode = opener[o].pnode
  BY <1>2 DEF Openers, Before
<1> HIDE DEF f
<1> QED
  BY <1>1, <1>3, TakeGrantInv

\* A thread that has nothing in its hands.
LEMMA WaitingIs ==
  /\ Waiting \in Openers /\ ~Waiting.made /\ Waiting.pc = "wait" /\ ~Waiting.grant
  /\ Waiting.pnode = NoNode
BY DEF Waiting, Openers

\* The grant leaves its scope.
LEMMA GiveUpInv ==
  ASSUME IInv, NEW o \in Opener, GiveUp(o),
         UNCHANGED <<node, nLastNodeId, vNodes, vNodesDisconnected, sock, msg, leaked, found>>
  PROVE  IInv'
<1>1. semOutbound' \in Nat /\ opener' = [opener EXCEPT ![o] = Waiting]
  BY DEF GiveUp, Set, IInv, TypeOK
<1>2. Waiting.pc \notin Before
  BY WaitingIs DEF Before
<1> QED
  BY <1>1, <1>2, WaitingIs, OpenerStepInv

\* The write of fOneShot is the end of a one-shot connection.
LEMMA MarkOneShotInv ==
  ASSUME IInv, NEW o \in Opener, MarkOneShot(o)
  PROVE  IInv'
<1>1. /\ semOutbound' \in Nat /\ opener' = [opener EXCEPT ![o] = Waiting]
      /\ UNCHANGED <<node, nLastNodeId, vNodes, vNodesDisconnected, sock, msg, leaked, found>>
  BY DEF MarkOneShot, Set, IInv, TypeOK, history
<1>2. Waiting.pc \notin Before
  BY WaitingIs DEF Before
<1> QED
  BY <1>1, <1>2, WaitingIs, OpenerStepInv

\* OpenNetworkConnection looks for a connection first.
LEMMA OpenNetworkConnectionInv ==
  ASSUME IInv, NEW o \in Opener, NEW a \in Addr, OpenNetworkConnection(o, a)
  PROVE  IInv'
<1> DEFINE r == [opener[o] EXCEPT !.pc = "find", !.addr = a]
<1>1. /\ opener[o].pc = "check" /\ "check" \in Before /\ "find" \in Before
      /\ UNCHANGED <<node, nLastNodeId, vNodes, vNodesDisconnected, sock, msg, leaked, found>>
  BY DEF OpenNetworkConnection, history, Before
<1>2. CASE FindNode(a) = {}
  <2>1. opener' = [opener EXCEPT ![o] = r] /\ semOutbound' = semOutbound
    BY <1>2 DEF OpenNetworkConnection, Set
  <2>2. opener[o] \in Openers /\ ~opener[o].made
    BY <1>1, WaitingMadeNone
  <2>3. opener[o].grant
    BY <1>1 DEF IInv, OpenersOK, OpenerOK
  <2>4. /\ r \in Openers /\ r.made = opener[o].made /\ r.pc = "find" /\ r.grant
        /\ r.pnode = opener[o].pnode
    BY <2>2, <2>3 DEF Openers, Before
  <2>5. semOutbound' \in Nat
    BY <2>1 DEF IInv, TypeOK
  <2> HIDE DEF r
  <2> QED
    BY <1>1, <2>1, <2>2, <2>4, <2>5, OpenerStepInv
<1>3. CASE FindNode(a) # {}
  <2>1. GiveUp(o)
    BY <1>3 DEF OpenNetworkConnection
  <2> QED
    BY <1>1, <2>1, GiveUpInv
<1> QED
  BY <1>2, <1>3

\* So does ConnectNode.
LEMMA FindExistingInv ==
  ASSUME IInv, NEW o \in Opener, FindExisting(o)
  PROVE  IInv'
<1>1. /\ opener[o].pc = "find" /\ semOutbound' = semOutbound
      /\ UNCHANGED <<node, nLastNodeId, vNodes, vNodesDisconnected, sock, msg, leaked, found>>
      /\ {"find", "connect", "addref"} \subseteq Before
  BY DEF FindExisting, history, Before
<1>2. opener[o] \in Openers /\ ~opener[o].made
  BY <1>1, WaitingMadeNone
<1>3. semOutbound' \in Nat /\ opener[o].grant
  BY <1>1 DEF IInv, TypeOK, OpenersOK, OpenerOK
<1>4. CASE Set(o, [opener[o] EXCEPT !.pc = "connect"])
  <2> DEFINE r == [opener[o] EXCEPT !.pc = "connect"]
  <2>1. opener' = [opener EXCEPT ![o] = r]
    BY <1>4 DEF Set
  <2>2. /\ r \in Openers /\ r.made = opener[o].made /\ r.pc = "connect" /\ r.grant
        /\ r.pnode = opener[o].pnode
    BY <1>1, <1>2, <1>3 DEF Openers
  <2> HIDE DEF r
  <2> QED
    BY <1>1, <1>2, <1>3, <2>1, <2>2, OpenerStepInv
<1>5. ASSUME NEW n \in FindNode(opener[o].addr),
             Set(o, [opener[o] EXCEPT !.pc = "addref", !.pnode = n])
      PROVE  IInv'
  <2> DEFINE r == [opener[o] EXCEPT !.pc = "addref", !.pnode = n]
  <2>1. opener' = [opener EXCEPT ![o] = r]
    BY <1>5 DEF Set
  <2>2. n \in vNodes /\ n \in Node
    BY <1>5 DEF FindNode, IInv, TypeOK
  <2>3. r \in Openers /\ r.made = opener[o].made /\ r.pc = "addref" /\ r.grant /\ r.pnode = n
    BY <1>1, <1>2, <1>3, <2>2 DEF Openers
  <2> HIDE DEF r
  <2> QED
    BY <1>1, <1>2, <1>3, <2>1, <2>2, <2>3, OpenerStepInv
<1> QED
  BY <1>4, <1>5 DEF FindExisting

\* The reference to a node that was found is lost, and counted as such.
LEMMA AddRefExistingInv ==
  ASSUME IInv, NEW o \in Opener, AddRefExisting(o)
  PROVE  IInv'
<1> DEFINE n == opener[o].pnode
           r == [opener[o] EXCEPT !.pc = "move"]
<1>1. /\ opener[o].pc = "addref" /\ node' = Ref({n}, 1) /\ found' = found \cup {n}
      /\ opener' = [opener EXCEPT ![o] = r]
      /\ UNCHANGED <<nLastNodeId, vNodes, vNodesDisconnected, semOutbound, sock, msg, leaked>>
  BY DEF AddRefExisting, Set
<1>2. opener[o] \in Openers /\ ~opener[o].made /\ opener[o].grant /\ n \in Node
  BY <1>1 DEF IInv, TypeOK, OpenersOK, OpenerOK, Finishing, Before, Moving
<1>3. r \in Openers /\ ~r.made /\ r.pc = "move" /\ r.grant /\ r.pnode = n
  BY <1>2 DEF Openers, Moving
<1> HIDE DEF n, r
<1>4. /\ node' \in [Node -> CNodes]
      /\ \A m \in Node : /\ node'[m].exists = node[m].exists
                         /\ node'[m].fInbound = node[m].fInbound
                         /\ node'[m].fNetworkNode = node[m].fNetworkNode
                         /\ node'[m].grantOutbound = node[m].grantOutbound
                         /\ m \notin {n} => node'[m] = node[m]
                         /\ m \in {n} => node'[m].nRefCount = node[m].nRefCount + 1
  <2>1. 1 \in Int /\ TypeOK
    BY DEF IInv
  <2> QED
    BY <1>1, <2>1, RefOK
<1>5. opener'[o] = r /\ \A p \in Opener \ {o} : opener'[p] = opener[p]
  BY <1>1 DEF IInv, TypeOK
<1>6. TypeOK'
  BY <1>1, <1>2, <1>3, <1>4 DEF IInv, TypeOK
<1>7. NotMadeYet'
  <2>1. ~(n > nLastNodeId)
    BY <1>2 DEF IInv, NotMadeYet, n
  <2>2. ASSUME NEW m \in Node, m > nLastNodeId
        PROVE  /\ node'[m] = NoCNode /\ m \notin found'
               /\ \A p \in Opener : opener'[p].pnode # m
    <3>1. m # n /\ node[m] = NoCNode /\ m \notin found
      BY <2>1, <2>2 DEF IInv, NotMadeYet
    <3>2. \A p \in Opener : opener[p].pnode # m
      BY <2>2 DEF IInv, NotMadeYet
    <3>3. node'[m] = NoCNode
      BY <1>4, <3>1
    <3> QED
      BY <1>1, <1>3, <1>5, <3>1, <3>2, <3>3
  <2> QED
    BY <1>1, <2>2 DEF IInv, NotMadeYet
<1>8. LoopsOK' /\ Connected' = Connected
  BY <1>1 DEF IInv, LoopsOK, Connected, Locked, Erased
<1>9. AllExist'
  <2>1. Connected \cup vNodesDisconnected \cup sock.copy \cup msg.copy \subseteq Node
    BY LoopsType DEF IInv, TypeOK
  <2> QED
    BY <1>1, <1>4, <1>8, <2>1 DEF IInv, AllExist
<1>10. RefsCounted'
  <2> SUFFICES ASSUME NEW m \in Node, node'[m].exists
               PROVE  node'[m].nRefCount >= Claims(m)'
    BY DEF RefsCounted
  <2>1. node[m].nRefCount >= Claims(m) /\ node[m].nRefCount \in Int /\ Claims(m) \in Int
    BY <1>4 DEF IInv, RefsCounted, TypeOK, CNodes, Claims, In
  <2>2. CASE m = n
    <3>1. Claims(m)' <= Claims(m) + 1 /\ Claims(m)' \in Int
      BY <1>1, <1>8 DEF Claims, In
    <3> QED
      BY <1>4, <2>1, <2>2, <3>1
  <2>3. CASE m # n
    <3>1. Claims(m)' = Claims(m)
      BY <1>1, <1>8, <2>3 DEF Claims, In
    <3> QED
      BY <1>4, <2>1, <2>3, <3>1
  <2> QED
    BY <2>2, <2>3
<1>11. ASSUME NEW p \in Opener
       PROVE  OpenerOK(p)'
  <2>1. CASE p = o
    BY <1>1, <1>2, <1>3, <1>5, <2>1 DEF OpenerOK, Finishing, Moving
  <2>2. CASE p # o
    <3>1. OpenerOK(p) /\ (opener[p].made => opener[p].pnode \in Node)
      BY DEF IInv, OpenersOK, OpenerOK
    <3>2. opener'[p] = opener[p] /\ found \subseteq found' /\ leaked' = leaked
      BY <1>1, <1>5, <2>2
    <3>3. opener[p].made => \A q \in Opener :
            opener'[q].made /\ opener'[q].pnode = opener[p].pnode => q = p
      BY <1>3, <1>5, <3>1 DEF OpenerOK
    <3>4. opener[p].made /\ MakerOK(p) => MakerOK(p)'
      BY <1>4, <1>8, <3>1, <3>2 DEF MakerOK
    <3> QED
      BY <3>1, <3>2, <3>3, <3>4 DEF OpenerOK, Finishing
  <2> QED
    BY <2>1, <2>2
<1>12. OpenersOK'
  BY <1>11 DEF OpenersOK
<1>13. GoneHasNone'
  BY <1>1, <1>4 DEF IInv, GoneHasNone
<1> QED
  BY <1>6, <1>7, <1>8, <1>9, <1>10, <1>12, <1>13 DEF IInv

\* The loop over vNodes starts, or goes on without the first node.
LEMMA RestOK ==
  ASSUME IInv, NEW S \in SUBSET vNodes, sock' = Rest(S), sock.pc # "service"
  PROVE  /\ sock' \in Socks /\ sock'.copy = {} /\ sock'.rest = S
         /\ sock'.pc = IF S = {} THEN "delete" ELSE "disconnect"
<1>1. sock \in Socks /\ S \in SUBSET Node /\ sock.copy = {}
  BY DEF IInv, TypeOK, LoopsOK
<1> QED
  BY <1>1 DEF Rest, Socks

\* The socket thread starts its loop over vNodes.
LEMMA SockLockInv ==
  ASSUME IInv, SockLock
  PROVE  IInv'
<1>1. /\ sock.pc = "top" /\ sock' = Rest(vNodes)
      /\ UNCHANGED <<node, nLastNodeId, vNodes, vNodesDisconnected, semOutbound, msg, opener,
                  leaked, found>>
  BY DEF SockLock, history
<1>2. /\ sock' \in Socks /\ sock'.copy = {} /\ sock'.rest = vNodes
      /\ sock'.pc = IF vNodes = {} THEN "delete" ELSE "disconnect"
  BY <1>1, RestOK
<1>3. sock.copy = {} /\ Connected' = Connected
  BY <1>1, <1>2 DEF IInv, LoopsOK, Connected, Locked, Erased
<1>4. TypeOK'
  BY <1>1, <1>2 DEF IInv, TypeOK
<1>5. NotMadeYet' /\ LoopsOK'
  BY <1>1, <1>2 DEF IInv, NotMadeYet, LoopsOK, Locked, Erased
<1>6. AllExist' /\ RefsCounted'
  BY <1>1, <1>2, <1>3 DEF IInv, AllExist, RefsCounted, Claims
<1>7. OpenersOK' /\ GoneHasNone'
  BY <1>1, <1>3 DEF IInv, OpenersOK, OpenerOK, MakerOK, Finishing, GoneHasNone
<1> QED
  BY <1>4, <1>5, <1>6, <1>7 DEF IInv

\* A round of the loop that leaves the node where it is.
LEMMA SockKeepInv ==
  ASSUME IInv, sock.pc = "disconnect", sock' = Rest(sock.rest \ {First(sock.rest)}),
         UNCHANGED <<node, nLastNodeId, vNodes, vNodesDisconnected, semOutbound, msg, opener,
                     leaked, found>>
  PROVE  IInv'
<1> DEFINE S == sock.rest \ {First(sock.rest)}
<1>1. S \in SUBSET vNodes
  BY DEF IInv, LoopsOK
<1>2. /\ sock' \in Socks /\ sock'.copy = {} /\ sock'.rest = S
      /\ sock'.pc = IF S = {} THEN "delete" ELSE "disconnect"
  BY <1>1, RestOK
<1> HIDE DEF S
<1>3. sock.copy = {} /\ Connected' = Connected
  BY <1>2 DEF IInv, LoopsOK, Connected, Locked, Erased
<1>4. TypeOK'
  BY <1>2 DEF IInv, TypeOK
<1>5. NotMadeYet' /\ LoopsOK'
  BY <1>1, <1>2 DEF IInv, NotMadeYet, LoopsOK, Locked, Erased
<1>6. AllExist' /\ RefsCounted'
  BY <1>2, <1>3 DEF IInv, AllExist, RefsCounted, Claims
<1>7. OpenersOK' /\ GoneHasNone'
  BY <1>3 DEF IInv, OpenersOK, OpenerOK, MakerOK, Finishing, GoneHasNone
<1> QED
  BY <1>4, <1>5, <1>6, <1>7 DEF IInv

\* A step of the socket thread at the node it has taken, or takes, out of vNodes, whose
\* reference is still there; of the nodes only grants may change.
LEMMA SockGrantInv ==
  ASSUME IInv, Locked, Connected' = Connected, vNodes' \subseteq vNodes,
         NEW pc \in {"test", "post", "clear", "drop"}, sock' = [sock EXCEPT !.pc = pc],
         First(sock.rest) \notin vNodes', sock.rest \ {First(sock.rest)} \subseteq vNodes',
         node' \in [Node -> CNodes], semOutbound' \in Nat,
         \A m \in Node : /\ node'[m].exists = node[m].exists
                         /\ node'[m].fInbound = node[m].fInbound
                         /\ node'[m].fNetworkNode = node[m].fNetworkNode
                         /\ node'[m].nRefCount = node[m].nRefCount
                         /\ node'[m].grantOutbound => node[m].grantOutbound,
         \A m \in Node : ~node[m].exists => node'[m] = node[m],
         UNCHANGED <<nLastNodeId, vNodesDisconnected, msg, opener, leaked, found>>
  PROVE  IInv'
<1>1. sock' \in Socks /\ sock'.pc = pc /\ sock'.copy = sock.copy /\ sock'.rest = sock.rest
  BY DEF IInv, TypeOK, Socks
<1>2. TypeOK'
  BY <1>1 DEF IInv, TypeOK
<1>3. NotMadeYet'
  BY <1>1, CNodeIs DEF IInv, NotMadeYet
<1>4. LoopsOK'
  BY <1>1 DEF IInv, LoopsOK, Locked, Erased
<1>5. AllExist'
  <2>1. Connected \cup vNodesDisconnected \cup sock.copy \cup msg.copy \subseteq Node
    BY LoopsType DEF IInv, TypeOK
  <2> QED
    BY <1>1, <2>1 DEF IInv, AllExist
<1>6. RefsCounted'
  BY <1>1 DEF IInv, RefsCounted, Claims
<1>7. OpenersOK'
  BY DEF IInv, OpenersOK, OpenerOK, MakerOK, Finishing
<1>8. GoneHasNone'
  BY DEF IInv, GoneHasNone
<1> QED
  BY <1>2, <1>3, <1>4, <1>5, <1>6, <1>7, <1>8 DEF IInv

\* A node leaves vNodes; its reference is still there.
LEMMA SockDisconnectInv ==
  ASSUME IInv, SockDisconnect
  PROVE  IInv'
<1> DEFINE n == First(sock.rest)
<1>1. /\ sock.pc = "disconnect"
      /\ UNCHANGED <<node, nLastNodeId, vNodesDisconnected, semOutbound, msg, opener, leaked, found>>
  BY DEF SockDisconnect, history
<1>2. CASE ~(node[n].fDisconnect \/ node[n].nRefCount <= 0)
  <2>1. sock' = Rest(sock.rest \ {n}) /\ UNCHANGED vNodes
    BY <1>2 DEF SockDisconnect
  <2> QED
    BY <1>1, <2>1, SockKeepInv
<1>3. CASE node[n].fDisconnect \/ node[n].nRefCount <= 0
  <2>1. vNodes' = vNodes \ {n} /\ sock' = [sock EXCEPT !.pc = "test"]
    BY <1>3 DEF SockDisconnect
  <2>2. Locked /\ n \in sock.rest /\ n \in Node /\ sock.rest \subseteq vNodes /\ n \in vNodes
    BY <1>1, LoopsType DEF IInv, LoopsOK, Locked
  <2>3. sock'.pc = "test" /\ sock'.rest = sock.rest
    BY <2>1 DEF IInv, TypeOK, Socks
  <2>4. First(sock'.rest) = n
    BY <2>3
  <2> HIDE DEF n
  <2>5. Connected' = Connected
    BY <1>1, <2>1, <2>2, <2>3, <2>4 DEF Connected, Erased
  <2>6. node' \in [Node -> CNodes] /\ semOutbound' \in Nat
    BY <1>1 DEF IInv, TypeOK
  <2> QED
    BY <1>1, <2>1, <2>2, <2>5, <2>6, SockGrantInv DEF n
<1> QED
  BY <1>2, <1>3

\* The grant of the node is tested, posted and cleared.
LEMMA SockReleaseGrantInv ==
  ASSUME IInv, SockTest \/ SockPost \/ SockClear
  PROVE  IInv'
<1> DEFINE n == First(sock.rest)
<1>1. /\ sock.pc \in {"test", "post", "clear"} /\ Locked /\ Erased
      /\ UNCHANGED <<nLastNodeId, vNodes, vNodesDisconnected, msg, opener, leaked, found>>
  BY DEF SockTest, SockPost, SockClear, Locked, Erased, history
<1>2. PICK pc \in {"post", "clear", "drop"} : sock' = [sock EXCEPT !.pc = pc]
  BY DEF SockTest, SockPost, SockClear
<1>3. sock'.pc = pc /\ sock'.rest = sock.rest
  BY <1>2 DEF IInv, TypeOK, Socks
<1>4. Connected' = Connected
  BY <1>1, <1>3 DEF Connected, Erased
<1>5. semOutbound' \in Nat
  BY DEF SockTest, SockPost, SockClear, IInv, TypeOK
<1>6. n \notin vNodes' /\ sock.rest \ {n} \subseteq vNodes' /\ n \in Node /\ node[n].exists
  BY <1>1, LoopsType DEF IInv, LoopsOK, AllExist, Connected
<1>7. CASE SockTest \/ SockPost
  <2>1. node' = node
    BY <1>7 DEF SockTest, SockPost
  <2> QED
    BY <1>1, <1>2, <1>4, <1>5, <1>6, <2>1, SockGrantInv DEF IInv, TypeOK
<1>8. CASE SockClear
  <2>1. node' = [node EXCEPT ![n].grantOutbound = FALSE]
    BY <1>8 DEF SockClear
  <2> HIDE DEF n
  <2>2. node[n] \in CNodes /\ FALSE \in BOOLEAN /\ 0 \in Int
    BY <1>6 DEF IInv, TypeOK
  <2>3. [node[n] EXCEPT !.grantOutbound = FALSE] \in CNodes
    BY <2>2, WriteNode, Zenon
  <2>4. /\ node' \in [Node -> CNodes]
        /\ node'[n] = [node[n] EXCEPT !.grantOutbound = FALSE]
        /\ \A m \in Node \ {n} : node'[m] = node[m]
    BY <1>6, <2>1, <2>3 DEF IInv, TypeOK
  <2>5. \A m \in Node : /\ node'[m].exists = node[m].exists
                        /\ node'[m].fInbound = node[m].fInbound
                        /\ node'[m].fNetworkNode = node[m].fNetworkNode
                        /\ node'[m].nRefCount = node[m].nRefCount
                        /\ node'[m].grantOutbound => node[m].grantOutbound
    BY <2>2, <2>4 DEF CNodes
  <2>6. \A m \in Node : ~node[m].exists => node'[m] = node[m]
    BY <1>6, <2>4
  <2> QED
    BY <1>1, <1>2, <1>4, <1>5, <1>6, <2>4, <2>5, <2>6, SockGrantInv DEF n
<1> QED
  BY <1>7, <1>8

\* The connection's reference is released or lost; the node waits to be deleted.
LEMMA SockDropInv ==
  ASSUME IInv, SockDrop
  PROVE  IInv'
<1> DEFINE n == First(sock.rest)
           own == node[n].fNetworkNode \/ node[n].fInbound
           S == sock.rest \ {n}
           d == IF own THEN node[n].nRefCount - 1 ELSE node[n].nRefCount
<1>1. /\ sock.pc = "drop"
      /\ node' = [node EXCEPT ![n].fDisconnect = TRUE, ![n].nRefCount = IF own THEN @ - 1 ELSE @]
      /\ vNodesDisconnected' = vNodesDisconnected \cup {n}
      /\ leaked' = IF own THEN leaked ELSE leaked \cup {n}
      /\ sock' = Rest(S)
      /\ UNCHANGED <<nLastNodeId, vNodes, semOutbound, msg, opener, found>>
  BY DEF SockDrop
<1>2. n \in Node /\ S \in SUBSET vNodes /\ n \notin vNodes /\ Erased
  BY <1>1, LoopsType DEF IInv, LoopsOK, Locked, Erased
<1>3. /\ sock' \in Socks /\ sock'.copy = {} /\ sock'.rest = S
      /\ sock'.pc = IF S = {} THEN "delete" ELSE "disconnect"
  BY <1>1, <1>2, RestOK
<1>4. sock.copy = {} /\ Connected' = vNodes /\ Connected = vNodes \cup {n}
  BY <1>1, <1>3 DEF IInv, LoopsOK, Connected, Erased
<1>5. node[n] \in CNodes /\ d \in Int /\ TRUE \in BOOLEAN
  BY <1>2 DEF IInv, TypeOK, CNodes
<1> HIDE DEF S
<1>6. /\ node'[n] = [node[n] EXCEPT !.fDisconnect = TRUE, !.nRefCount = d]
      /\ \A m \in Node \ {n} : node'[m] = node[m]
  BY <1>1, <1>2, <1>5 DEF IInv, TypeOK, CNodes
<1>7. [node[n] EXCEPT !.fDisconnect = TRUE, !.nRefCount = d] \in CNodes
  BY <1>5, WriteNode, Zenon
<1>8. node' \in [Node -> CNodes]
  BY <1>1, <1>2, <1>6, <1>7 DEF IInv, TypeOK
<1>9. /\ node'[n].nRefCount = d
      /\ \A m \in Node : /\ node'[m].exists = node[m].exists
                         /\ node'[m].fInbound = node[m].fInbound
                         /\ node'[m].fNetworkNode = node[m].fNetworkNode
                         /\ node'[m].grantOutbound = node[m].grantOutbound
  <2> DEFINE old == node[n]
  <2>1. old \in CNodes
    BY <1>5
  <2> HIDE DEF old, d
  <2>2. LET new == [old EXCEPT !.fDisconnect = TRUE, !.nRefCount = d] IN
        /\ new.nRefCount = d /\ new.exists = old.exists /\ new.fInbound = old.fInbound
        /\ new.fNetworkNode = old.fNetworkNode /\ new.grantOutbound = old.grantOutbound
    BY <2>1 DEF CNodes
  <2>3. node'[n] = [old EXCEPT !.fDisconnect = TRUE, !.nRefCount = d]
    BY <1>6 DEF old
  <2> QED
    BY <1>2, <1>6, <2>2, <2>3 DEF old
<1>10. leaked \subseteq leaked' /\ (own \/ n \in leaked') /\ (own => leaked' = leaked)
       /\ \A m \in Node \ {n} : m \in leaked' <=> m \in leaked
  BY <1>1
<1>11. own => d = node[n].nRefCount - 1
  OBVIOUS
<1>12. ~own => d = node[n].nRefCount
  OBVIOUS
<1> HIDE DEF n, d
<1>13. TypeOK'
  BY <1>1, <1>2, <1>3, <1>8 DEF IInv, TypeOK
<1>14. node[n].exists
  BY <1>4 DEF IInv, AllExist
<1>15. NotMadeYet'
  <2>1. ~(n > nLastNodeId)
    BY <1>2, <1>14, CNodeIs DEF IInv, NotMadeYet
  <2>2. ASSUME NEW m \in Node, m > nLastNodeId
        PROVE  m # n /\ node'[m] = NoCNode /\ m \notin leaked' \cup vNodesDisconnected'
    BY <1>1, <1>6, <1>10, <2>1, <2>2 DEF IInv, NotMadeYet
  <2> QED
    BY <1>1, <1>3, <2>2 DEF IInv, NotMadeYet
<1>16. LoopsOK'
  BY <1>1, <1>2, <1>3 DEF IInv, LoopsOK, Locked, Erased
<1>17. AllExist'
  <2>1. Connected \cup vNodesDisconnected \cup sock.copy \cup msg.copy \subseteq Node
    BY LoopsType DEF IInv, TypeOK
  <2>2. \A m \in Connected \cup vNodesDisconnected \cup {n} \cup msg.copy :
          m \in Node /\ node[m].exists
    BY <1>2, <1>14, <2>1 DEF IInv, AllExist
  <2>3. Connected' \cup vNodesDisconnected' \cup sock'.copy \cup msg'.copy
          \subseteq Connected \cup vNodesDisconnected \cup {n} \cup msg.copy
    BY <1>1, <1>3, <1>4
  <2> QED
    BY <1>9, <2>2, <2>3 DEF AllExist
<1>18. RefsCounted'
  <2> SUFFICES ASSUME NEW m \in Node, node'[m].exists
               PROVE  node'[m].nRefCount >= Claims(m)'
    BY DEF RefsCounted
  <2>1. node[m].nRefCount >= Claims(m) /\ node[m].nRefCount \in Int
    BY <1>9 DEF IInv, RefsCounted, TypeOK, CNodes
  <2>2. Claims(m) \in Int /\ Claims(m)' \in Int
    BY DEF Claims, In
  <2>3. CASE m # n
    <3>1. Claims(m)' = Claims(m)
      BY <1>1, <1>3, <1>4, <1>10, <2>3 DEF Claims, In
    <3> QED
      BY <1>6, <2>1, <2>3, <3>1
  <2>4. CASE m = n /\ own
    <3>1. Claims(m)' = Claims(m) - 1
      BY <1>1, <1>2, <1>3, <1>4, <1>10, <2>4 DEF Claims, In
    <3> QED
      BY <1>9, <1>11, <2>1, <2>2, <2>4, <3>1
  <2>5. CASE m = n /\ ~own
    <3>1. Claims(m)' <= Claims(m)
      BY <1>1, <1>2, <1>3, <1>4, <2>5 DEF Claims, In
    <3> QED
      BY <1>9, <1>12, <2>1, <2>2, <2>5, <3>1
  <2> QED
    BY <2>3, <2>4, <2>5
<1>19. ASSUME NEW p \in Opener
       PROVE  OpenerOK(p)'
  <2>1. OpenerOK(p) /\ (opener[p].made => opener[p].pnode \in Node)
    BY DEF IInv, OpenersOK, OpenerOK
  <2>2. opener[p].made /\ MakerOK(p) => opener[p].pnode \in Connected' \cup leaked' \cup found
    <3>1. SUFFICES ASSUME opener[p].made, MakerOK(p), opener[p].pnode \notin leaked' \cup found
                   PROVE  opener[p].pnode \in Connected'
      OBVIOUS
    <3>2. opener[p].pnode \in Connected \cup leaked
      BY <3>1 DEF MakerOK
    <3> QED
      BY <1>4, <1>10, <3>1, <3>2 DEF MakerOK
  <2>3. /\ opener' = opener /\ Finishing(p)' = Finishing(p) /\ found' = found
        /\ \A m \in Node : /\ node'[m].exists = node[m].exists
                           /\ node'[m].fInbound = node[m].fInbound
                           /\ node'[m].fNetworkNode = node[m].fNetworkNode
                           /\ node'[m].grantOutbound = node[m].grantOutbound
    BY <1>1, <1>9 DEF Finishing
  <2> HIDE DEF own
  <2>4. opener[p].made /\ MakerOK(p) => MakerOK(p)'
    BY <2>1, <2>2, <2>3 DEF MakerOK
  <2> QED
    BY <2>1, <2>3, <2>4 DEF OpenerOK
<1>20. OpenersOK'
  BY <1>19 DEF OpenersOK
<1>21. GoneHasNone'
  BY <1>1, <1>9, <1>10 DEF IInv, GoneHasNone
<1> QED
  BY <1>13, <1>15, <1>16, <1>17, <1>18, <1>20, <1>21 DEF IInv

\* A node without references is nobody's.
LEMMA Unclaimed ==
  ASSUME IInv, NEW n \in Node, node[n].exists, node[n].nRefCount <= 0
  PROVE  n \notin Connected \cup sock.copy \cup msg.copy \cup leaked \cup found
<1>1. node[n].nRefCount >= Claims(n)
  BY DEF IInv, RefsCounted
<1>2. node[n].nRefCount \in Int /\ Claims(n) \in Int
  BY DEF IInv, TypeOK, CNodes, Claims, In
<1>3. Claims(n) <= 0
  BY <1>1, <1>2
<1> QED
  BY <1>3 DEF Claims, In

\* Only nodes that nobody has a claim on are deleted.
LEMMA SockDeleteInv ==
  ASSUME IInv, SockDelete
  PROVE  IInv'
<1> DEFINE unused == {n \in vNodesDisconnected : node[n].nRefCount <= 0}
<1>1. /\ sock.pc = "delete" /\ vNodesDisconnected' = vNodesDisconnected \ unused
      /\ semOutbound' = semOutbound + Cardinality({n \in unused : node[n].grantOutbound})
      /\ node' = [n \in Node |-> IF n \in unused THEN NoCNode ELSE node[n]]
      /\ sock' = [sock EXCEPT !.pc = "accept"]
      /\ UNCHANGED <<nLastNodeId, vNodes, msg, opener, leaked, found>>
  BY DEF SockDelete
<1>2. sock' \in Socks /\ sock'.pc = "accept" /\ sock'.copy = sock.copy /\ sock'.rest = sock.rest
  BY <1>1 DEF IInv, TypeOK, Socks
<1>3. Connected' = Connected
  BY <1>1, <1>2 DEF Connected, Erased
<1>4. \A n \in unused : n \in Node /\ n \in vNodesDisconnected /\ node[n].exists
  BY DEF IInv, TypeOK, AllExist
<1>5. ASSUME NEW n \in unused
      PROVE  n \notin Connected \cup sock.copy \cup msg.copy \cup leaked \cup found
  BY <1>4, Unclaimed
<1>6. semOutbound' \in Nat
  <2>1. IsFiniteSet(Node)
    BY NodeLifetimeAssumption, FS_Interval DEF Node
  <2>2. {n \in unused : node[n].grantOutbound} \subseteq Node
    BY <1>4
  <2>3. Cardinality({n \in unused : node[n].grantOutbound}) \in Nat
    BY <2>1, <2>2, FS_Subset, FS_CardinalityType
  <2> QED
    BY <1>1, <2>3 DEF IInv, TypeOK
<1>7. /\ \A n \in Node \ unused : node'[n] = node[n]
      /\ \A n \in unused : node'[n] = NoCNode
  BY <1>1, <1>4
<1>8. node' \in [Node -> CNodes]
  BY <1>1, CNodeIs DEF IInv, TypeOK
<1> HIDE DEF unused
<1>9. TypeOK'
  BY <1>1, <1>2, <1>6, <1>8 DEF IInv, TypeOK
<1>10. NotMadeYet'
  BY <1>1, <1>2, <1>7 DEF IInv, NotMadeYet
<1>11. LoopsOK'
  BY <1>1, <1>2 DEF IInv, LoopsOK, Locked, Erased
<1>12. AllExist'
  <2>1. Connected \cup vNodesDisconnected \cup sock.copy \cup msg.copy \subseteq Node
    BY LoopsType DEF IInv, TypeOK
  <2>2. \A n \in Connected \cup (vNodesDisconnected \ unused) \cup sock.copy \cup msg.copy :
          n \notin unused
    BY <1>5
  <2> QED
    BY <1>1, <1>2, <1>3, <1>7, <2>1, <2>2 DEF IInv, AllExist
<1>13. RefsCounted'
  BY <1>1, <1>2, <1>3, <1>7, CNodeIs DEF IInv, RefsCounted, Claims
<1>14. OpenersOK'
  <2> SUFFICES ASSUME NEW o \in Opener
               PROVE  OpenerOK(o)'
    BY DEF OpenersOK
  <2>1. OpenerOK(o)
    BY DEF IInv, OpenersOK
  <2>2. opener[o].made /\ MakerOK(o) => MakerOK(o)'
    <3>1. opener[o].made /\ MakerOK(o) => opener[o].pnode \in Node \ unused
      BY <1>5, <2>1 DEF OpenerOK, MakerOK
    <3> QED
      BY <1>1, <1>3, <1>7, <3>1 DEF MakerOK
  <2> QED
    BY <1>1, <2>1, <2>2 DEF OpenerOK, Finishing
<1>15. GoneHasNone'
  BY <1>1, <1>7, CNodeIs DEF IInv, GoneHasNone
<1> QED
  BY <1>9, <1>10, <1>11, <1>12, <1>13, <1>14, <1>15 DEF IInv

\* A node is made and joins vNodes.
LEMMA NewNode ==
  ASSUME IInv, NEW a \in Addr \cup {NoAddr}, NEW b \in BOOLEAN,
         nLastNodeId < MaxNodes, nLastNodeId' = nLastNodeId + 1,
         node' = [node EXCEPT ![nLastNodeId'] = CNode(a, b)],
         vNodes' = vNodes \cup {nLastNodeId'}, semOutbound' \in Nat,
         UNCHANGED <<vNodesDisconnected, msg, leaked, found>>,
         sock' \in Socks, ~Locked,
         sock' = sock \/ (sock.pc = "accept" /\ sock'.pc = "copy"), sock'.copy = sock.copy,
         opener' \in [Opener -> Openers],
         \A o \in Opener : opener'[o].pnode \in {opener[o].pnode, nLastNodeId'}
  PROVE  /\ TypeOK' /\ NotMadeYet' /\ LoopsOK' /\ AllExist' /\ RefsCounted' /\ GoneHasNone'
         /\ nLastNodeId' \in Node /\ nLastNodeId' \notin vNodes
         /\ \A o \in Opener : opener[o].pnode # nLastNodeId'
         /\ node'[nLastNodeId'] = CNode(a, b)
         /\ \A m \in Node \ {nLastNodeId'} : node'[m] = node[m]
         /\ Connected' = Connected \cup {nLastNodeId'}
<1> DEFINE n == nLastNodeId'
<1>1. n \in Node /\ n > nLastNodeId /\ n \in 0..MaxNodes /\ nLastNodeId \in Nat
  BY NodeLifetimeAssumption DEF IInv, TypeOK, Node
<1>2. /\ node[n] = NoCNode
      /\ n \notin vNodes \cup vNodesDisconnected \cup leaked \cup found \cup sock.copy \cup msg.copy
      /\ \A o \in Opener : opener[o].pnode # n
  BY <1>1 DEF IInv, NotMadeYet
<1>3. node'[n] = CNode(a, b) /\ \A m \in Node \ {n} : node'[m] = node[m]
  BY <1>1 DEF IInv, TypeOK
<1>4. CNode(a, b) \in CNodes /\ CNode(a, b).exists /\ CNode(a, b).nRefCount = 1
  BY CNodeIs
<1>5. node' \in [Node -> CNodes]
  BY <1>1, <1>4 DEF IInv, TypeOK
<1>6. TypeOK'
  BY <1>1, <1>5 DEF IInv, TypeOK
<1>7. NotMadeYet'
  <2>1. \A m \in Node : m > n => m > nLastNodeId /\ m # n
    BY <1>1 DEF Node
  <2>2. ASSUME NEW m \in Node, m > n
        PROVE  /\ node'[m] = NoCNode
               /\ m \notin vNodes' \cup vNodesDisconnected' \cup leaked' \cup found'
               /\ m \notin sock'.copy \cup msg'.copy
               /\ \A o \in Opener : opener'[o].pnode # m
    <3>1. /\ node[m] = NoCNode /\ m # n
          /\ m \notin vNodes \cup vNodesDisconnected \cup leaked \cup found \cup sock.copy \cup msg.copy
          /\ \A o \in Opener : opener[o].pnode # m
      BY <2>1, <2>2 DEF IInv, NotMadeYet
    <3> QED
      BY <1>3, <3>1
  <2> QED
    BY <2>2 DEF NotMadeYet
<1>8. LoopsOK' /\ Connected' = Connected \cup {n}
  <2>1. ~Locked' /\ ~Erased /\ ~Erased' /\ (sock'.pc # "service" => sock'.copy = {})
    BY DEF IInv, LoopsOK, Locked, Erased
  <2>2. msg'.pc = "top" => msg'.copy = {}
    BY DEF IInv, LoopsOK
  <2> QED
    BY <2>1, <2>2 DEF LoopsOK, Connected, Locked
<1>9. AllExist'
  <2>1. Connected \cup vNodesDisconnected \cup sock.copy \cup msg.copy \subseteq Node
    BY LoopsType DEF IInv, TypeOK
  <2>2. \A m \in Connected \cup vNodesDisconnected \cup sock.copy \cup msg.copy :
          m \in Node /\ node[m].exists
    BY <2>1 DEF IInv, AllExist
  <2>3. \A m \in Connected \cup vNodesDisconnected \cup sock.copy \cup msg.copy \cup {n} :
          node'[m].exists
    BY <1>3, <1>4, <2>2
  <2> QED
    BY <1>8, <2>3 DEF AllExist
<1>10. RefsCounted'
  <2> SUFFICES ASSUME NEW m \in Node, node'[m].exists
               PROVE  node'[m].nRefCount >= Claims(m)'
    BY DEF RefsCounted
  <2>1. CASE m = n
    <3>1. Claims(m)' = 1
      BY <1>2, <1>8, <2>1 DEF Claims, In
    <3> QED
      BY <1>3, <1>4, <2>1, <3>1
  <2>2. CASE m # n
    <3>1. Claims(m)' = Claims(m)
      BY <1>8, <2>2 DEF Claims, In
    <3> QED
      BY <1>3, <2>2, <3>1 DEF IInv, RefsCounted
  <2> QED
    BY <2>1, <2>2
<1>11. GoneHasNone'
  BY <1>3, <1>4 DEF IInv, GoneHasNone
<1> QED
  BY <1>1, <1>2, <1>3, <1>6, <1>7, <1>8, <1>9, <1>10, <1>11

\* The other threads do not notice.
LEMMA OthersOK ==
  ASSUME IInv, NEW n \in Node, \A o \in Opener : opener[o].pnode # n,
         \A m \in Node \ {n} : node'[m] = node[m], Connected' = Connected \cup {n},
         UNCHANGED <<leaked, found>>, NEW o \in Opener, opener'[o] = opener[o],
         \A p \in Opener : opener'[p] = opener[p] \/ opener'[p].pnode = n
  PROVE  OpenerOK(o)'
<1>1. OpenerOK(o)
  BY DEF IInv, OpenersOK
<1>2. opener[o].made => opener[o].pnode \in Node \ {n}
  BY <1>1 DEF OpenerOK
<1>3. opener[o].made => \A p \in Opener :
        opener'[p].made /\ opener'[p].pnode = opener[o].pnode => p = o
  BY <1>1, <1>2 DEF OpenerOK
<1>4. opener[o].made /\ MakerOK(o) => MakerOK(o)'
  BY <1>2 DEF MakerOK
<1> QED
  BY <1>1, <1>2, <1>3, <1>4 DEF OpenerOK, Finishing

\* An incoming connection takes no slot and is nobody's node.
LEMMA SockAcceptInv ==
  ASSUME IInv, SockAccept
  PROVE  IInv'
<1>1. /\ sock.pc = "accept" /\ sock' = [sock EXCEPT !.pc = "copy"]
      /\ UNCHANGED <<vNodesDisconnected, semOutbound, msg, opener, leaked, found>> /\ ~Locked
  BY DEF SockAccept, Locked, history
<1>2. sock' \in Socks /\ sock'.pc = "copy" /\ sock'.copy = sock.copy /\ sock'.rest = sock.rest
  BY <1>1 DEF IInv, TypeOK, Socks
<1>3. CASE UNCHANGED <<node, nLastNodeId, vNodes>>
  <2>1. LoopsOK' /\ Connected' = Connected
    BY <1>1, <1>2, <1>3 DEF IInv, LoopsOK, Connected, Locked, Erased
  <2>2. TypeOK' /\ NotMadeYet'
    BY <1>1, <1>2, <1>3 DEF IInv, TypeOK, NotMadeYet
  <2>3. AllExist' /\ RefsCounted'
    BY <1>1, <1>2, <1>3, <2>1 DEF IInv, AllExist, RefsCounted, Claims
  <2>4. OpenersOK' /\ GoneHasNone'
    BY <1>1, <1>3, <2>1 DEF IInv, OpenersOK, OpenerOK, MakerOK, Finishing, GoneHasNone
  <2> QED
    BY <2>1, <2>2, <2>3, <2>4 DEF IInv
<1>4. ASSUME NEW a \in Addr, nLastNodeId < MaxNodes, nLastNodeId' = nLastNodeId + 1,
             node' = [node EXCEPT ![nLastNodeId'] = CNode(a, TRUE)],
             vNodes' = vNodes \cup {nLastNodeId'}
      PROVE  IInv'
  <2> DEFINE n == nLastNodeId'
  <2>1. /\ semOutbound' \in Nat /\ opener' \in [Opener -> Openers] /\ TRUE \in BOOLEAN
        /\ \A o \in Opener : opener'[o].pnode \in {opener[o].pnode, n}
    BY <1>1 DEF IInv, TypeOK
  <2>2. /\ TypeOK' /\ NotMadeYet' /\ LoopsOK' /\ AllExist' /\ RefsCounted' /\ GoneHasNone'
        /\ n \in Node /\ \A o \in Opener : opener[o].pnode # n
        /\ node'[n] = CNode(a, TRUE) /\ \A m \in Node \ {n} : node'[m] = node[m]
        /\ Connected' = Connected \cup {n}
    BY <1>1, <1>2, <1>4, <2>1, NewNode
  <2>3. OpenersOK'
    BY <1>1, <2>2, OthersOK DEF OpenersOK
  <2> QED
    BY <2>2, <2>3 DEF IInv
<1> QED
  BY <1>3, <1>4 DEF SockAccept

\* addnode onetry: the connection is nobody's.
LEMMA OneTryInv ==
  ASSUME IInv, NEW a \in Addr, OneTry(a)
  PROVE  IInv'
<1> DEFINE n == nLastNodeId'
<1>1. /\ ~Locked /\ nLastNodeId < MaxNodes /\ nLastNodeId' = nLastNodeId + 1
      /\ node' = [node EXCEPT ![nLastNodeId'] = CNode(a, FALSE)]
      /\ vNodes' = vNodes \cup {nLastNodeId'}
      /\ UNCHANGED <<vNodesDisconnected, semOutbound, sock, msg, opener, leaked, found>>
  BY DEF OneTry, AddNode, history
<1>2. /\ semOutbound' \in Nat /\ opener' \in [Opener -> Openers] /\ FALSE \in BOOLEAN
      /\ \A o \in Opener : opener'[o].pnode \in {opener[o].pnode, n}
      /\ sock' \in Socks /\ sock'.copy = sock.copy
  BY <1>1 DEF IInv, TypeOK
<1>3. /\ TypeOK' /\ NotMadeYet' /\ LoopsOK' /\ AllExist' /\ RefsCounted' /\ GoneHasNone'
      /\ n \in Node /\ \A o \in Opener : opener[o].pnode # n
      /\ \A m \in Node \ {n} : node'[m] = node[m] /\ Connected' = Connected \cup {n}
  BY <1>1, <1>2, NewNode
<1>4. Connected' = Connected \cup {n}
  BY <1>1, <1>2, NewNode
<1>5. OpenersOK'
  BY <1>1, <1>3, <1>4, OthersOK DEF OpenersOK
<1> QED
  BY <1>3, <1>5 DEF IInv

\* An outgoing connection: its thread still has the grant that it will move to it.
LEMMA ConnectNodeInv ==
  ASSUME IInv, NEW o \in Opener, ConnectNode(o)
  PROVE  IInv'
<1>1. /\ opener[o].pc = "connect"
      /\ UNCHANGED <<vNodesDisconnected, sock, msg, leaked, found>>
  BY DEF ConnectNode, history
<1>2. CASE GiveUp(o) /\ UNCHANGED <<node, nLastNodeId, vNodes>>
  BY <1>1, <1>2, GiveUpInv
<1>3. ASSUME AddNode(opener[o].addr),
             Set(o, [opener[o] EXCEPT !.pc = "move", !.pnode = nLastNodeId', !.made = TRUE]),
             UNCHANGED semOutbound
      PROVE  IInv'
  <2> DEFINE n == nLastNodeId'
             a == opener[o].addr
             r == [opener[o] EXCEPT !.pc = "move", !.pnode = n, !.made = TRUE]
  <2>1. /\ ~Locked /\ nLastNodeId < MaxNodes /\ nLastNodeId' = nLastNodeId + 1
        /\ node' = [node EXCEPT ![nLastNodeId'] = CNode(opener[o].addr, FALSE)]
        /\ vNodes' = vNodes \cup {nLastNodeId'}
    BY <1>3 DEF AddNode
  <2>2. opener[o] \in Openers /\ opener[o].grant /\ n \in Node
    BY <1>1, <2>1, NodeLifetimeAssumption DEF IInv, TypeOK, OpenersOK, OpenerOK, Before, Node
  <2>3. r \in Openers /\ r.made /\ r.pc = "move" /\ r.grant /\ r.pnode = n
        /\ a \in Addr \cup {NoAddr}
    BY <2>2 DEF Openers, Moving
  <2>4. opener' = [opener EXCEPT ![o] = r]
    BY <1>3 DEF Set
  <2> HIDE DEF r, a
  <2>5. opener'[o] = r /\ \A p \in Opener \ {o} : opener'[p] = opener[p]
    BY <2>4 DEF IInv, TypeOK
  <2>6. /\ semOutbound' \in Nat /\ opener' \in [Opener -> Openers] /\ FALSE \in BOOLEAN
        /\ \A p \in Opener : opener'[p].pnode \in {opener[p].pnode, n}
        /\ sock' \in Socks /\ sock' = sock /\ sock'.copy = sock.copy
    BY <1>1, <1>3, <2>3, <2>4, <2>5 DEF IInv, TypeOK
  <2>7. node' = [node EXCEPT ![n] = CNode(a, FALSE)]
    BY <2>1 DEF a
  <2>8. /\ TypeOK' /\ NotMadeYet' /\ LoopsOK' /\ AllExist' /\ RefsCounted' /\ GoneHasNone'
        /\ \A p \in Opener : opener[p].pnode # n
        /\ node'[n] = CNode(a, FALSE) /\ \A m \in Node \ {n} : node'[m] = node[m]
        /\ Connected' = Connected \cup {n}
    BY <1>1, <2>1, <2>3, <2>6, <2>7, NewNode
  <2>9. /\ CNode(a, FALSE).exists /\ ~CNode(a, FALSE).fInbound /\ ~CNode(a, FALSE).fNetworkNode
        /\ ~CNode(a, FALSE).grantOutbound
    BY <2>3, CNodeIs
  <2> HIDE DEF n
  <2>10. ASSUME NEW p \in Opener
         PROVE  OpenerOK(p)'
    <3>1. CASE p = o
      <4>1. \A q \in Opener : opener'[q].pnode = n => q = o
        BY <2>5, <2>8
      <4>2. MakerOK(o)'
        BY <2>3, <2>5, <2>8, <2>9 DEF MakerOK
      <4> QED
        BY <2>2, <2>3, <2>5, <3>1, <4>1, <4>2 DEF OpenerOK, Finishing, Moving
    <3>2. CASE p # o
      BY <1>1, <2>2, <2>3, <2>5, <2>8, <3>2, OthersOK
    <3> QED
      BY <3>1, <3>2
  <2>11. OpenersOK'
    BY <2>10 DEF OpenersOK
  <2> QED
    BY <2>8, <2>11 DEF IInv
<1> QED
  BY <1>2, <1>3 DEF ConnectNode

\* A step of MoveTo at a node that exists or has been found; only its grant may change.
LEMMA MoveStepInv ==
  ASSUME IInv, NEW o \in Opener, opener[o].pc \in Moving,
         NEW pc \in Moving \cup {"mark"}, NEW g \in BOOLEAN, g <=> pc # "mark",
         opener' = [opener EXCEPT ![o] = [opener[o] EXCEPT !.pc = pc, !.grant = g]],
         node' \in [Node -> CNodes],
         \A m \in Node \ {opener[o].pnode} : node'[m] = node[m],
         \A m \in Node : /\ node'[m].exists = node[m].exists
                         /\ node'[m].fInbound = node[m].fInbound
                         /\ node'[m].fNetworkNode = node[m].fNetworkNode
                         /\ node'[m].nRefCount = node[m].nRefCount,
         node'[opener[o].pnode].grantOutbound => pc = "mark" \/ node[opener[o].pnode].grantOutbound,
         semOutbound' \in Nat,
         UNCHANGED <<nLastNodeId, vNodes, vNodesDisconnected, sock, msg, leaked, found>>
  PROVE  IInv'
<1> DEFINE n == opener[o].pnode
           r == [opener[o] EXCEPT !.pc = pc, !.grant = g]
<1>1. opener[o] \in Openers /\ n \in Node /\ (opener[o].made \/ n \in found)
  BY DEF IInv, TypeOK, OpenersOK, OpenerOK, Finishing
<1>2. r \in Openers /\ r.made = opener[o].made /\ r.pc = pc /\ r.grant = g /\ r.pnode = n
  BY <1>1 DEF Openers
<1>3. opener'[o] = r /\ \A p \in Opener \ {o} : opener'[p] = opener[p]
  BY DEF IInv, TypeOK
<1> HIDE DEF r
<1>4. TypeOK'
  <2>1. opener' \in [Opener -> Openers]
    BY <1>2 DEF IInv, TypeOK, r
  <2> QED
    BY <2>1 DEF IInv, TypeOK
<1>5. \A p \in Opener : opener'[p].pnode = opener[p].pnode /\ opener'[p].made = opener[p].made
  BY <1>2, <1>3
<1>6. NotMadeYet'
  BY <1>1, <1>5 DEF IInv, NotMadeYet
<1>7. LoopsOK' /\ Connected' = Connected
  BY DEF IInv, LoopsOK, Connected, Locked, Erased
<1>8. AllExist'
  <2>1. Connected \cup vNodesDisconnected \cup sock.copy \cup msg.copy \subseteq Node
    BY LoopsType DEF IInv, TypeOK
  <2> QED
    BY <1>7, <2>1 DEF IInv, AllExist
<1>9. RefsCounted'
  BY <1>7 DEF IInv, RefsCounted, Claims
<1>10. ASSUME NEW p \in Opener
       PROVE  OpenerOK(p)'
  <2>1. OpenerOK(p)
    BY DEF IInv, OpenersOK
  <2>2. opener[p].made => \A q \in Opener :
          opener'[q].made /\ opener'[q].pnode = opener[p].pnode => q = p
    BY <1>5, <2>1 DEF OpenerOK
  <2>3. CASE p = o
    <3>1. opener[p].made => MakerOK(p)'
      <4>1. "mark" \notin Moving
        BY DEF Moving
      <4>2. opener[p].made => MakerOK(p)
        BY <2>1, <2>3 DEF OpenerOK, Finishing
      <4> QED
        BY <1>1, <1>2, <1>3, <1>5, <1>7, <2>3, <4>1, <4>2 DEF MakerOK
    <3> QED
      BY <1>1, <1>2, <1>3, <1>5, <2>1, <2>2, <2>3, <3>1 DEF OpenerOK, Finishing, Before, Moving
  <2>4. CASE p # o
    <3>1. opener[p].made /\ MakerOK(p) => MakerOK(p)'
      <4>1. opener[p].made /\ opener[p].pnode = n => n \in found
        BY <1>1, <2>1, <2>4 DEF OpenerOK
      <4> QED
        BY <1>3, <1>7, <2>1, <2>4, <4>1 DEF OpenerOK, MakerOK
    <3> QED
      BY <1>3, <1>5, <2>1, <2>2, <2>4, <3>1 DEF OpenerOK, Finishing
  <2> QED
    BY <2>3, <2>4
<1>11. OpenersOK'
  BY <1>10 DEF OpenersOK
<1>12. GoneHasNone'
  <2>1. node[n].exists \/ n \in found
    BY <1>1 DEF IInv, OpenersOK, OpenerOK, MakerOK, Finishing
  <2> QED
    BY <2>1 DEF IInv, GoneHasNone
<1> QED
  BY <1>4, <1>6, <1>7, <1>8, <1>9, <1>11, <1>12 DEF IInv

\* A grant is tested, or posted.
LEMMA TestOrPostInv ==
  ASSUME IInv, NEW o \in Opener, TestGrant(o) \/ PostGrant(o)
  PROVE  IInv'
<1>1. PICK pc \in {"post", "give", "clear"} : opener' = [opener EXCEPT ![o] = [opener[o] EXCEPT !.pc = pc]]
  BY DEF TestGrant, PostGrant, Set
<1>2. /\ opener[o].pc \in Moving /\ pc \in Moving \cup {"mark"} /\ pc # "mark"
      /\ UNCHANGED <<node, nLastNodeId, vNodes, vNodesDisconnected, sock, msg, leaked, found>>
  BY DEF TestGrant, PostGrant, Moving, history
<1>3. opener[o] \in Openers /\ opener[o].grant = TRUE /\ semOutbound' \in Nat
  BY <1>2 DEF TestGrant, PostGrant, IInv, TypeOK, OpenersOK, OpenerOK, Openers
<1>4. opener' = [opener EXCEPT ![o] = [opener[o] EXCEPT !.pc = pc, !.grant = TRUE]]
  <2> DEFINE c == opener[o]
  <2>1. c \in Openers /\ c.grant = TRUE
    BY <1>3
  <2> HIDE DEF c
  <2>2. [c EXCEPT !.pc = pc] = [c EXCEPT !.pc = pc, !.grant = TRUE]
    BY <2>1 DEF Openers
  <2> QED
    BY <1>1, <2>2 DEF c
<1> QED
  BY <1>2, <1>3, <1>4, MoveStepInv DEF IInv, TypeOK

\* A write to fHaveGrant of a node changes nothing else.
LEMMA WriteGrant ==
  ASSUME IInv, NEW n \in Node, NEW b \in BOOLEAN, node' = [node EXCEPT ![n].grantOutbound = b]
  PROVE  /\ node' \in [Node -> CNodes] /\ node'[n].grantOutbound = b
         /\ \A m \in Node \ {n} : node'[m] = node[m]
         /\ \A m \in Node : /\ node'[m].exists = node[m].exists
                            /\ node'[m].fInbound = node[m].fInbound
                            /\ node'[m].fNetworkNode = node[m].fNetworkNode
                            /\ node'[m].nRefCount = node[m].nRefCount
<1>1. node[n] \in CNodes /\ 0 \in Int
  BY DEF IInv, TypeOK
<1>2. [node[n] EXCEPT !.grantOutbound = b] \in CNodes
  BY <1>1, WriteNode, Zenon
<1>3. /\ node' \in [Node -> CNodes]
      /\ node'[n] = [node[n] EXCEPT !.grantOutbound = b]
      /\ \A m \in Node \ {n} : node'[m] = node[m]
  BY <1>2 DEF IInv, TypeOK
<1> QED
  BY <1>1, <1>3 DEF CNodes

\* MoveTo clears the grant it has posted.
LEMMA ClearGrantInv ==
  ASSUME IInv, NEW o \in Opener, ClearGrant(o)
  PROVE  IInv'
<1> DEFINE n == opener[o].pnode
<1>1. /\ opener[o].pc \in Moving /\ "give" \in Moving \cup {"mark"}
      /\ opener' = [opener EXCEPT ![o] = [opener[o] EXCEPT !.pc = "give"]]
      /\ node' = [node EXCEPT ![n].grantOutbound = FALSE]
      /\ UNCHANGED <<nLastNodeId, vNodes, vNodesDisconnected, semOutbound, sock, msg, leaked, found>>
  BY DEF ClearGrant, Set, Moving, history
<1>2. opener[o] \in Openers /\ opener[o].grant = TRUE /\ semOutbound' \in Nat /\ n \in Node
  BY <1>1 DEF IInv, TypeOK, OpenersOK, OpenerOK, Openers, Finishing
<1>3. opener' = [opener EXCEPT ![o] = [opener[o] EXCEPT !.pc = "give", !.grant = TRUE]]
  <2> DEFINE c == opener[o]
  <2>1. c \in Openers /\ c.grant = TRUE
    BY <1>2
  <2> HIDE DEF c
  <2>2. [c EXCEPT !.pc = "give"] = [c EXCEPT !.pc = "give", !.grant = TRUE]
    BY <2>1 DEF Openers
  <2> QED
    BY <1>1, <2>2 DEF c
<1>4. /\ node' \in [Node -> CNodes] /\ node'[n].grantOutbound = FALSE
      /\ \A m \in Node \ {n} : node'[m] = node[m]
      /\ \A m \in Node : /\ node'[m].exists = node[m].exists
                         /\ node'[m].fInbound = node[m].fInbound
                         /\ node'[m].fNetworkNode = node[m].fNetworkNode
                         /\ node'[m].nRefCount = node[m].nRefCount
  BY <1>1, <1>2, WriteGrant
<1>5. PICK pc \in Moving \cup {"mark"}, g \in BOOLEAN :
        /\ g <=> pc # "mark"
        /\ opener' = [opener EXCEPT ![o] = [opener[o] EXCEPT !.pc = pc, !.grant = g]]
  BY <1>1, <1>3, Zenon
<1>6. /\ opener[o].pc \in Moving /\ semOutbound' \in Nat
      /\ node'[n].grantOutbound => pc = "mark" \/ node[n].grantOutbound
      /\ UNCHANGED <<nLastNodeId, vNodes, vNodesDisconnected, sock, msg, leaked, found>>
  BY <1>1, <1>2, <1>4
<1> QED
  BY <1>4, <1>5, <1>6, MoveStepInv, Zenon

\* The grant moves to a node that exists or has been found.
LEMMA MoveGrantInv ==
  ASSUME IInv, NEW o \in Opener, MoveGrant(o)
  PROVE  IInv'
<1> DEFINE n == opener[o].pnode
<1>1. /\ opener[o].pc \in Moving /\ "mark" \in Moving \cup {"mark"}
      /\ opener' = [opener EXCEPT ![o] = [opener[o] EXCEPT !.pc = "mark", !.grant = FALSE]]
      /\ node' = [node EXCEPT ![n].grantOutbound = TRUE]
      /\ UNCHANGED <<nLastNodeId, vNodes, vNodesDisconnected, semOutbound, sock, msg, leaked, found>>
  BY DEF MoveGrant, Set, Moving, history
<1>2. semOutbound' \in Nat /\ n \in Node
  BY <1>1 DEF IInv, TypeOK, OpenersOK, OpenerOK, Finishing
<1>3. /\ node' \in [Node -> CNodes]
      /\ \A m \in Node \ {n} : node'[m] = node[m]
      /\ \A m \in Node : /\ node'[m].exists = node[m].exists
                         /\ node'[m].fInbound = node[m].fInbound
                         /\ node'[m].fNetworkNode = node[m].fNetworkNode
                         /\ node'[m].nRefCount = node[m].nRefCount
  BY <1>1, <1>2, WriteGrant
<1> QED
  BY <1>1, <1>2, <1>3, MoveStepInv

\* A node is marked outbound by the thread that made it, or has been found.
LEMMA MarkOutboundInv ==
  ASSUME IInv, NEW o \in Opener, MarkOutbound(o)
  PROVE  IInv'
<1> DEFINE n == opener[o].pnode
           r == IF opener[o].fOneShot THEN [opener[o] EXCEPT !.pc = "oneshot"] ELSE Waiting
<1>1. /\ opener[o].pc = "mark"
      /\ node' = [node EXCEPT ![n].fNetworkNode = TRUE]
      /\ opener' = [opener EXCEPT ![o] = r]
      /\ UNCHANGED <<nLastNodeId, vNodes, vNodesDisconnected, semOutbound, sock, msg, leaked, found>>
  BY DEF MarkOutbound, Set, history
<1>2. opener[o] \in Openers /\ n \in Node /\ (opener[o].made \/ n \in found) /\ ~opener[o].grant
  BY <1>1 DEF IInv, TypeOK, OpenersOK, OpenerOK, Finishing, Before, Moving
<1>3. /\ r \in Openers /\ r.pc \in {"wait", "oneshot"} /\ ~r.grant
      /\ r.pnode \in {NoNode, n} /\ (r.made => r.pc = "oneshot" /\ opener[o].made /\ r.pnode = n)
  <2>1. CASE opener[o].fOneShot
    BY <1>2, <2>1 DEF Openers
  <2>2. CASE ~opener[o].fOneShot
    BY <2>2, WaitingIs
  <2> QED
    BY <2>1, <2>2
<1> HIDE DEF r
<1>4. opener'[o] = r /\ \A p \in Opener \ {o} : opener'[p] = opener[p]
  BY <1>1 DEF IInv, TypeOK
<1>5. node[n] \in CNodes /\ TRUE \in BOOLEAN /\ 0 \in Int
  BY <1>2 DEF IInv, TypeOK
<1>6. /\ node'[n] = [node[n] EXCEPT !.fNetworkNode = TRUE]
      /\ \A m \in Node \ {n} : node'[m] = node[m]
  BY <1>1, <1>2 DEF IInv, TypeOK
<1>7. \A m \in Node : /\ node'[m].exists = node[m].exists
                      /\ node'[m].fInbound = node[m].fInbound
                      /\ node'[m].grantOutbound = node[m].grantOutbound
                      /\ node'[m].nRefCount = node[m].nRefCount
  BY <1>5, <1>6 DEF CNodes
<1>8. TypeOK'
  <2>1. [node[n] EXCEPT !.fNetworkNode = TRUE] \in CNodes
    BY <1>5, WriteNode, Zenon
  <2>2. node' \in [Node -> CNodes]
    BY <1>1, <2>1 DEF IInv, TypeOK
  <2> QED
    BY <1>1, <1>3, <2>2 DEF IInv, TypeOK
<1>9. NotMadeYet'
  <2>1. ~(n > nLastNodeId)
    BY <1>2 DEF IInv, NotMadeYet
  <2>2. \A m \in Node : m # NoNode
    BY DEF Node, NoNode
  <2> HIDE DEF n
  <2>3. ASSUME NEW m \in Node, m > nLastNodeId
        PROVE  /\ node'[m] = NoCNode
               /\ \A p \in Opener : opener'[p].pnode # m
    <3>1. m # n /\ node[m] = NoCNode /\ m # NoNode
      BY <2>1, <2>2, <2>3 DEF IInv, NotMadeYet
    <3>2. \A p \in Opener : opener[p].pnode # m
      BY <2>3 DEF IInv, NotMadeYet
    <3> QED
      BY <1>3, <1>4, <1>6, <3>1, <3>2
  <2> QED
    BY <1>1, <2>3 DEF IInv, NotMadeYet
<1>10. LoopsOK' /\ Connected' = Connected
  BY <1>1 DEF IInv, LoopsOK, Connected, Locked, Erased
<1>11. AllExist'
  <2>1. Connected \cup vNodesDisconnected \cup sock.copy \cup msg.copy \subseteq Node
    BY LoopsType DEF IInv, TypeOK
  <2> QED
    BY <1>1, <1>7, <1>10, <2>1 DEF IInv, AllExist
<1>12. RefsCounted'
  BY <1>1, <1>7, <1>10 DEF IInv, RefsCounted, Claims
<1>13. ASSUME NEW p \in Opener
       PROVE  OpenerOK(p)'
  <2>1. OpenerOK(p)
    BY DEF IInv, OpenersOK
  <2>2. \A q \in Opener :
          opener'[q].made => opener[q].made /\ opener'[q].pnode = opener[q].pnode
    BY <1>3, <1>4
  <2>3. opener[p].made => \A q \in Opener :
          opener'[q].made /\ opener'[q].pnode = opener[p].pnode => q = p
    BY <2>1, <2>2 DEF OpenerOK
  <2>4. CASE p = o
    BY <1>2, <1>3, <1>4, <2>2, <2>3, <2>4 DEF OpenerOK, Finishing, Before, Moving
  <2>5. CASE p # o
    <3>1. opener[p].made /\ opener[p].pnode = n => n \in found
      BY <1>2, <2>1, <2>5 DEF OpenerOK
    <3> HIDE DEF n
    <3>2. opener[p].made /\ MakerOK(p) => MakerOK(p)'
      BY <1>1, <1>4, <1>6, <1>7, <1>10, <2>1, <2>5, <3>1 DEF OpenerOK, MakerOK
    <3> QED
      BY <1>1, <1>4, <2>1, <2>3, <2>5, <3>2 DEF OpenerOK, Finishing
  <2> QED
    BY <2>4, <2>5
<1>14. OpenersOK'
  BY <1>13 DEF OpenersOK
<1>15. GoneHasNone'
  BY <1>1, <1>7 DEF IInv, GoneHasNone
<1> QED
  BY <1>8, <1>9, <1>10, <1>11, <1>12, <1>14, <1>15 DEF IInv

\* Every step keeps the invariant.
LEMMA NextInv == IInv /\ [Next]_vars => IInv'
<1> SUFFICES ASSUME IInv, [Next]_vars
             PROVE  IInv'
  OBVIOUS
<1>1. CASE SocketThread
  <2>1. ASSUME NEW n \in Node, SockService(n)
        PROVE  IInv'
    BY <2>1, ServiceInv
  <2> QED
    BY <1>1, <2>1, SockLockInv, SockDisconnectInv, SockReleaseGrantInv, SockDropInv,
       SockDeleteInv, SockAcceptInv, SockCopyInv, SockReleaseInv DEF SocketThread
<1>2. CASE MessageThread
  <2>1. ASSUME NEW n \in Node, MsgPoll(n)
        PROVE  IInv'
    BY <2>1, ServiceInv
  <2> QED
    BY <1>2, <2>1, MsgCopyInv, MsgReleaseInv DEF MessageThread
<1>3. ASSUME NEW o \in Opener, OpenThread(o)
      PROVE  IInv'
  BY <1>3, AcquireInv, OpenByNameInv, FindExistingInv, AddRefExistingInv, ConnectNodeInv,
     TestOrPostInv, ClearGrantInv, MoveGrantInv, MarkOutboundInv, MarkOneShotInv,
     OpenNetworkConnectionInv DEF OpenThread
<1>4. CASE \E a \in Addr : OneTry(a)
  BY <1>4, OneTryInv
<1>5. CASE UNCHANGED vars
  <2>1. UNCHANGED <<node, nLastNodeId, vNodes, vNodesDisconnected, semOutbound, sock, msg,
                    opener, leaked, found>>
    BY <1>5 DEF vars, history
  <2>2. Connected' = Connected
    BY <2>1 DEF Connected, Erased
  <2> QED
    BY <2>1, <2>2 DEF IInv, TypeOK, NotMadeYet, LoopsOK, Locked, Erased, AllExist, RefsCounted,
       Claims, OpenersOK, OpenerOK, MakerOK, Finishing, GoneHasNone
<1> QED
  BY <1>1, <1>2, <1>3, <1>4, <1>5 DEF Next

\* The invariant holds in every reachable state.
LEMMA Invariant == Spec => []IInv
<1> QED
  BY InitInv, NextInv, PTL DEF Spec

(* The reference count of a node that exists is never less than the claims *)
(* on it, each counted once: that of the connection, those of the copies   *)
(* of the socket and the message thread, and the one lost when the node    *)
(* was dropped too early (AddRef, Release; one message thread, as the code *)
(* has it, for every number of nodes and of threads that open              *)
(* connections).  Nodes that ConnectNode has found are left out, because   *)
(* their AddRef is made without cs_vNodes.                                 *)
THEOREM ReferencesCounted ==
  Spec => []/\ TypeOK
            /\ \A n \in Node \ found : node[n].exists => node[n].nRefCount >= Claims(n)
<1>1. IInv => /\ TypeOK
              /\ \A n \in Node \ found : node[n].exists => node[n].nRefCount >= Claims(n)
  BY DEF IInv, RefsCounted
<1> QED
  BY <1>1, Invariant, PTL

(* Of the nodes that ConnectNode has not found, none is deleted that is in *)
(* vNodes, in the disconnected pool, in a copy of the socket or message    *)
(* thread, or with the thread that has made it, up to its write of         *)
(* fNetworkNode (ThreadSocketHandler, ThreadMessageHandler, ConnectNode).  *)
THEOREM NodesInUseNotDeleted == Spec => []NodesInUseExist
<1>1. IInv => NodesInUseExist
  BY DEF IInv, AllExist, Connected, OpenersOK, OpenerOK, MakerOK, NodesInUseExist
<1> QED
  BY <1>1, Invariant, PTL

-----------------------------------------------------------------------------
(* The grants of semOutbound *)

\* The threads in the grant of a node.
SockAt(n) == sock.pc \in {"post", "clear"} /\ First(sock.rest) = n
OpenerAt(o, n) == opener[o].pnode = n /\ opener[o].pc \in {"post", "clear", "give"}

GrantOK(n) ==
  /\ SockAt(n) => node[n].grantOutbound
  /\ \A o \in Opener : OpenerAt(o, n) =>
       /\ ~SockAt(n)
       /\ \A p \in Opener : OpenerAt(p, n) => p = o
       /\ node[n].grantOutbound <=> opener[o].pc # "give"

Holding == {o \in Opener : opener[o].grant}
Granted == {n \in Node : HasGrant(n)}
GrantsCounted == semOutbound + Cardinality(Holding) + Cardinality(Granted) = nMaxOutbound

\* The node counts as an outbound connection, or will.
Wanted(n) ==
  \/ node[n].fNetworkNode
  \/ \E o \in Opener : opener[o].pnode = n /\ (Finishing(o) \/ opener[o].pc = "oneshot")
Promised(n) == \E o \in Opener : opener[o].pnode = n /\ opener[o].pc \in Moving
SlotsHeld == \A n \in vNodes : Wanted(n) => HasGrant(n) \/ Promised(n)

GInv ==
  /\ contended \subseteq found
  /\ \A n \in Node \ contended : GrantOK(n)
  /\ contended = {} => GrantsCounted /\ SlotsHeld

\* There are finitely many grants out.
LEMMA GrantsFinite ==
  /\ IsFiniteSet(Holding) /\ IsFiniteSet(Granted)
  /\ Cardinality(Holding) \in Nat /\ Cardinality(Granted) \in Nat
<1>1. IsFiniteSet(Node) /\ IsFiniteSet(Opener)
  BY NodeLifetimeAssumption, FS_Interval DEF Node
<1>2. Holding \in SUBSET Opener /\ Granted \in SUBSET Node
  BY DEF Holding, Granted
<1>3. IsFiniteSet(Holding) /\ IsFiniteSet(Granted)
  BY <1>1, <1>2, FS_Subset
<1> QED
  BY <1>3, FS_CardinalityType

\* Initially all are free.
LEMMA InitGrants == Init => GInv
<1> SUFFICES ASSUME Init
             PROVE  GInv
  OBVIOUS
<1>1. Holding = {}
  BY DEF Init, Holding, Waiting
<1>2. Granted = {}
  BY CNodeIs DEF Init, Granted, HasGrant
<1>3. GrantsCounted
  BY <1>1, <1>2, FS_EmptySet, NodeLifetimeAssumption DEF Init, GrantsCounted
<1>4. SlotsHeld /\ \A n \in Node : GrantOK(n)
  BY DEF Init, SlotsHeld, GrantOK, SockAt, OpenerAt, Waiting
<1> QED
  BY <1>3, <1>4 DEF Init, GInv

\* A node that ConnectNode has not found is its maker's alone, and has no grant before the
\* maker has given it one.
LEMMA MakersAlone ==
  ASSUME IInv, NEW o \in Opener, Finishing(o), opener[o].pnode \notin found
  PROVE  /\ opener[o].pnode \in Connected \cup leaked
         /\ opener[o].pc \in Moving => ~node[opener[o].pnode].grantOutbound
         /\ \A p \in Opener : Finishing(p) /\ opener[p].pnode = opener[o].pnode => p = o
<1>1. OpenerOK(o) /\ opener[o].made /\ MakerOK(o)
  BY DEF IInv, OpenersOK, OpenerOK
<1>2. \A p \in Opener : Finishing(p) /\ opener[p].pnode = opener[o].pnode => opener[p].made
  BY DEF IInv, OpenersOK, OpenerOK
<1> QED
  BY <1>1, <1>2 DEF OpenerOK, MakerOK

\* A step outside MoveTo and Release.
QuietThreads ==
  /\ \A m \in Node : node'[m].grantOutbound = node[m].grantOutbound
  /\ sock' = sock \/ (sock.pc \notin {"post", "clear"} /\ sock'.pc \notin {"post", "clear"})
  /\ \A o \in Opener : opener[o].pc \in Moving \/ opener'[o].pc \in {"post", "clear", "give"} =>
       opener'[o].pc = opener[o].pc /\ opener'[o].pnode = opener[o].pnode

\* It keeps the invariant if the grants it takes and gives back balance.
LEMMA QuietInv ==
  ASSUME GInv, QuietThreads, contended' = contended, found \subseteq found',
         vNodes' \subseteq Node,
         \A n \in vNodes' : Wanted(n)' => (n \in vNodes /\ Wanted(n)) \/ Promised(n)',
         semOutbound' + Cardinality(Holding') = semOutbound + Cardinality(Holding),
         semOutbound \in Nat, semOutbound' \in Nat, Cardinality(Holding') \in Nat
  PROVE  GInv'
<1>1. \A n \in Node : SockAt(n)' = SockAt(n)
  BY DEF QuietThreads, SockAt
<1>2. \A o \in Opener, n \in Node : OpenerAt(o, n)' = OpenerAt(o, n)
  BY DEF QuietThreads, OpenerAt, Moving
<1>3. \A n \in Node : Posted(n)' = Posted(n)
  BY DEF QuietThreads, Posted, Moving
<1>4. \A n \in Node : HasGrant(n)' = HasGrant(n)
  BY <1>3 DEF QuietThreads, HasGrant
<1>5. ASSUME NEW n \in Node, GrantOK(n)
      PROVE  GrantOK(n)'
  <2>1. \A o \in Opener : OpenerAt(o, n) => opener'[o].pc = opener[o].pc
    BY DEF QuietThreads, OpenerAt, Moving
  <2> QED
    BY <1>1, <1>2, <1>5, <2>1 DEF QuietThreads, GrantOK
<1>6. contended = {} => GrantsCounted'
  <2>1. Granted' = Granted
    BY <1>4 DEF Granted
  <2>2. Cardinality(Holding) \in Nat /\ Cardinality(Granted) \in Nat
    BY GrantsFinite
  <2> QED
    BY <2>1, <2>2 DEF GInv, GrantsCounted
<1>7. contended = {} => SlotsHeld'
  <2> SUFFICES ASSUME contended = {}, NEW n \in vNodes', Wanted(n)'
               PROVE  HasGrant(n)' \/ Promised(n)'
    BY DEF SlotsHeld
  <2>1. CASE n \in vNodes /\ Wanted(n)
    <3>1. HasGrant(n) \/ Promised(n)
      BY <2>1 DEF GInv, SlotsHeld
    <3>2. Promised(n) => Promised(n)'
      BY DEF Promised, QuietThreads
    <3> QED
      BY <1>4, <3>1, <3>2
  <2> QED
    BY <2>1
<1> QED
  BY <1>5, <1>6, <1>7 DEF GInv

\* A step of the socket or message thread outside Release, or of addnode onetry.
LEMMA ThreadQuiet ==
  ASSUME IInv, GInv, UNCHANGED <<opener, semOutbound, found, contended>>, vNodes' \subseteq Node,
         sock' = sock \/ (sock.pc \notin {"post", "clear"} /\ sock'.pc \notin {"post", "clear"}),
         \A m \in Node : node'[m].grantOutbound = node[m].grantOutbound,
         \A m \in vNodes : node'[m].fNetworkNode = node[m].fNetworkNode,
         \A m \in vNodes' \ vNodes :
            ~node'[m].fNetworkNode /\ \A o \in Opener : opener[o].pnode # m
  PROVE  GInv'
<1>1. QuietThreads
  BY DEF QuietThreads
<1>2. \A n \in vNodes' : Wanted(n)' => n \in vNodes /\ Wanted(n)
  BY DEF Wanted, Finishing
<1>3. Holding' = Holding
  BY DEF Holding
<1>4. semOutbound \in Nat /\ Cardinality(Holding) \in Nat
  BY GrantsFinite DEF IInv, TypeOK
<1> QED
  BY <1>1, <1>2, <1>3, <1>4, QuietInv

\* Nodes keep their grants and marks.
LEMMA SameMarks ==
  ASSUME IInv, \/ \E n \in Node : node' = [node EXCEPT ![n].fDisconnect = TRUE]
               \/ node' = node
               \/ \E S \in SUBSET Node, d \in {1, -1} : node' = Ref(S, d)
  PROVE  \A m \in Node : /\ node'[m].grantOutbound = node[m].grantOutbound
                         /\ node'[m].fNetworkNode = node[m].fNetworkNode
<1>1. ASSUME NEW n \in Node, node' = [node EXCEPT ![n].fDisconnect = TRUE]
      PROVE  \A m \in Node : /\ node'[m].grantOutbound = node[m].grantOutbound
                             /\ node'[m].fNetworkNode = node[m].fNetworkNode
  BY <1>1 DEF IInv, TypeOK, CNodes
<1>2. ASSUME NEW S \in SUBSET Node, NEW d \in {1, -1}, node' = Ref(S, d)
      PROVE  \A m \in Node : /\ node'[m].grantOutbound = node[m].grantOutbound
                             /\ node'[m].fNetworkNode = node[m].fNetworkNode
  <2>1. d \in Int
    OBVIOUS
  <2> QED
    BY <1>2, <2>1, RefOK DEF IInv
<1> QED
  BY <1>1, <1>2

\* The steps of the two threads that leave the nodes' grants alone.
LEMMA SockQuiet ==
  ASSUME IInv, GInv, \/ SockLock \/ SockDisconnect \/ SockCopy \/ SockRelease
                     \/ MessageThread \/ \E n \in Node : SockService(n)
  PROVE  GInv'
<1>1. UNCHANGED <<opener, semOutbound, found, contended>> /\ vNodes' \subseteq vNodes
  BY DEF SockLock, SockDisconnect, SockCopy, SockRelease, MessageThread, MsgCopy, MsgRelease,
         MsgPoll, SockService, history
<1>2. sock \in Socks /\ vNodes \subseteq Node
  BY DEF IInv, TypeOK
<1>3. sock' = sock \/ (sock.pc \notin {"post", "clear"} /\ sock'.pc \notin {"post", "clear"})
  BY <1>2 DEF SockLock, SockDisconnect, SockCopy, SockRelease, MessageThread, MsgCopy, MsgRelease,
         MsgPoll, SockService, Rest, Socks
<1>4. \/ \E n \in Node : node' = [node EXCEPT ![n].fDisconnect = TRUE]
      \/ node' = node
      \/ \E S \in SUBSET Node, d \in {1, -1} : node' = Ref(S, d)
  <2>1. sock.copy \in SUBSET Node /\ msg.copy \in SUBSET Node /\ vNodes \in SUBSET Node
    BY DEF IInv, TypeOK, Socks, Msgs
  <2> QED
    BY <2>1 DEF SockLock, SockDisconnect, SockCopy, SockRelease, MessageThread, MsgCopy,
            MsgRelease, MsgPoll, SockService
<1>5. \A m \in Node : /\ node'[m].grantOutbound = node[m].grantOutbound
                      /\ node'[m].fNetworkNode = node[m].fNetworkNode
  BY <1>4, SameMarks
<1> QED
  BY <1>1, <1>2, <1>3, <1>5, ThreadQuiet

\* The steps of the socket thread outside Release, and those of the message thread.
LEMMA SockDropQuiet ==
  ASSUME IInv, GInv, SockDrop
  PROVE  GInv'
<1> DEFINE n == First(sock.rest)
           own == node[n].fNetworkNode \/ node[n].fInbound
<1>1. /\ node' = [node EXCEPT ![n].fDisconnect = TRUE, ![n].nRefCount = IF own THEN @ - 1 ELSE @]
      /\ sock.pc = "drop" /\ sock' = Rest(sock.rest \ {n})
      /\ UNCHANGED <<opener, semOutbound, found, contended, vNodes>>
  BY DEF SockDrop
<1>2. sock'.pc \notin {"post", "clear"}
  BY <1>1 DEF Rest, IInv, TypeOK, Socks
<1> HIDE DEF n
<1>3. \A m \in Node : /\ node'[m].grantOutbound = node[m].grantOutbound
                      /\ node'[m].fNetworkNode = node[m].fNetworkNode
  BY <1>1 DEF IInv, TypeOK, CNodes
<1> QED
  BY <1>1, <1>2, <1>3, ThreadQuiet DEF IInv, TypeOK

\* A new node has no grant and is nobody's yet.
LEMMA NewNodeQuiet ==
  ASSUME IInv, NEW a \in Addr \cup {NoAddr}, NEW b \in BOOLEAN, nLastNodeId < MaxNodes,
         nLastNodeId' = nLastNodeId + 1, node' = [node EXCEPT ![nLastNodeId'] = CNode(a, b)],
         vNodes' = vNodes \cup {nLastNodeId'}
  PROVE  /\ nLastNodeId' \in Node /\ vNodes' \subseteq Node
         /\ \A m \in Node : node'[m].grantOutbound = node[m].grantOutbound
         /\ \A m \in vNodes : node'[m] = node[m]
         /\ ~node'[nLastNodeId'].fNetworkNode
         /\ \A o \in Opener : opener[o].pnode # nLastNodeId'
<1> DEFINE n == nLastNodeId'
<1>1. n \in Node /\ n > nLastNodeId
  BY NodeLifetimeAssumption DEF IInv, TypeOK, Node
<1>2. node[n] = NoCNode /\ n \notin vNodes /\ \A o \in Opener : opener[o].pnode # n
  BY <1>1 DEF IInv, NotMadeYet
<1>3. node'[n] = CNode(a, b) /\ \A m \in Node \ {n} : node'[m] = node[m]
  BY <1>1 DEF IInv, TypeOK
<1>4. ~NoCNode.grantOutbound /\ CNode(a, b).grantOutbound = FALSE /\ ~CNode(a, b).fNetworkNode
      /\ NoCNode.grantOutbound = FALSE
  BY CNodeIs DEF CNodes
<1> HIDE DEF n
<1>5. vNodes \subseteq Node /\ vNodes' = vNodes \cup {n}
  BY DEF IInv, TypeOK, n
<1> QED
  BY <1>1, <1>2, <1>3, <1>4, <1>5 DEF n

\* A new inbound node has no grant and needs none.
LEMMA SockAcceptQuiet ==
  ASSUME IInv, GInv, SockAccept
  PROVE  GInv'
<1>1. /\ sock.pc = "accept" /\ sock'.pc = "copy"
      /\ UNCHANGED <<opener, semOutbound, found, contended>>
  BY DEF SockAccept, history, IInv, TypeOK, Socks
<1>2. CASE UNCHANGED <<node, vNodes>>
  BY <1>1, <1>2, ThreadQuiet DEF IInv, TypeOK
<1>3. ASSUME NEW a \in Addr, nLastNodeId < MaxNodes, nLastNodeId' = nLastNodeId + 1,
             node' = [node EXCEPT ![nLastNodeId'] = CNode(a, TRUE)],
             vNodes' = vNodes \cup {nLastNodeId'}
      PROVE  GInv'
  <2>1. TRUE \in BOOLEAN
    OBVIOUS
  <2> QED
    BY <1>1, <1>3, <2>1, NewNodeQuiet, ThreadQuiet
<1> QED
  BY <1>2, <1>3 DEF SockAccept

\* Nor does one of addnode onetry, which is never marked.
LEMMA OneTryQuiet ==
  ASSUME IInv, GInv, NEW a \in Addr, OneTry(a)
  PROVE  GInv'
<1>1. FALSE \in BOOLEAN /\ UNCHANGED <<sock, opener, semOutbound, found, contended>>
  BY DEF OneTry, history
<1> QED
  BY <1>1, NewNodeQuiet, ThreadQuiet DEF OneTry, AddNode

One(b) == IF b THEN 1 ELSE 0

\* A step of a thread that opens a connection outside MoveTo: its grant is taken, kept or
\* given back, and a node it gets is wanted already or it is about to move the grant there.
LEMMA OpenerQuiet ==
  ASSUME IInv, GInv, NEW o \in Opener, NEW r, opener' = [opener EXCEPT ![o] = r],
         opener[o].pc \notin Moving, r.pc \notin {"post", "clear", "give"},
         UNCHANGED <<sock, contended>>, found \subseteq found', vNodes' \subseteq Node,
         \A m \in Node : node'[m].grantOutbound = node[m].grantOutbound,
         \A m \in vNodes : node'[m].fNetworkNode => Wanted(m),
         \A m \in vNodes' \ vNodes :
            ~node'[m].fNetworkNode /\ \A p \in Opener : opener[p].pnode # m,
         r.pc \in {"mark", "oneshot"} => r.pnode = opener[o].pnode /\ opener[o].pc = "mark",
         opener[o].grant \in BOOLEAN, r.grant \in BOOLEAN,
         semOutbound' = semOutbound + One(opener[o].grant) - One(r.grant),
         semOutbound' \in Nat
  PROVE  GInv'
<1>1. opener'[o] = r /\ \A p \in Opener \ {o} : opener'[p] = opener[p]
  BY DEF IInv, TypeOK
<1>2. QuietThreads
  BY <1>1 DEF QuietThreads
<1>3. ASSUME NEW n \in vNodes', Wanted(n)'
      PROVE  (n \in vNodes /\ Wanted(n)) \/ Promised(n)'
  <2>1. CASE node'[n].fNetworkNode
    BY <2>1
  <2>2. ASSUME NEW p \in Opener, opener'[p].pnode = n, Finishing(p)' \/ opener'[p].pc = "oneshot"
        PROVE  (n \in vNodes /\ Wanted(n)) \/ Promised(n)'
    <3>1. CASE p # o
      <4>1. opener'[p] = opener[p] /\ opener[p].pnode = n
        BY <1>1, <2>2, <3>1
      <4>2. n \in vNodes
        BY <4>1
      <4>3. Wanted(n)
        BY <2>2, <4>1 DEF Wanted, Finishing
      <4> QED
        BY <4>2, <4>3
    <3>2. CASE p = o /\ r.pc \in Moving
      BY <1>1, <2>2, <3>2 DEF Promised
    <3>3. CASE p = o /\ r.pc \notin Moving
      <4>1. r.pc \in {"mark", "oneshot"} /\ r.pnode = n
        BY <1>1, <2>2, <3>3 DEF Finishing
      <4>2. opener[o].pnode = n /\ opener[o].pc = "mark"
        BY <4>1
      <4>3. n \in vNodes
        BY <4>2
      <4>4. Wanted(n)
        BY <4>2 DEF Wanted, Finishing
      <4> QED
        BY <4>3, <4>4
    <3> QED
      BY <3>1, <3>2, <3>3
  <2> QED
    BY <1>3, <2>1, <2>2 DEF Wanted
<1>4. Holding' = (Holding \ {o}) \cup (IF r.grant THEN {o} ELSE {})
  BY <1>1 DEF Holding
<1>5. IsFiniteSet(Holding) /\ Cardinality(Holding) \in Nat /\ semOutbound \in Nat
  BY GrantsFinite DEF IInv, TypeOK
<1>6. o \in Holding <=> opener[o].grant
  BY DEF Holding
<1>7. /\ Cardinality(Holding') = Cardinality(Holding) - One(opener[o].grant) + One(r.grant)
      /\ Cardinality(Holding') \in Nat
  <2>1. CASE opener[o].grant /\ r.grant
    <3>1. Holding' = Holding
      BY <1>4, <1>6, <2>1
    <3> QED
      BY <1>5, <2>1, <3>1 DEF One
  <2>2. CASE ~opener[o].grant /\ ~r.grant
    <3>1. Holding' = Holding
      BY <1>4, <1>6, <2>2
    <3> QED
      BY <1>5, <2>2, <3>1 DEF One
  <2>3. CASE opener[o].grant /\ ~r.grant
    <3>1. Holding' = Holding \ {o} /\ o \in Holding
      BY <1>4, <1>6, <2>3
    <3>2. Cardinality(Holding') = Cardinality(Holding) - 1 /\ Cardinality(Holding') \in Nat
      BY <1>5, <3>1, FS_RemoveElement, FS_CardinalityType
    <3> QED
      BY <1>5, <2>3, <3>2 DEF One
  <2>4. CASE ~opener[o].grant /\ r.grant
    <3>1. Holding' = Holding \cup {o} /\ o \notin Holding
      BY <1>4, <1>6, <2>4
    <3>2. Cardinality(Holding') = Cardinality(Holding) + 1
      BY <1>5, <3>1, FS_AddElement
    <3> QED
      BY <1>5, <2>4, <3>2 DEF One
  <2> QED
    BY <2>1, <2>2, <2>3, <2>4
<1>8. semOutbound' + Cardinality(Holding') = semOutbound + Cardinality(Holding)
  <2>1. One(opener[o].grant) \in Int /\ One(r.grant) \in Int
    BY DEF One
  <2> QED
    BY <1>5, <1>7, <2>1
<1> QED
  BY <1>2, <1>3, <1>5, <1>7, <1>8, QuietInv

\* Such a step that leaves the nodes alone.
LEMMA NoNodeQuiet ==
  ASSUME IInv, GInv, NEW o \in Opener, NEW r, opener' = [opener EXCEPT ![o] = r],
         opener[o].pc \notin Moving, r.pc \notin Moving \cup {"mark", "oneshot"},
         UNCHANGED <<sock, contended, found, node, vNodes>>, r.grant \in BOOLEAN,
         semOutbound' = semOutbound + One(opener[o].grant) - One(r.grant), semOutbound' \in Nat
  PROVE  GInv'
<1>1. opener[o].grant \in BOOLEAN /\ vNodes' \subseteq Node /\ found \subseteq found'
  BY DEF IInv, TypeOK, Openers
<1>2. \A m \in Node : node'[m].grantOutbound = node[m].grantOutbound
  OBVIOUS
<1>3. \A m \in vNodes : node'[m].fNetworkNode => Wanted(m)
  BY DEF Wanted
<1>4. r.pc \notin {"post", "clear", "give"} /\ r.pc \notin {"mark", "oneshot"}
  BY DEF Moving
<1> HIDE DEF One
<1> QED
  BY <1>1, <1>2, <1>3, <1>4, OpenerQuiet

\* A grant that is taken is in the hands of the thread.
LEMMA TakeGrantQuiet ==
  ASSUME IInv, GInv, NEW o \in Opener, NEW f \in Openers, TakeGrant(o, f),
         f.pc \in {"check", "connect"}
  PROVE  GInv'
<1> DEFINE r == [f EXCEPT !.grant = TRUE]
<1>1. /\ opener[o].pc = "wait" /\ opener' = [opener EXCEPT ![o] = r]
      /\ semOutbound > 0 /\ semOutbound' = semOutbound - 1
      /\ UNCHANGED <<sock, contended, found, node, vNodes>>
  BY DEF TakeGrant, Set, history
<1>2. semOutbound \in Nat /\ semOutbound' \in Nat /\ opener[o].grant = FALSE
  BY <1>1 DEF IInv, TypeOK, Openers, OpenersOK, OpenerOK, Before, Moving
<1>3. r.pc \notin Moving \cup {"mark", "oneshot"} /\ r.grant = TRUE
  BY DEF Openers, Moving
<1>4. opener[o].pc \notin Moving
  BY <1>1 DEF Moving
<1> HIDE DEF r
<1>5. semOutbound' = semOutbound + One(opener[o].grant) - One(r.grant)
  BY <1>1, <1>2, <1>3 DEF One
<1> QED
  BY <1>1, <1>2, <1>3, <1>4, <1>5, NoNodeQuiet

\* So it is for a thread that goes by address,
LEMMA AcquireQuiet ==
  ASSUME IInv, GInv, NEW o \in Opener, Acquire(o)
  PROVE  GInv'
<1> DEFINE f == [opener[o] EXCEPT !.pc = "check"]
<1>1. TakeGrant(o, f)
  BY DEF Acquire
<1>2. f \in Openers /\ f.pc = "check"
  BY DEF IInv, TypeOK, Openers, Before
<1> HIDE DEF f
<1> QED
  BY <1>1, <1>2, TakeGrantQuiet

\* and for one that goes by name.
LEMMA OpenByNameQuiet ==
  ASSUME IInv, GInv, NEW o \in Opener, NEW a \in Addr, OpenByName(o, a)
  PROVE  GInv'
<1> DEFINE f == [opener[o] EXCEPT !.pc = "connect", !.addr = a, !.fOneShot = o = "opencon"]
<1>1. TakeGrant(o, f)
  BY DEF OpenByName
<1>2. f \in Openers /\ f.pc = "connect"
  BY DEF IInv, TypeOK, Openers, Before
<1> HIDE DEF f
<1> QED
  BY <1>1, <1>2, TakeGrantQuiet

\* A thread that gives up posts the grant it has.
LEMMA GiveUpQuiet ==
  ASSUME IInv, GInv, NEW o \in Opener, GiveUp(o), opener[o].pc \notin Moving,
         UNCHANGED <<sock, contended, found, node, vNodes>>
  PROVE  GInv'
<1>1. /\ opener' = [opener EXCEPT ![o] = Waiting] /\ Waiting.grant = FALSE
      /\ Waiting.pc \notin Moving \cup {"mark", "oneshot"}
  BY DEF GiveUp, Set, Waiting, Moving
<1>2. semOutbound' = semOutbound + One(opener[o].grant) - One(Waiting.grant)
  BY <1>1 DEF GiveUp, One, IInv, TypeOK
<1>3. semOutbound' \in Nat
  BY DEF GiveUp, IInv, TypeOK
<1> QED
  BY <1>1, <1>2, <1>3, NoNodeQuiet

\* The mark of a one-shot connection touches no grant.
LEMMA MarkOneShotQuiet ==
  ASSUME IInv, GInv, NEW o \in Opener, MarkOneShot(o)
  PROVE  GInv'
<1>1. /\ opener[o].pc = "oneshot" /\ opener' = [opener EXCEPT ![o] = Waiting]
      /\ semOutbound' = semOutbound /\ UNCHANGED <<sock, contended, found, node, vNodes>>
  BY DEF MarkOneShot, Set, history
<1>2. /\ opener[o].grant = FALSE /\ opener[o].pc \notin Moving /\ semOutbound \in Nat
  BY <1>1 DEF IInv, TypeOK, Openers, OpenersOK, OpenerOK, Before, Moving
<1>3. Waiting.grant = FALSE /\ Waiting.pc \notin Moving \cup {"mark", "oneshot"}
  BY DEF Waiting, Moving
<1>4. semOutbound' = semOutbound + One(opener[o].grant) - One(Waiting.grant)
  BY <1>1, <1>2, <1>3 DEF One
<1> QED
  BY <1>1, <1>2, <1>3, <1>4, NoNodeQuiet

\* The thread keeps its grant.
LEMMA KeepGrantQuiet ==
  ASSUME IInv, GInv, NEW o \in Opener, NEW r, opener' = [opener EXCEPT ![o] = r],
         opener[o].pc \in Before, r.pc \in Before, r.grant = opener[o].grant,
         UNCHANGED <<sock, contended, found, node, vNodes, semOutbound>>
  PROVE  GInv'
<1>1. opener[o].pc \notin Moving /\ r.pc \notin Moving \cup {"mark", "oneshot"}
  BY DEF Before, Moving
<1>2. opener[o].grant \in BOOLEAN /\ semOutbound \in Nat
  BY DEF IInv, TypeOK, Openers
<1>3. semOutbound' = semOutbound + One(opener[o].grant) - One(r.grant)
  BY <1>2 DEF One
<1> QED
  BY <1>1, <1>2, <1>3, NoNodeQuiet

\* OpenNetworkConnection keeps the grant or gives up.
LEMMA OpenNetworkConnectionQuiet ==
  ASSUME IInv, GInv, NEW o \in Opener, NEW a \in Addr, OpenNetworkConnection(o, a)
  PROVE  GInv'
<1>1. opener[o].pc = "check" /\ UNCHANGED <<sock, contended, found, node, vNodes>>
  BY DEF OpenNetworkConnection, history
<1>2. CASE FindNode(a) = {}
  <2> DEFINE r == [opener[o] EXCEPT !.pc = "find", !.addr = a]
  <2>1. opener' = [opener EXCEPT ![o] = r] /\ semOutbound' = semOutbound
    BY <1>2 DEF OpenNetworkConnection, Set
  <2>2. opener[o] \in Openers
    BY DEF IInv, TypeOK
  <2>3. r.grant = opener[o].grant /\ r.pc \in Before /\ opener[o].pc \in Before
    BY <1>1, <2>2 DEF Openers, Before
  <2> HIDE DEF r
  <2> QED
    BY <1>1, <2>1, <2>3, KeepGrantQuiet
<1>3. CASE FindNode(a) # {}
  BY <1>1, <1>3, GiveUpQuiet DEF OpenNetworkConnection, Moving
<1> QED
  BY <1>2, <1>3

\* The search for an existing connection keeps the grant.
LEMMA FindExistingQuiet ==
  ASSUME IInv, GInv, NEW o \in Opener, FindExisting(o)
  PROVE  GInv'
<1>1. /\ opener[o].pc = "find" /\ opener[o].pc \in Before
      /\ UNCHANGED <<sock, contended, found, node, vNodes, semOutbound>>
  BY DEF FindExisting, history, Before
<1>2. opener[o] \in Openers
  BY DEF IInv, TypeOK
<1>3. CASE Set(o, [opener[o] EXCEPT !.pc = "connect"])
  <2> DEFINE r == [opener[o] EXCEPT !.pc = "connect"]
  <2>1. opener' = [opener EXCEPT ![o] = r]
    BY <1>3 DEF Set
  <2>2. r.grant = opener[o].grant /\ r.pc \in Before
    BY <1>2 DEF Openers, Before
  <2> HIDE DEF r
  <2> QED
    BY <1>1, <2>1, <2>2, KeepGrantQuiet
<1>4. ASSUME NEW n, Set(o, [opener[o] EXCEPT !.pc = "addref", !.pnode = n])
      PROVE  GInv'
  <2> DEFINE r == [opener[o] EXCEPT !.pc = "addref", !.pnode = n]
  <2>1. opener' = [opener EXCEPT ![o] = r]
    BY <1>4 DEF Set
  <2>2. r.grant = opener[o].grant /\ r.pc \in Before
    BY <1>2 DEF Openers, Before
  <2> HIDE DEF r
  <2> QED
    BY <1>1, <2>1, <2>2, KeepGrantQuiet
<1> QED
  BY <1>3, <1>4 DEF FindExisting

\* So does the AddRef of a node that was found.
LEMMA AddRefExistingQuiet ==
  ASSUME IInv, GInv, NEW o \in Opener, AddRefExisting(o)
  PROVE  GInv'
<1> DEFINE n == opener[o].pnode
           r == [opener[o] EXCEPT !.pc = "move"]
<1>1. /\ opener[o].pc = "addref" /\ node' = Ref({n}, 1) /\ found \subseteq found'
      /\ opener' = [opener EXCEPT ![o] = r]
      /\ UNCHANGED <<vNodes, semOutbound, sock, contended>>
  BY DEF AddRefExisting, Set
<1>2. opener[o] \in Openers /\ opener[o].grant \in BOOLEAN /\ semOutbound \in Nat
      /\ vNodes \subseteq Node /\ opener[o].pc \notin Moving /\ {n} \in SUBSET Node
  BY <1>1 DEF IInv, TypeOK, Openers, Moving, OpenersOK, OpenerOK
<1>3. r.grant = opener[o].grant /\ r.pc = "move"
  BY <1>2 DEF Openers
<1> HIDE DEF n, r
<1>4. \A m \in Node : /\ node'[m].grantOutbound = node[m].grantOutbound
                      /\ node'[m].fNetworkNode = node[m].fNetworkNode
  <2>1. \E S \in SUBSET Node, d \in {1, -1} : node' = Ref(S, d)
    BY <1>1, <1>2
  <2> QED
    BY <2>1, SameMarks
<1>5. \A m \in vNodes : node'[m].fNetworkNode => Wanted(m)
  BY <1>2, <1>4 DEF Wanted
<1>6. semOutbound' = semOutbound + One(opener[o].grant) - One(r.grant) /\ semOutbound' \in Nat
  BY <1>1, <1>2, <1>3 DEF One
<1> QED
  BY <1>1, <1>2, <1>3, <1>4, <1>5, <1>6, OpenerQuiet

\* A node that was made is promised the grant of its thread.
LEMMA ConnectNodeQuiet ==
  ASSUME IInv, GInv, NEW o \in Opener, ConnectNode(o)
  PROVE  GInv'
<1>1. opener[o].pc = "connect" /\ UNCHANGED <<sock, contended, found>>
  BY DEF ConnectNode, history
<1>2. CASE GiveUp(o) /\ UNCHANGED <<node, nLastNodeId, vNodes>>
  BY <1>1, <1>2, GiveUpQuiet DEF Moving
<1>3. ASSUME AddNode(opener[o].addr),
             Set(o, [opener[o] EXCEPT !.pc = "move", !.pnode = nLastNodeId', !.made = TRUE]),
             UNCHANGED semOutbound
      PROVE  GInv'
  <2> DEFINE r == [opener[o] EXCEPT !.pc = "move", !.pnode = nLastNodeId', !.made = TRUE]
             a == opener[o].addr
  <2>1. opener' = [opener EXCEPT ![o] = r]
    BY <1>3 DEF Set
  <2>2. opener[o] \in Openers /\ opener[o].grant \in BOOLEAN /\ semOutbound \in Nat
        /\ opener[o].pc \notin Moving /\ a \in Addr \cup {NoAddr} /\ FALSE \in BOOLEAN
    BY <1>1 DEF IInv, TypeOK, Openers, Moving
  <2>3. r.grant = opener[o].grant /\ r.pc = "move"
    BY <2>2 DEF Openers
  <2> HIDE DEF r
  <2>4. /\ nLastNodeId < MaxNodes /\ nLastNodeId' = nLastNodeId + 1
        /\ node' = [node EXCEPT ![nLastNodeId'] = CNode(a, FALSE)]
        /\ vNodes' = vNodes \cup {nLastNodeId'}
    BY <1>3 DEF AddNode
  <2> HIDE DEF a
  <2>5. /\ nLastNodeId' \in Node /\ vNodes' \subseteq Node
        /\ \A m \in Node : node'[m].grantOutbound = node[m].grantOutbound
        /\ \A m \in vNodes : node'[m] = node[m]
        /\ ~node'[nLastNodeId'].fNetworkNode
        /\ \A p \in Opener : opener[p].pnode # nLastNodeId'
    BY <2>2, <2>4, NewNodeQuiet
  <2>6. \A m \in vNodes : node'[m].fNetworkNode => Wanted(m)
    BY <2>5 DEF Wanted
  <2>7. \A m \in vNodes' \ vNodes : m = nLastNodeId'
    BY <2>4
  <2>8. semOutbound' = semOutbound + One(opener[o].grant) - One(r.grant) /\ semOutbound' \in Nat
    BY <1>3, <2>2, <2>3 DEF One
  <2> QED
    BY <1>1, <2>1, <2>2, <2>3, <2>5, <2>6, <2>7, <2>8, OpenerQuiet
<1> QED
  BY <1>2, <1>3 DEF ConnectNode

\* A node that is marked has been wanted since it was made.
LEMMA MarkOutboundQuiet ==
  ASSUME IInv, GInv, NEW o \in Opener, MarkOutbound(o)
  PROVE  GInv'
<1> DEFINE n == opener[o].pnode
           r == IF opener[o].fOneShot THEN [opener[o] EXCEPT !.pc = "oneshot"] ELSE Waiting
<1>1. /\ opener[o].pc = "mark" /\ node' = [node EXCEPT ![n].fNetworkNode = TRUE]
      /\ opener' = [opener EXCEPT ![o] = r]
      /\ UNCHANGED <<vNodes, semOutbound, sock, found, contended>>
  BY DEF MarkOutbound, Set, history
<1>2. /\ opener[o] \in Openers /\ opener[o].grant = FALSE /\ semOutbound \in Nat
      /\ opener[o].pc \notin Moving /\ vNodes \subseteq Node
  BY <1>1 DEF IInv, TypeOK, Openers, Moving, Before, OpenersOK, OpenerOK
<1>3. r.grant = FALSE /\ r.pc \in {"wait", "oneshot"} /\ (r.pc = "oneshot" => r.pnode = n)
  <2>1. CASE opener[o].fOneShot
    BY <1>2, <2>1 DEF Openers
  <2>2. CASE ~opener[o].fOneShot
    BY <2>2 DEF Waiting
  <2> QED
    BY <2>1, <2>2
<1>4. \A m \in vNodes : node'[m].fNetworkNode => Wanted(m)
  <2> SUFFICES ASSUME NEW m \in vNodes, node'[m].fNetworkNode
               PROVE  Wanted(m)
    OBVIOUS
  <2>1. CASE m = n
    BY <1>1, <2>1 DEF Wanted, Finishing
  <2>2. CASE m # n
    BY <1>1, <1>2, <2>2 DEF Wanted, IInv, TypeOK
  <2> QED
    BY <2>1, <2>2
<1> HIDE DEF n, r
<1>5. \A m \in Node : node'[m].grantOutbound = node[m].grantOutbound
  BY <1>1 DEF IInv, TypeOK, CNodes
<1>6. semOutbound' = semOutbound + One(opener[o].grant) - One(r.grant) /\ semOutbound' \in Nat
  BY <1>1, <1>2, <1>3 DEF One
<1> QED
  BY <1>1, <1>2, <1>3, <1>4, <1>5, <1>6, OpenerQuiet DEF n

\* MoveTo and Release: what a grant of a node becomes, and whose it is.
LEMMA CountMoves ==
  ASSUME IInv, GrantsCounted, NEW n,
         \/ Granted' = Granted /\ Holding' = Holding /\ semOutbound' = semOutbound
         \/ /\ Granted' = Granted \ {n} /\ n \in Granted
            /\ Holding' = Holding /\ semOutbound' = semOutbound + 1
  PROVE  GrantsCounted'
<1>1. /\ Cardinality(Holding) \in Nat /\ Cardinality(Granted) \in Nat
      /\ IsFiniteSet(Granted) /\ semOutbound \in Nat
  BY GrantsFinite DEF IInv, TypeOK
<1>2. n \in Granted => Cardinality(Granted \ {n}) = Cardinality(Granted) - 1
  BY <1>1, FS_RemoveElement
<1>3. semOutbound' + Cardinality(Holding') + Cardinality(Granted') =
        semOutbound + Cardinality(Holding) + Cardinality(Granted)
  <2>1. CASE Granted' = Granted /\ Holding' = Holding /\ semOutbound' = semOutbound
    BY <2>1
  <2>2. CASE /\ Granted' = Granted \ {n} /\ n \in Granted
             /\ Holding' = Holding /\ semOutbound' = semOutbound + 1
    <3>1. Cardinality(Granted') = Cardinality(Granted) - 1
      BY <1>2, <2>2
    <3> QED
      BY <1>1, <2>2, <3>1
  <2> QED
    BY <2>1, <2>2
<1> QED
  BY <1>3 DEF GrantsCounted

\* The socket thread finds the node's grant, or none.
LEMMA SockTestGrants ==
  ASSUME IInv, GInv, SockTest
  PROVE  GInv'
<1> DEFINE n == First(sock.rest)
<1>1. /\ sock.pc = "test"
      /\ UNCHANGED <<node, vNodes, semOutbound, opener, found>>
  BY DEF SockTest
<1>2. sock \in Socks /\ vNodes \subseteq Node
  BY DEF IInv, TypeOK
<1>3. CASE ~node[n].grantOutbound
  <2>1. sock' = [sock EXCEPT !.pc = "drop"] /\ contended' = contended
    BY <1>3 DEF SockTest
  <2>2. sock'.pc = "drop"
    BY <1>2, <2>1 DEF Socks
  <2> QED
    BY <1>1, <1>2, <2>1, <2>2, ThreadQuiet
<1>4. CASE node[n].grantOutbound
  <2>1. sock' = [sock EXCEPT !.pc = "post"] /\ Enter({n})
    BY <1>4 DEF SockTest
  <2>2. sock'.pc = "post" /\ sock'.rest = sock.rest
    BY <1>2, <2>1 DEF Socks
  <2>3. \A m : ~SockAt(m) /\ (SockAt(m)' => m = n)
    BY <1>1, <2>2 DEF SockAt
  <2>4. \A o \in Opener, m \in Node : OpenerAt(o, m)' = OpenerAt(o, m)
    BY <1>1 DEF OpenerAt
  <2>5. InGrant(n) => \E o \in Opener : OpenerAt(o, n)
    BY <1>1 DEF InGrant, OpenerAt
  <2>6. contended' \subseteq found'
    <3>1. InGrant(n) => n \in found
      <4> SUFFICES ASSUME InGrant(n), n \notin found
                   PROVE  FALSE
        OBVIOUS
      <4>1. PICK o \in Opener : OpenerAt(o, n)
        BY <2>5
      <4>2. Finishing(o) /\ opener[o].pc \in Moving /\ opener[o].pnode = n
        BY <4>1 DEF OpenerAt, Finishing, Moving
      <4> HIDE DEF n
      <4> QED
        BY <1>4, <4>2, MakersAlone
    <3> QED
      BY <1>1, <2>1, <3>1 DEF Enter, GInv
  <2>7. ASSUME NEW m \in Node \ contended'
        PROVE  GrantOK(m)'
    <3>1. GrantOK(m) /\ (m = n => ~InGrant(n))
      BY <2>1, <2>7 DEF Enter, GInv
    <3>2. m = n => \A o \in Opener : ~OpenerAt(o, m)
      BY <3>1 DEF InGrant, OpenerAt
    <3> HIDE DEF n
    <3> QED
      BY <1>1, <1>4, <2>3, <2>4, <3>1, <3>2 DEF GrantOK
  <2>8. \A m \in Node : HasGrant(m)' <=> HasGrant(m)
    BY <1>1, <2>2 DEF HasGrant, Posted
  <2>9. contended' = {} => contended = {}
    BY <2>1 DEF Enter
  <2>10. contended = {} => GrantsCounted'
    <3>1. Granted' = Granted /\ Holding' = Holding
      BY <1>1, <2>8 DEF Granted, Holding
    <3> QED
      BY <1>1, <3>1, CountMoves DEF GInv
  <2>11. contended = {} => SlotsHeld'
    BY <1>1, <1>2, <2>8 DEF GInv, SlotsHeld, Wanted, Promised, Finishing
  <2> QED
    BY <2>6, <2>7, <2>9, <2>10, <2>11 DEF GInv
<1> QED
  BY <1>3, <1>4

\* It posts the grant.
LEMMA SockPostGrants ==
  ASSUME IInv, GInv, SockPost
  PROVE  GInv'
<1>1. /\ sock.pc = "post" /\ semOutbound' = semOutbound + 1 /\ sock' = [sock EXCEPT !.pc = "clear"]
      /\ UNCHANGED <<node, vNodes, opener, found, contended>>
  BY DEF SockPost, history
<1>2. sock'.pc = "clear" /\ sock'.rest = sock.rest
  BY <1>1 DEF IInv, TypeOK, Socks
<1>3. PICK n \in Node : n = First(sock.rest) /\ n \notin vNodes /\ vNodes \subseteq Node
  BY <1>1, LoopsType DEF IInv, LoopsOK, TypeOK, Locked, Erased
<1>4. \A m : SockAt(m)' = SockAt(m)
  BY <1>1, <1>2 DEF SockAt
<1>5. \A m \in Node : GrantOK(m) => GrantOK(m)'
  BY <1>1, <1>4 DEF GrantOK, OpenerAt
<1>6. \A m \in Node \ {n} : HasGrant(m)' <=> HasGrant(m)
  BY <1>1, <1>2, <1>3 DEF HasGrant, Posted
<1>7. ~HasGrant(n)'
  BY <1>2, <1>3 DEF HasGrant, Posted
<1>8. contended = {} => HasGrant(n)
  <2> SUFFICES ASSUME contended = {}
               PROVE  HasGrant(n)
    OBVIOUS
  <2>1. GrantOK(n) /\ SockAt(n)
    BY <1>1, <1>3 DEF GInv, SockAt
  <2>2. \A o \in Opener : ~OpenerAt(o, n)
    BY <2>1 DEF GrantOK
  <2> QED
    BY <1>1, <2>1, <2>2 DEF HasGrant, Posted, GrantOK, OpenerAt
<1>9. contended = {} => GrantsCounted'
  <2>1. Granted' = Granted \ {n} /\ Holding' = Holding
    BY <1>1, <1>3, <1>6, <1>7 DEF Granted, Holding
  <2>2. contended = {} => n \in Granted
    BY <1>3, <1>8 DEF Granted
  <2> QED
    BY <1>1, <2>1, <2>2, CountMoves DEF GInv
<1>10. contended = {} => SlotsHeld'
  BY <1>1, <1>3, <1>6 DEF GInv, SlotsHeld, Wanted, Promised, Finishing
<1> QED
  BY <1>1, <1>5, <1>9, <1>10 DEF GInv

\* It forgets it.
LEMMA SockClearGrants ==
  ASSUME IInv, GInv, SockClear
  PROVE  GInv'
<1>1. /\ sock.pc = "clear" /\ semOutbound' = semOutbound /\ sock' = [sock EXCEPT !.pc = "drop"]
      /\ node' = [node EXCEPT ![First(sock.rest)].grantOutbound = FALSE]
      /\ UNCHANGED <<vNodes, opener, found, contended>>
  BY DEF SockClear, history
<1>2. sock'.pc = "drop" /\ sock'.rest = sock.rest
  BY <1>1 DEF IInv, TypeOK, Socks
<1>3. PICK n \in Node : n = First(sock.rest) /\ n \notin vNodes /\ vNodes \subseteq Node
  BY <1>1, LoopsType DEF IInv, LoopsOK, TypeOK, Locked, Erased
<1>4. /\ node'[n].grantOutbound = FALSE
      /\ \A m \in Node \ {n} : node'[m] = node[m]
      /\ \A m \in Node : node'[m].fNetworkNode = node[m].fNetworkNode
  <2>1. FALSE \in BOOLEAN /\ node' = [node EXCEPT ![n].grantOutbound = FALSE]
    BY <1>1, <1>3
  <2> QED
    BY <2>1, WriteGrant
<1>5. \A m : ~SockAt(m)' /\ (SockAt(m) <=> m = n)
  BY <1>1, <1>2, <1>3 DEF SockAt
<1>6. \A m \in Node : GrantOK(m) => GrantOK(m)'
  BY <1>1, <1>4, <1>5 DEF GrantOK, OpenerAt
<1>7. \A m \in Node : HasGrant(m)' <=> HasGrant(m)
  <2>1. ~HasGrant(n) /\ ~HasGrant(n)'
    BY <1>1, <1>3, <1>4 DEF HasGrant, Posted
  <2>2. \A m \in Node \ {n} : HasGrant(m)' <=> HasGrant(m)
    BY <1>1, <1>2, <1>3, <1>4 DEF HasGrant, Posted
  <2> QED
    BY <2>1, <2>2
<1>8. contended = {} => GrantsCounted'
  <2>1. Granted' = Granted /\ Holding' = Holding
    BY <1>1, <1>7 DEF Granted, Holding
  <2> QED
    BY <1>1, <2>1, CountMoves DEF GInv
<1>9. contended = {} => SlotsHeld'
  BY <1>1, <1>3, <1>4, <1>7 DEF GInv, SlotsHeld, Wanted, Promised, Finishing
<1> QED
  BY <1>1, <1>6, <1>8, <1>9 DEF GInv

\* A deleted node gives back the grant it still has, which nobody else is at.
LEMMA SockDeleteGrants ==
  ASSUME IInv, GInv, SockDelete
  PROVE  GInv'
<1> DEFINE unused == {n \in vNodesDisconnected : node[n].nRefCount <= 0}
           U == {n \in unused : node[n].grantOutbound}
<1>1. /\ sock.pc = "delete" /\ sock' = [sock EXCEPT !.pc = "accept"] /\ Enter(U)
      /\ semOutbound' = semOutbound + Cardinality(U)
      /\ node' = [n \in Node |-> IF n \in unused THEN NoCNode ELSE node[n]]
      /\ UNCHANGED <<vNodes, opener, found>>
  BY DEF SockDelete
<1>2. sock'.pc = "accept"
  BY <1>1 DEF IInv, TypeOK, Socks
<1>3. \A n \in unused : n \in Node /\ node[n].exists
  BY DEF IInv, TypeOK, AllExist
<1>4. \A n \in unused : n \notin Connected \cup leaked \cup found
  BY <1>3, Unclaimed
<1>5. /\ \A n \in Node \ unused : node'[n] = node[n]
      /\ \A n \in unused : ~node'[n].grantOutbound
  BY <1>1, <1>3, CNodeIs
<1> HIDE DEF unused
<1>6. ASSUME NEW n \in unused, NEW o \in Opener, opener[o].pnode = n
      PROVE  ~Finishing(o)
  <2>1. n \notin Connected \cup leaked \cup found
    BY <1>4
  <2> QED
    BY <1>6, <2>1, MakersAlone
<1>7. \A n \in unused, o \in Opener : ~OpenerAt(o, n)
  BY <1>6 DEF OpenerAt, Finishing, Moving
<1>8. \A m : ~SockAt(m) /\ ~SockAt(m)'
  BY <1>1, <1>2 DEF SockAt
<1>9. contended' = contended
  <2>1. \A n \in U : ~InGrant(n)
    BY <1>1, <1>7 DEF InGrant, OpenerAt
  <2> QED
    BY <1>1, <2>1 DEF Enter
<1>10. ASSUME NEW n \in Node, GrantOK(n)
       PROVE  GrantOK(n)'
  <2>1. \A o \in Opener : OpenerAt(o, n)' = OpenerAt(o, n)
    BY <1>1 DEF OpenerAt
  <2>2. CASE n \in unused
    BY <1>7, <1>8, <2>1, <2>2 DEF GrantOK
  <2>3. CASE n \notin unused
    <3>1. node'[n] = node[n]
      BY <1>5, <2>3
    <3> QED
      BY <1>1, <1>8, <1>10, <2>1, <3>1 DEF GrantOK
  <2> QED
    BY <2>2, <2>3
<1>11. \A n \in Node : ~Posted(n) \/ n \notin unused
  BY <1>1, <1>7 DEF Posted, OpenerAt
<1>12. \A n \in Node : Posted(n)' = Posted(n)
  BY <1>1, <1>2 DEF Posted
<1>13. Granted' = Granted \ U /\ U \in SUBSET Granted
  BY <1>3, <1>5, <1>11, <1>12 DEF Granted, HasGrant
<1>14. /\ Cardinality(Holding) \in Nat /\ Cardinality(Granted) \in Nat
       /\ IsFiniteSet(Granted) /\ semOutbound \in Nat /\ nMaxOutbound \in Nat
       /\ Holding' = Holding
  BY <1>1, GrantsFinite, NodeLifetimeAssumption DEF IInv, TypeOK, Holding
<1> HIDE DEF U
<1>15. Cardinality(U) \in Nat /\ Cardinality(Granted \ U) = Cardinality(Granted) - Cardinality(U)
  <2>1. Cardinality(Granted \ U) = Cardinality(Granted) - Cardinality(Granted \cap U)
    BY <1>14, FS_Difference
  <2>2. Granted \cap U = U
    BY <1>13
  <2> QED
    BY <1>13, <1>14, <2>1, <2>2, FS_Subset, FS_CardinalityType
<1>16. contended = {} => GrantsCounted'
  BY <1>1, <1>13, <1>14, <1>15 DEF GInv, GrantsCounted
<1>17. contended = {} => SlotsHeld'
  <2>1. \A n \in vNodes : n \in Node \ unused
    BY <1>4 DEF IInv, TypeOK, Connected
  <2>2. \A n \in vNodes : node'[n] = node[n] /\ Posted(n)' = Posted(n)
    BY <1>5, <1>12, <2>1
  <2> QED
    BY <1>1, <2>2 DEF GInv, SlotsHeld, Wanted, Promised, Finishing, HasGrant
<1> QED
  BY <1>1, <1>9, <1>10, <1>16, <1>17 DEF GInv

\* MoveTo: where the thread and the others are before and after one of its steps.
LEMMA MoveSteps ==
  ASSUME IInv, NEW o \in Opener, NEW n \in Node, n = opener[o].pnode, opener[o].pc \in Moving,
         NEW pc \in Moving \cup {"mark"},
         \/ opener' = [opener EXCEPT ![o] = [opener[o] EXCEPT !.pc = pc]]
         \/ opener' = [opener EXCEPT ![o] = [opener[o] EXCEPT !.pc = pc, !.grant = FALSE]]
  PROVE  /\ opener'[o].pc = pc /\ opener'[o].pnode = n /\ opener[o].grant = TRUE
         /\ \A p \in Opener \ {o} : opener'[p] = opener[p]
         /\ \A p \in Opener : opener'[p].pnode = opener[p].pnode
         /\ \A m \in Node, p \in Opener : m # n \/ p # o => (OpenerAt(p, m)' <=> OpenerAt(p, m))
         /\ Finishing(o) /\ Finishing(o)'
         /\ \A m \in Node : Wanted(m)' => Wanted(m) \/ node'[m].fNetworkNode
<1>1. opener[o] \in Openers /\ opener[o].grant = TRUE
  BY DEF IInv, TypeOK, OpenersOK, OpenerOK, Openers
<1>2. opener'[o].pc = pc /\ opener'[o].pnode = n /\ \A p \in Opener \ {o} : opener'[p] = opener[p]
  <2>1. PICK r : /\ opener' = [opener EXCEPT ![o] = r]
                 /\ \/ r = [opener[o] EXCEPT !.pc = pc]
                    \/ r = [opener[o] EXCEPT !.pc = pc, !.grant = FALSE]
    OBVIOUS
  <2>2. r.pc = pc /\ r.pnode = n
    BY <1>1, <2>1 DEF Openers
  <2> QED
    BY <2>1, <2>2 DEF IInv, TypeOK
<1>3. Finishing(o) /\ Finishing(o)'
  BY <1>2 DEF Finishing
<1>4. \A p \in Opener : opener'[p].pnode = opener[p].pnode
  BY <1>2
<1>5. \A m \in Node, p \in Opener : m # n \/ p # o => (OpenerAt(p, m)' <=> OpenerAt(p, m))
  BY <1>2 DEF OpenerAt
<1>6. ASSUME NEW m \in Node, NEW p \in Opener, opener'[p].pnode = m,
             Finishing(p)' \/ opener'[p].pc = "oneshot"
      PROVE  Wanted(m)
  <2>1. CASE p = o
    BY <1>2, <1>3, <1>6, <2>1 DEF Wanted
  <2>2. CASE p # o
    BY <1>2, <1>6, <2>2 DEF Wanted, Finishing
  <2> QED
    BY <2>1, <2>2
<1> QED
  BY <1>1, <1>2, <1>3, <1>4, <1>5, <1>6 DEF Wanted

\* A thread that has a node to move its grant to finds whether that has one.
LEMMA TestGrantGrants ==
  ASSUME IInv, GInv, NEW o \in Opener, TestGrant(o)
  PROVE  GInv'
<1>1. /\ opener[o].pc = "move" /\ opener[o].pc \in Moving
      /\ UNCHANGED <<node, vNodes, semOutbound, sock, found>>
  BY DEF TestGrant, Moving
<1>2. PICK n \in Node : n = opener[o].pnode
  BY <1>1 DEF IInv, OpenersOK, OpenerOK, Finishing
<1> DEFINE pc == IF node[n].grantOutbound THEN "post" ELSE "give"
<1>3. /\ opener' = [opener EXCEPT ![o] = [opener[o] EXCEPT !.pc = pc]] /\ Enter({n})
      /\ pc \in Moving \cup {"mark"} /\ (node[n].grantOutbound <=> pc # "give")
      /\ pc \in {"post", "give"}
  BY <1>2 DEF TestGrant, Set, Moving
<1> HIDE DEF pc
<1>4. /\ opener'[o].pc = pc /\ opener'[o].pnode = n /\ opener[o].grant = TRUE
      /\ \A p \in Opener \ {o} : opener'[p] = opener[p]
      /\ \A m \in Node, p \in Opener : m # n \/ p # o => (OpenerAt(p, m)' <=> OpenerAt(p, m))
      /\ Finishing(o)
      /\ \A m \in Node : Wanted(m)' => Wanted(m) \/ node'[m].fNetworkNode
  BY <1>1, <1>2, <1>3, MoveSteps
<1>5. \A m : SockAt(m)' <=> SockAt(m)
  BY <1>1 DEF SockAt
<1>6. InGrant(n) <=> SockAt(n) \/ \E p \in Opener : OpenerAt(p, n)
  BY DEF InGrant, SockAt, OpenerAt
<1>7. ~OpenerAt(o, n)
  BY <1>1 DEF OpenerAt
<1>8. contended' \subseteq found'
  <2>1. InGrant(n) => n \in found
    <3> SUFFICES ASSUME InGrant(n), n \notin found
                 PROVE  FALSE
      OBVIOUS
    <3>1. /\ ~node[n].grantOutbound
          /\ \A p \in Opener : Finishing(p) /\ opener[p].pnode = n => p = o
      BY <1>1, <1>2, <1>4, MakersAlone
    <3>2. \A p \in Opener : OpenerAt(p, n) => Finishing(p) /\ opener[p].pnode = n
      BY DEF OpenerAt, Finishing, Moving
    <3>3. ~SockAt(n)
      BY <3>1 DEF GInv, GrantOK
    <3> QED
      BY <1>6, <1>7, <3>1, <3>2, <3>3
  <2> QED
    BY <1>1, <1>3, <2>1 DEF Enter, GInv
<1>9. ASSUME NEW m \in Node \ contended'
      PROVE  GrantOK(m)'
  <2>1. GrantOK(m) /\ (m = n => ~InGrant(n))
    BY <1>3, <1>9 DEF Enter, GInv
  <2>2. CASE m # n
    <3>1. \A p \in Opener : OpenerAt(p, m)' => opener'[p].pc = opener[p].pc
      BY <1>2, <1>4, <2>2 DEF OpenerAt
    <3> QED
      BY <1>1, <1>4, <1>5, <2>1, <2>2, <3>1 DEF GrantOK
  <2>3. CASE m = n
    <3>1. ~SockAt(n)' /\ \A p \in Opener : OpenerAt(p, n)' => p = o
      BY <1>4, <1>5, <1>6, <2>1, <2>3
    <3> QED
      BY <1>1, <1>3, <1>4, <2>3, <3>1 DEF GrantOK
  <2> QED
    BY <2>2, <2>3
<1>10. \A m \in Node : HasGrant(m)' <=> HasGrant(m)
  <2>1. \A p \in Opener : opener'[p].pc = "clear" <=> opener[p].pc = "clear"
    BY <1>1, <1>3, <1>4
  <2>2. \A p \in Opener : opener'[p].pc = "clear" => opener'[p] = opener[p]
    BY <1>3, <1>4
  <2> QED
    BY <1>1, <2>1, <2>2 DEF HasGrant, Posted
<1>11. contended' = {} => contended = {}
  BY <1>3 DEF Enter
<1>12. contended = {} => GrantsCounted'
  <2>1. opener'[o].grant = opener[o].grant
    BY <1>3 DEF IInv, TypeOK, Openers
  <2>2. Holding' = Holding
    BY <1>4, <2>1 DEF Holding
  <2>3. Granted' = Granted
    BY <1>10 DEF Granted
  <2> QED
    BY <1>1, <2>2, <2>3, CountMoves DEF GInv
<1>13. contended = {} => SlotsHeld'
  <2> SUFFICES ASSUME contended = {}, NEW m \in vNodes, Wanted(m)'
               PROVE  HasGrant(m)' \/ Promised(m)'
    BY <1>1 DEF SlotsHeld
  <2>1. m \in Node /\ Wanted(m)
    BY <1>1, <1>4 DEF IInv, TypeOK, Wanted
  <2>2. HasGrant(m) \/ Promised(m)
    BY <2>1 DEF GInv, SlotsHeld
  <2>3. Promised(m) => Promised(m)'
    <3>1. pc \in Moving
      BY <1>3 DEF Moving
    <3> QED
      BY <1>2, <1>4, <3>1 DEF Promised
  <2> QED
    BY <1>10, <2>1, <2>2, <2>3
<1> QED
  BY <1>8, <1>9, <1>11, <1>12, <1>13 DEF GInv

\* It posts the one the node has.
LEMMA PostGrantGrants ==
  ASSUME IInv, GInv, NEW o \in Opener, PostGrant(o)
  PROVE  GInv'
<1>1. /\ opener[o].pc = "post" /\ opener[o].pc \in Moving /\ "clear" \in Moving \cup {"mark"}
      /\ opener' = [opener EXCEPT ![o] = [opener[o] EXCEPT !.pc = "clear"]]
      /\ semOutbound' = semOutbound + 1
      /\ UNCHANGED <<node, vNodes, sock, found, contended>>
  BY DEF PostGrant, Set, Moving, history
<1>2. PICK n \in Node : n = opener[o].pnode
  BY <1>1 DEF IInv, OpenersOK, OpenerOK, Finishing
<1>3. /\ opener'[o].pc = "clear" /\ opener'[o].pnode = n /\ opener[o].grant = TRUE
      /\ \A p \in Opener \ {o} : opener'[p] = opener[p]
      /\ \A m \in Node, p \in Opener : m # n \/ p # o => (OpenerAt(p, m)' <=> OpenerAt(p, m))
      /\ \A m \in Node : Wanted(m)' => Wanted(m) \/ node'[m].fNetworkNode
  BY <1>1, <1>2, MoveSteps
<1>4. \A m : SockAt(m)' <=> SockAt(m)
  BY <1>1 DEF SockAt
<1>5. OpenerAt(o, n) /\ OpenerAt(o, n)'
  BY <1>1, <1>2, <1>3 DEF OpenerAt
<1>6. ASSUME NEW m \in Node, GrantOK(m)
      PROVE  GrantOK(m)'
  <2>1. \A p \in Opener : OpenerAt(p, m)' <=> OpenerAt(p, m)
    BY <1>3, <1>5
  <2>2. \A p \in Opener : opener'[p].pc # "give" <=> opener[p].pc # "give"
    BY <1>1, <1>3
  <2> QED
    BY <1>1, <1>4, <1>6, <2>1, <2>2 DEF GrantOK
<1>7. \A m \in Node \ {n} : HasGrant(m)' <=> HasGrant(m)
  <2>1. \A m \in Node \ {n}, p \in Opener : opener'[p].pnode = m /\ opener'[p].pc = "clear" <=>
                                            opener[p].pnode = m /\ opener[p].pc = "clear"
    BY <1>2, <1>3
  <2> QED
    BY <1>1, <2>1 DEF HasGrant, Posted
<1>8. ~HasGrant(n)'
  BY <1>3 DEF HasGrant, Posted
<1>9. contended = {} => HasGrant(n)
  <2> SUFFICES ASSUME contended = {}
               PROVE  HasGrant(n)
    OBVIOUS
  <2>1. GrantOK(n)
    BY DEF GInv
  <2>2. ~SockAt(n) /\ node[n].grantOutbound /\ \A p \in Opener : OpenerAt(p, n) => p = o
    BY <1>1, <1>5, <2>1 DEF GrantOK
  <2>3. \A p \in Opener : ~(opener[p].pnode = n /\ opener[p].pc = "clear")
    BY <1>1, <2>2 DEF OpenerAt
  <2> QED
    BY <2>2, <2>3 DEF HasGrant, Posted, SockAt
<1>10. contended = {} => GrantsCounted'
  <2>1. Granted' = Granted \ {n}
    BY <1>7, <1>8 DEF Granted
  <2>2. contended = {} => n \in Granted
    BY <1>9 DEF Granted
  <2>3. opener'[o].grant = opener[o].grant
    BY <1>1 DEF IInv, TypeOK, Openers
  <2>4. Holding' = Holding
    BY <1>3, <2>3 DEF Holding
  <2> QED
    BY <1>1, <2>1, <2>2, <2>4, CountMoves DEF GInv
<1>11. contended = {} => SlotsHeld'
  <2> SUFFICES ASSUME contended = {}, NEW m \in vNodes, Wanted(m)'
               PROVE  HasGrant(m)' \/ Promised(m)'
    BY <1>1 DEF SlotsHeld
  <2>1. m \in Node /\ Wanted(m)
    BY <1>1, <1>3 DEF IInv, TypeOK, Wanted
  <2>2. CASE m = n
    BY <1>3, <2>2 DEF Promised, Moving
  <2>3. CASE m # n
    <3>1. HasGrant(m) \/ Promised(m)
      BY <2>1 DEF GInv, SlotsHeld
    <3>2. Promised(m) => Promised(m)'
      BY <1>2, <1>3, <2>3 DEF Promised
    <3> QED
      BY <1>7, <2>1, <2>3, <3>1, <3>2
  <2> QED
    BY <2>2, <2>3
<1> QED
  BY <1>1, <1>6, <1>10, <1>11 DEF GInv

\* It clears it.
LEMMA ClearGrantGrants ==
  ASSUME IInv, GInv, NEW o \in Opener, ClearGrant(o)
  PROVE  GInv'
<1>1. /\ opener[o].pc = "clear" /\ opener[o].pc \in Moving /\ "give" \in Moving \cup {"mark"}
      /\ opener' = [opener EXCEPT ![o] = [opener[o] EXCEPT !.pc = "give"]]
      /\ node' = [node EXCEPT ![opener[o].pnode].grantOutbound = FALSE]
      /\ UNCHANGED <<vNodes, sock, semOutbound, found, contended>>
  BY DEF ClearGrant, Set, Moving, history
<1>2. PICK n \in Node : n = opener[o].pnode
  BY <1>1 DEF IInv, OpenersOK, OpenerOK, Finishing
<1>3. /\ opener'[o].pc = "give" /\ opener'[o].pnode = n /\ opener[o].grant = TRUE
      /\ \A p \in Opener \ {o} : opener'[p] = opener[p]
      /\ \A m \in Node, p \in Opener : m # n \/ p # o => (OpenerAt(p, m)' <=> OpenerAt(p, m))
      /\ \A m \in Node : Wanted(m)' => Wanted(m) \/ node'[m].fNetworkNode
  BY <1>1, <1>2, MoveSteps
<1>4. /\ node'[n].grantOutbound = FALSE
      /\ \A m \in Node \ {n} : node'[m] = node[m]
      /\ \A m \in Node : node'[m].fNetworkNode = node[m].fNetworkNode
  <2>1. FALSE \in BOOLEAN /\ node' = [node EXCEPT ![n].grantOutbound = FALSE]
    BY <1>1, <1>2
  <2> QED
    BY <2>1, WriteGrant
<1>5. \A m : SockAt(m)' <=> SockAt(m)
  BY <1>1 DEF SockAt
<1>6. OpenerAt(o, n) /\ OpenerAt(o, n)'
  BY <1>1, <1>2, <1>3 DEF OpenerAt
<1>7. ASSUME NEW m \in Node, GrantOK(m)
      PROVE  GrantOK(m)'
  <2>1. \A p \in Opener : OpenerAt(p, m)' <=> OpenerAt(p, m)
    BY <1>3, <1>6
  <2>2. CASE m = n
    <3>1. ~SockAt(n) /\ \A p \in Opener : OpenerAt(p, n) => p = o
      BY <1>6, <1>7, <2>2 DEF GrantOK
    <3>2. ~SockAt(n)' /\ \A p \in Opener : OpenerAt(p, n)' => p = o
      BY <1>5, <2>1, <2>2, <3>1
    <3> QED
      BY <1>3, <1>4, <2>2, <3>2 DEF GrantOK
  <2>3. CASE m # n
    <3>1. \A p \in Opener : OpenerAt(p, m)' => opener'[p].pc = opener[p].pc
      BY <1>2, <1>3, <2>3 DEF OpenerAt
    <3> QED
      BY <1>4, <1>5, <1>7, <2>1, <2>3, <3>1 DEF GrantOK
  <2> QED
    BY <2>2, <2>3
<1>8. \A m \in Node \ {n} : HasGrant(m)' <=> HasGrant(m)
  <2>1. \A m \in Node \ {n}, p \in Opener : opener'[p].pnode = m /\ opener'[p].pc = "clear" <=>
                                            opener[p].pnode = m /\ opener[p].pc = "clear"
    BY <1>2, <1>3
  <2> QED
    BY <1>1, <1>4, <2>1 DEF HasGrant, Posted
<1>9. ~HasGrant(n) /\ ~HasGrant(n)'
  BY <1>1, <1>2, <1>4 DEF HasGrant, Posted
<1>10. contended = {} => GrantsCounted'
  <2>1. Granted' = Granted
    BY <1>8, <1>9 DEF Granted
  <2>2. opener'[o].grant = opener[o].grant
    BY <1>1 DEF IInv, TypeOK, Openers
  <2>3. Holding' = Holding
    BY <1>3, <2>2 DEF Holding
  <2> QED
    BY <1>1, <2>1, <2>3, CountMoves DEF GInv
<1>11. contended = {} => SlotsHeld'
  <2> SUFFICES ASSUME contended = {}, NEW m \in vNodes, Wanted(m)'
               PROVE  HasGrant(m)' \/ Promised(m)'
    BY <1>1 DEF SlotsHeld
  <2>1. m \in Node /\ Wanted(m)
    BY <1>1, <1>3, <1>4 DEF IInv, TypeOK, Wanted
  <2>2. CASE m = n
    BY <1>3, <2>2 DEF Promised, Moving
  <2>3. CASE m # n
    <3>1. HasGrant(m) \/ Promised(m)
      BY <2>1 DEF GInv, SlotsHeld
    <3>2. Promised(m) => Promised(m)'
      BY <1>2, <1>3, <2>3 DEF Promised
    <3> QED
      BY <1>8, <2>1, <2>3, <3>1, <3>2
  <2> QED
    BY <2>2, <2>3
<1> QED
  BY <1>1, <1>7, <1>10, <1>11 DEF GInv

\* Then the node has the grant, and the thread has not.
LEMMA MoveGrantGrants ==
  ASSUME IInv, GInv, NEW o \in Opener, MoveGrant(o)
  PROVE  GInv'
<1>1. /\ opener[o].pc = "give" /\ opener[o].pc \in Moving /\ "mark" \in Moving \cup {"mark"}
      /\ opener' = [opener EXCEPT ![o] = [opener[o] EXCEPT !.pc = "mark", !.grant = FALSE]]
      /\ node' = [node EXCEPT ![opener[o].pnode].grantOutbound = TRUE]
      /\ UNCHANGED <<vNodes, sock, semOutbound, found, contended>>
  BY DEF MoveGrant, Set, Moving, history
<1>2. PICK n \in Node : n = opener[o].pnode
  BY <1>1 DEF IInv, OpenersOK, OpenerOK, Finishing
<1>3. /\ opener'[o].pc = "mark" /\ opener'[o].pnode = n /\ opener[o].grant = TRUE
      /\ \A p \in Opener \ {o} : opener'[p] = opener[p]
      /\ \A m \in Node, p \in Opener : m # n \/ p # o => (OpenerAt(p, m)' <=> OpenerAt(p, m))
      /\ \A m \in Node : Wanted(m)' => Wanted(m) \/ node'[m].fNetworkNode
  BY <1>1, <1>2, MoveSteps
<1>4. /\ node'[n].grantOutbound = TRUE
      /\ \A m \in Node \ {n} : node'[m] = node[m]
      /\ \A m \in Node : node'[m].fNetworkNode = node[m].fNetworkNode
  <2>1. TRUE \in BOOLEAN /\ node' = [node EXCEPT ![n].grantOutbound = TRUE]
    BY <1>1, <1>2
  <2> QED
    BY <2>1, WriteGrant
<1>5. \A m : SockAt(m)' <=> SockAt(m)
  BY <1>1 DEF SockAt
<1>6. OpenerAt(o, n) /\ ~OpenerAt(o, n)'
  BY <1>1, <1>2, <1>3 DEF OpenerAt
<1>7. ASSUME NEW m \in Node, GrantOK(m)
      PROVE  GrantOK(m)'
  <2>1. CASE m = n
    <3>1. ~SockAt(n) /\ \A p \in Opener : OpenerAt(p, n) => p = o
      BY <1>6, <1>7, <2>1 DEF GrantOK
    <3>2. ~SockAt(n)' /\ \A p \in Opener : ~OpenerAt(p, n)'
      BY <1>3, <1>5, <1>6, <3>1
    <3> QED
      BY <2>1, <3>2 DEF GrantOK
  <2>2. CASE m # n
    <3>1. \A p \in Opener : OpenerAt(p, m)' => opener'[p].pc = opener[p].pc
      BY <1>2, <1>3, <2>2 DEF OpenerAt
    <3> QED
      BY <1>3, <1>4, <1>5, <1>7, <2>2, <3>1 DEF GrantOK
  <2> QED
    BY <2>1, <2>2
<1>8. \A m \in Node \ {n} : HasGrant(m)' <=> HasGrant(m)
  <2>1. \A m \in Node \ {n}, p \in Opener : opener'[p].pnode = m /\ opener'[p].pc = "clear" <=>
                                            opener[p].pnode = m /\ opener[p].pc = "clear"
    BY <1>2, <1>3
  <2> QED
    BY <1>1, <1>4, <2>1 DEF HasGrant, Posted
<1>9. contended = {} => ~HasGrant(n) /\ HasGrant(n)'
  <2> SUFFICES ASSUME contended = {}
               PROVE  ~HasGrant(n) /\ HasGrant(n)'
    OBVIOUS
  <2>1. GrantOK(n)
    BY DEF GInv
  <2>2. ~SockAt(n) /\ ~node[n].grantOutbound /\ \A p \in Opener : OpenerAt(p, n) => p = o
    BY <1>1, <1>6, <2>1 DEF GrantOK
  <2>3. \A p \in Opener : ~(opener'[p].pnode = n /\ opener'[p].pc = "clear")
    BY <1>3, <2>2 DEF OpenerAt
  <2>4. ~Posted(n)'
    BY <1>1, <2>2, <2>3 DEF Posted, SockAt
  <2> QED
    BY <1>4, <2>2, <2>4 DEF HasGrant
<1>10. contended = {} => GrantsCounted'
  <2> SUFFICES ASSUME contended = {}
               PROVE  GrantsCounted'
    OBVIOUS
  <2>1. Granted' = Granted \cup {n} /\ n \notin Granted
    BY <1>8, <1>9 DEF Granted
  <2>2. opener'[o].grant = FALSE
    BY <1>1 DEF IInv, TypeOK, Openers
  <2>3. Holding' = Holding \ {o} /\ o \in Holding
    BY <1>3, <2>2 DEF Holding
  <2>4. /\ Cardinality(Holding) \in Nat /\ Cardinality(Granted) \in Nat
        /\ IsFiniteSet(Granted) /\ IsFiniteSet(Holding) /\ semOutbound \in Nat
    BY GrantsFinite DEF IInv, TypeOK
  <2>5. Cardinality(Granted') = Cardinality(Granted) + 1
    BY <2>1, <2>4, FS_AddElement
  <2>6. Cardinality(Holding') = Cardinality(Holding) - 1
    BY <2>3, <2>4, FS_RemoveElement
  <2> QED
    BY <1>1, <2>4, <2>5, <2>6 DEF GInv, GrantsCounted
<1>11. contended = {} => SlotsHeld'
  <2> SUFFICES ASSUME contended = {}, NEW m \in vNodes, Wanted(m)'
               PROVE  HasGrant(m)' \/ Promised(m)'
    BY <1>1 DEF SlotsHeld
  <2>1. m \in Node /\ Wanted(m)
    BY <1>1, <1>3, <1>4 DEF IInv, TypeOK, Wanted
  <2>2. CASE m = n
    BY <1>9, <2>2
  <2>3. CASE m # n
    <3>1. HasGrant(m) \/ Promised(m)
      BY <2>1 DEF GInv, SlotsHeld
    <3>2. Promised(m) => Promised(m)'
      BY <1>2, <1>3, <2>3 DEF Promised
    <3> QED
      BY <1>8, <2>1, <2>3, <3>1, <3>2
  <2> QED
    BY <2>2, <2>3
<1> QED
  BY <1>1, <1>7, <1>10, <1>11 DEF GInv

\* Every step keeps the grants.
LEMMA NextGrants == IInv /\ GInv /\ [Next]_vars => GInv'
<1> SUFFICES ASSUME IInv, GInv, [Next]_vars
             PROVE  GInv'
  OBVIOUS
<1>1. CASE SocketThread \/ MessageThread
  BY <1>1, SockQuiet, SockDropQuiet, SockAcceptQuiet, SockTestGrants, SockPostGrants,
     SockClearGrants, SockDeleteGrants DEF SocketThread
<1>2. ASSUME NEW o \in Opener, OpenThread(o)
      PROVE  GInv'
  BY <1>2, AcquireQuiet, OpenByNameQuiet, OpenNetworkConnectionQuiet, FindExistingQuiet,
     AddRefExistingQuiet, ConnectNodeQuiet, MarkOutboundQuiet, MarkOneShotQuiet, TestGrantGrants,
     PostGrantGrants, ClearGrantGrants, MoveGrantGrants DEF OpenThread
<1>3. CASE \E a \in Addr : OneTry(a)
  BY <1>3, OneTryQuiet
<1>4. CASE UNCHANGED vars
  <2>1. UNCHANGED <<node, vNodes, semOutbound, sock, opener, found, contended>>
    BY <1>4 DEF vars, history
  <2> QED
    BY <2>1, ThreadQuiet DEF IInv, TypeOK
<1> QED
  BY <1>1, <1>2, <1>3, <1>4 DEF Next

\* The invariant of the grants holds in every reachable state.
LEMMA GrantInvariant == Spec => []GInv
<1> QED
  BY InitGrants, NextGrants, Invariant, PTL DEF Spec

(* As long as no two threads have been at the grant of one node, every     *)
(* grant of semOutbound is free, with a thread that opens a connection or  *)
(* with a node, and every outbound connection has one or is promised one;  *)
(* and two threads only meet at a node that ConnectNode has found: for     *)
(* every interleaving of the unlocked steps of MoveTo and Release with     *)
(* each other and with ~CNode (CSemaphoreGrant, ThreadSocketHandler).      *)
THEOREM OutboundSlots == Spec => []OutboundSlotsKept
<1>1. IInv /\ GInv => OutboundSlotsKept
  <2> SUFFICES ASSUME IInv, GInv
               PROVE  OutboundSlotsKept
    OBVIOUS
  <2>1. Granted = {n \in Node : /\ HasGrant(n)
                                /\ node[n].exists \/ n \in leaked \cup found}
    BY DEF Granted, HasGrant, IInv, GoneHasNone
  <2>2. contended = {} => \A n \in Outbound :
          HasGrant(n) \/ \E o \in Opener : opener[o].pnode = n /\ opener[o].grant
    <3> SUFFICES ASSUME contended = {}, NEW n \in Outbound
                 PROVE  HasGrant(n) \/ \E o \in Opener : opener[o].pnode = n /\ opener[o].grant
      OBVIOUS
    <3>1. n \in vNodes /\ Wanted(n)
      BY DEF Outbound, Wanted, IInv, OpenersOK, OpenerOK
    <3>2. HasGrant(n) \/ Promised(n)
      BY <3>1 DEF GInv, SlotsHeld
    <3> QED
      BY <3>2 DEF Promised, IInv, OpenersOK, OpenerOK
  <2> QED
    BY <2>1, <2>2 DEF OutboundSlotsKept, GInv, GrantsCounted, Holding
<1> QED
  BY <1>1, Invariant, GrantInvariant, PTL

(* So there are never more outbound connections than semOutbound allows,   *)
(* but for those of addnode onetry, which take no slot, and as long as no  *)
(* two threads have been at the grant of one node (OpenNetworkConnection). *)
THEOREM OutboundLimit ==
  Spec => [](contended = {} => Cardinality(Outbound) <= nMaxOutbound)
<1>1. IInv /\ OutboundSlotsKept => (contended = {} => Cardinality(Outbound) <= nMaxOutbound)
  <2> SUFFICES ASSUME IInv, OutboundSlotsKept, contended = {}
               PROVE  Cardinality(Outbound) <= nMaxOutbound
    OBVIOUS
  <2> DEFINE f == [o \in Holding |-> opener[o].pnode]
             T == {f[o] : o \in Holding}
             G == {n \in Node : /\ HasGrant(n)
                                /\ node[n].exists \/ n \in leaked \cup found}
  <2>1. semOutbound + Cardinality(Holding) + Cardinality(G) = nMaxOutbound
    BY DEF OutboundSlotsKept, Holding
  <2>2. G = Granted
    BY DEF Granted, HasGrant, IInv, GoneHasNone
  <2>3. /\ Cardinality(Holding) \in Nat /\ Cardinality(G) \in Nat
        /\ IsFiniteSet(G) /\ IsFiniteSet(Holding) /\ semOutbound \in Nat /\ nMaxOutbound \in Nat
    BY <2>2, GrantsFinite, NodeLifetimeAssumption DEF IInv, TypeOK
  <2>4. f \in Surjection(Holding, T)
    BY DEF Surjection
  <2>5. Outbound \subseteq G \cup T
    <3> SUFFICES ASSUME NEW n \in Outbound, ~HasGrant(n)
                 PROVE  n \in T
      BY <2>2 DEF Granted, Outbound, IInv, TypeOK
    <3>1. PICK o \in Opener : opener[o].pnode = n /\ opener[o].grant
      BY DEF OutboundSlotsKept
    <3> QED
      BY <3>1 DEF Holding
  <2> HIDE DEF f, T, G
  <2>6. IsFiniteSet(T) /\ Cardinality(T) <= Cardinality(Holding)
    BY <2>3, <2>4, FS_Surjection
  <2>7. Cardinality(T) \in Nat
    BY <2>6, FS_CardinalityType
  <2>8. /\ IsFiniteSet(G \cup T)
        /\ Cardinality(G \cup T) = Cardinality(G) + Cardinality(T) - Cardinality(G \cap T)
    BY <2>3, <2>6, FS_Union
  <2>9. Cardinality(G \cap T) \in Nat
    BY <2>3, FS_Intersection, FS_CardinalityType
  <2>10. Cardinality(Outbound) <= Cardinality(G \cup T) /\ IsFiniteSet(Outbound)
    BY <2>5, <2>8, FS_Subset
  <2>11. Cardinality(Outbound) \in Nat /\ Cardinality(G \cup T) \in Nat
    BY <2>8, <2>10, FS_CardinalityType
  <2> QED
    BY <2>1, <2>3, <2>6, <2>7, <2>8, <2>9, <2>10, <2>11
<1> QED
  BY <1>1, Invariant, OutboundSlots, PTL
-----------------------------------------------------------------------------
(* Addresses: The invariant *)

\* The entries of mapInfo, CAddrInfo.
Entry == [addr : Address, source : Source, nLastSuccess : Nat, nRefCount : Nat,
          fInTried : BOOLEAN, nRandomPos : Nat]

\* The new buckets an entry is in.
InNew(m, i) == {b \in NewBuckets : i \in m.vvNew[b]}

\* m is a record of the tables and counters of CAddrMan.
Shape(m) ==
  m = [mapInfo |-> m.mapInfo, mapAddr |-> m.mapAddr, vRandom |-> m.vRandom,
       vvTried |-> m.vvTried, vvNew |-> m.vvNew,
       nTried |-> m.nTried, nNew |-> m.nNew, nIdCount |-> m.nIdCount]

\* Every id in an index is one of an entry.
Typed(m) ==
  /\ Shape(m)
  /\ m.mapInfo \in [Ids(m) -> Entry]
  /\ m.nIdCount \in Nat /\ Ids(m) \subseteq 0..(m.nIdCount - 1)
  /\ m.mapAddr \in [DOMAIN m.mapAddr -> Ids(m)]
  /\ m.vRandom \in Seq(Ids(m))
  /\ m.vvTried \in [TriedBuckets -> Seq(Ids(m))]
  /\ m.vvNew \in [NewBuckets -> SUBSET Ids(m)]
  /\ m.nTried \in Int /\ m.nNew \in Int

\* mapAddr finds every entry, and no other.
Named(m) ==
  /\ \A i \in Ids(m) : /\ m.mapInfo[i].addr \in DOMAIN m.mapAddr
                       /\ m.mapAddr[m.mapInfo[i].addr] = i
  /\ \A a \in DOMAIN m.mapAddr : m.mapInfo[m.mapAddr[a]].addr = a

\* Every entry knows its place in vRandom, and every place is one's.
Ordered(m) ==
  /\ \A i \in Ids(m) : /\ m.mapInfo[i].nRandomPos \in 1..Len(m.vRandom)
                       /\ m.vRandom[m.mapInfo[i].nRandomPos] = i
  /\ \A n \in 1..Len(m.vRandom) : m.mapInfo[m.vRandom[n]].nRandomPos = n

\* nTried, nNew and the length of vRandom.
Counted(m) ==
  /\ Cardinality(TriedIds(m)) = m.nTried
  /\ Cardinality(Ids(m) \ TriedIds(m)) = m.nNew
  /\ Len(m.vRandom) = m.nTried + m.nNew

\* Each reference of an entry is a new bucket, but for one of x, which is on its way
\* to a bucket; z may have none.
Referenced(m, x, z) ==
  \A i \in Ids(m) :
    /\ m.mapInfo[i].nRefCount = Cardinality(InNew(m, i)) + (IF i = x THEN 1 ELSE 0)
    /\ m.mapInfo[i].nRefCount <= ADDRMAN_NEW_BUCKETS_PER_ADDRESS
    /\ IF m.mapInfo[i].fInTried
       THEN m.mapInfo[i].nRefCount = 0 /\ m.mapInfo[i].nLastSuccess # 0
       ELSE i # z => m.mapInfo[i].nRefCount # 0

\* No new bucket is overfull.
NewFits(m) == \A b \in NewBuckets : Cardinality(m.vvNew[b]) <= ADDRMAN_NEW_BUCKET_SIZE

\* The tried entries are the ones in the tried table, each once, in its bucket.
TriedFits(m) ==
  /\ \A b \in TriedBuckets :
       /\ Len(m.vvTried[b]) <= ADDRMAN_TRIED_BUCKET_SIZE
       /\ \A n \in 1..Len(m.vvTried[b]) :
            /\ m.mapInfo[m.vvTried[b][n]].fInTried
            /\ TriedBucket[m.mapInfo[m.vvTried[b][n]].addr] = b
       /\ \A n, k \in 1..Len(m.vvTried[b]) : m.vvTried[b][n] = m.vvTried[b][k] => n = k
  /\ \A i \in Ids(m) : m.mapInfo[i].fInTried =>
       LET b == TriedBucket[m.mapInfo[i].addr] IN
       \E n \in 1..Len(m.vvTried[b]) : m.vvTried[b][n] = i

\* The tables between two steps of an operation.
Fit(m, x, z) ==
  /\ Typed(m) /\ Named(m) /\ Ordered(m) /\ Counted(m)
  /\ Referenced(m, x, z) /\ NewFits(m) /\ TriedFits(m)

\* No id.
None == -1

\* The inductive invariant: it holds when no operation is running.
TablesInv == Fit(am, None, None) /\ nGood \in Nat

-----------------------------------------------------------------------------
(* Addresses: What the invariant says of ids and buckets *)

\* There are finitely many entries, and nIdCount is the id of none.
LEMMA IdsFinite ==
  ASSUME NEW m, Typed(m)
  PROVE  /\ IsFiniteSet(Ids(m)) /\ Ids(m) \subseteq Nat /\ None \notin Ids(m)
         /\ m.nIdCount \notin Ids(m)
         /\ \A S : S \subseteq Ids(m) => IsFiniteSet(S) /\ Cardinality(S) \in Nat
<1>1. m.nIdCount \in Nat /\ Ids(m) \subseteq 0..(m.nIdCount - 1)
  BY DEF Typed
<1>2. IsFiniteSet(0..(m.nIdCount - 1))
  BY <1>1, FS_Interval
<1>3. IsFiniteSet(Ids(m))
  BY <1>1, <1>2, FS_Subset
<1>4. ASSUME NEW S, S \subseteq Ids(m) PROVE IsFiniteSet(S) /\ Cardinality(S) \in Nat
  BY <1>3, <1>4, FS_Subset, FS_CardinalityType
<1> QED
  BY <1>1, <1>3, <1>4 DEF None

\* An entry is in finitely many new buckets.
LEMMA InNewFinite ==
  ASSUME NEW m, NEW i
  PROVE  /\ IsFiniteSet(InNew(m, i)) /\ Cardinality(InNew(m, i)) \in Nat
         /\ Cardinality(InNew(m, i)) = 0 <=> InNew(m, i) = {}
<1>1. IsFiniteSet(NewBuckets) /\ InNew(m, i) \subseteq NewBuckets
  BY AddrManAssumption DEF InNew
<1> QED
  BY <1>1, FS_Subset, FS_CardinalityType, FS_EmptySet

\* The buckets hold entries of their own table.
LEMMA TablesApart ==
  ASSUME NEW m, NEW x, NEW z, Fit(m, x, z), NEW i \in Ids(m), m.mapInfo[i].fInTried
  PROVE  i # x /\ \A b \in NewBuckets : i \notin m.vvNew[b]
<1>1. m.mapInfo[i].nRefCount = 0
  BY DEF Fit, Referenced
<1>2. m.mapInfo[i].nRefCount = Cardinality(InNew(m, i)) + (IF i = x THEN 1 ELSE 0)
  BY DEF Fit, Referenced
<1>3. Cardinality(InNew(m, i)) \in Nat
  BY InNewFinite
<1>4. i # x /\ Cardinality(InNew(m, i)) = 0
  BY <1>1, <1>2, <1>3
<1>5. InNew(m, i) = {}
  BY <1>4, InNewFinite
<1> QED
  BY <1>4, <1>5 DEF InNew

\* What Check_() tests follows from the invariant.
LEMMA FitImplies ==
  ASSUME Fit(am, None, None)
  PROVE  Consistent
<1> DEFINE T == TriedIds(am)
<1>1. Typed(am) /\ Named(am) /\ Ordered(am) /\ Counted(am) /\ Referenced(am, None, None)
  BY DEF Fit
<1>2. NewFits(am) /\ TriedFits(am)
  BY DEF Fit
<1>3. DOMAIN am.vRandom = 1..Len(am.vRandom) /\ None \notin Ids(am)
  <2>1. am.vRandom \in Seq(Ids(am))
    BY <1>1 DEF Typed
  <2>2. DOMAIN am.vRandom = 1..Len(am.vRandom)
    BY <2>1
  <2> QED
    BY <1>1, <2>2, IdsFinite, Zenon
<1>4. Len(am.vRandom) = am.nTried + am.nNew /\ Cardinality(T) = am.nTried
      /\ Cardinality(Ids(am) \ T) = am.nNew
  BY <1>1 DEF Counted
<1>5. ASSUME NEW i \in Ids(am)
      PROVE  LET info == am.mapInfo[i] IN
       /\ am.mapAddr[info.addr] = i
       /\ info.nRandomPos \in DOMAIN am.vRandom /\ am.vRandom[info.nRandomPos] = i
       /\ info.nRefCount = Cardinality({b \in NewBuckets : i \in am.vvNew[b]})
       /\ IF info.fInTried
          THEN info.nRefCount = 0 /\ info.nLastSuccess # 0
          ELSE info.nRefCount \in 1..ADDRMAN_NEW_BUCKETS_PER_ADDRESS
  <2>1. am.mapAddr[am.mapInfo[i].addr] = i
    BY <1>1 DEF Named
  <2>2. am.mapInfo[i].nRandomPos \in DOMAIN am.vRandom /\ am.vRandom[am.mapInfo[i].nRandomPos] = i
    BY <1>1, <1>3 DEF Ordered
  <2>3. am.mapInfo[i].nRefCount = Cardinality(InNew(am, i))
    <3>1. i # None
      BY <1>3
    <3>2. am.mapInfo[i].nRefCount = Cardinality(InNew(am, i)) + 0
      BY <1>1, <3>1 DEF Referenced
    <3> QED
      BY <3>2, InNewFinite
  <2>4. am.mapInfo[i] \in Entry
    BY <1>1 DEF Typed
  <2>5. IF am.mapInfo[i].fInTried
        THEN am.mapInfo[i].nRefCount = 0 /\ am.mapInfo[i].nLastSuccess # 0
        ELSE am.mapInfo[i].nRefCount \in 1..ADDRMAN_NEW_BUCKETS_PER_ADDRESS
    <3>1. ADDRMAN_NEW_BUCKETS_PER_ADDRESS \in Nat /\ am.mapInfo[i].nRefCount \in Nat /\ i # None
      BY <2>4, <1>3, AddrManAssumption DEF Entry
    <3> QED
      BY <1>1, <3>1 DEF Referenced
  <2> QED
    BY <2>1, <2>2, <2>3, <2>5 DEF InNew
<1>6. \A b \in TriedBuckets : /\ DOMAIN am.vvTried[b] = 1..Len(am.vvTried[b])
                              /\ \A n \in 1..Len(am.vvTried[b]) : am.vvTried[b][n] \in Ids(am)
  <2> TAKE b \in TriedBuckets
  <2>1. am.vvTried[b] \in Seq(Ids(am))
    BY <1>1 DEF Typed
  <2> QED
    BY <2>1
<1>7. ASSUME NEW i \in T
      PROVE  \E b \in TriedBuckets : \E n \in DOMAIN am.vvTried[b] : am.vvTried[b][n] = i
  <2>1. i \in Ids(am) /\ am.mapInfo[i].fInTried
    BY DEF TriedIds
  <2>2. am.mapInfo[i].addr \in Address
    BY <1>1, <2>1 DEF Typed, Entry
  <2> DEFINE b == TriedBucket[am.mapInfo[i].addr]
  <2>3. b \in TriedBuckets
    BY <2>2 DEF TriedBuckets
  <2>4. \E n \in 1..Len(am.vvTried[b]) : am.vvTried[b][n] = i
    BY <1>2, <2>1 DEF TriedFits
  <2> QED
    BY <1>6, <2>3, <2>4
<1>8. ASSUME NEW b \in TriedBuckets
      PROVE  IsInjective(am.vvTried[b]) /\ ToSet(am.vvTried[b]) \subseteq T
  <2>1. IsInjective(am.vvTried[b])
    BY <1>2, <1>6 DEF TriedFits, IsInjective
  <2>2. \A n \in DOMAIN am.vvTried[b] : am.vvTried[b][n] \in T
    BY <1>2, <1>6 DEF TriedFits, TriedIds
  <2> QED
    BY <2>1, <2>2 DEF ToSet
<1>9. ASSUME NEW b \in NewBuckets
      PROVE  am.vvNew[b] \subseteq Ids(am) \ T /\ Cardinality(am.vvNew[b]) <= ADDRMAN_NEW_BUCKET_SIZE
  <2>1. am.vvNew[b] \subseteq Ids(am)
    BY <1>1 DEF Typed
  <2>2. \A i \in am.vvNew[b] : i \notin T
    BY <2>1, TablesApart DEF TriedIds
  <2> QED
    BY <1>2, <2>1, <2>2 DEF NewFits
<1>10. \A b \in TriedBuckets : Len(am.vvTried[b]) <= ADDRMAN_TRIED_BUCKET_SIZE
  BY <1>2 DEF TriedFits
<1> HIDE DEF T
<1> QED
  BY <1>4, <1>5, <1>7, <1>8, <1>9, <1>10 DEF Consistent, T

\* A new CAddrMan is empty.
LEMMA InitFit == AddrManInit => TablesInv
<1> SUFFICES ASSUME AddrManInit PROVE TablesInv
  OBVIOUS
<1>1. am = [mapInfo |-> <<>>, mapAddr |-> <<>>, vRandom |-> <<>>,
            vvTried |-> [b \in TriedBuckets |-> <<>>],
            vvNew |-> [b \in NewBuckets |-> {}],
            nTried |-> 0, nNew |-> 0, nIdCount |-> 0] /\ nGood = 0
  BY DEF AddrManInit
<1>2. Ids(am) = {} /\ DOMAIN am.mapAddr = {} /\ TriedIds(am) = {}
  BY <1>1 DEF Ids, TriedIds
<1>3. Typed(am)
  <2>1. Shape(am)
    BY <1>1 DEF Shape
  <2>2. am.mapInfo = <<>> /\ am.mapAddr = <<>> /\ am.vRandom = <<>>
    BY <1>1
  <2>3. \A S : <<>> \in [{} -> S]
    OBVIOUS
  <2>4. am.mapInfo \in [Ids(am) -> Entry] /\ am.mapAddr \in [DOMAIN am.mapAddr -> Ids(am)]
    BY <1>2, <2>2, <2>3
  <2>5. am.nIdCount \in Nat /\ Ids(am) \subseteq 0..(am.nIdCount - 1)
        /\ am.nTried \in Int /\ am.nNew \in Int
    <3>1. am.nIdCount = 0 /\ am.nTried = 0 /\ am.nNew = 0
      BY <1>1
    <3> QED
      BY <1>2, <3>1
  <2>6. am.vRandom \in Seq(Ids(am))
    BY <2>2
  <2>7. am.vvTried \in [TriedBuckets -> Seq(Ids(am))] /\ am.vvNew \in [NewBuckets -> SUBSET Ids(am)]
    BY <1>1
  <2> QED
    BY <2>1, <2>4, <2>5, <2>6, <2>7 DEF Typed
<1>4. Counted(am) /\ Ordered(am) /\ Named(am)
  <2>1. am.vRandom = <<>> /\ am.nTried = 0 /\ am.nNew = 0
    BY <1>1
  <2>2. Len(am.vRandom) = 0 /\ 1..Len(am.vRandom) = {} /\ {} \ {} = {}
    BY <2>1
  <2>3. Cardinality({}) = 0
    BY FS_EmptySet
  <2>4. Counted(am)
    BY <1>2, <2>1, <2>2, <2>3 DEF Counted
  <2> QED
    BY <1>2, <2>2, <2>4 DEF Ordered, Named
<1>5. Referenced(am, None, None) /\ NewFits(am) /\ TriedFits(am)
  <2>1. Referenced(am, None, None)
    BY <1>2 DEF Referenced
  <2>2. NewFits(am)
    <3>1. \A b \in NewBuckets : am.vvNew[b] = {}
      BY <1>1
    <3>2. Cardinality({}) = 0 /\ 0 <= ADDRMAN_NEW_BUCKET_SIZE
      BY FS_EmptySet, AddrManAssumption
    <3> QED
      BY <3>1, <3>2 DEF NewFits
  <2>3. \A b \in TriedBuckets : Len(am.vvTried[b]) = 0
    BY <1>1
  <2>4. 0 <= ADDRMAN_TRIED_BUCKET_SIZE
    BY AddrManAssumption
  <2>5. TriedFits(am)
    BY <1>2, <2>3, <2>4 DEF TriedFits
  <2> QED
    BY <2>1, <2>2, <2>5
<1> QED
  BY <1>1, <1>3, <1>4, <1>5 DEF TablesInv, Fit

-----------------------------------------------------------------------------
(* Addresses: vRandom *)

\* r is m after the entries at places i and j, which may be one, changed places.
Swapped(m, r, i, j) ==
  /\ r = [mapInfo |-> r.mapInfo, mapAddr |-> m.mapAddr, vRandom |-> r.vRandom,
          vvTried |-> m.vvTried, vvNew |-> m.vvNew,
          nTried |-> m.nTried, nNew |-> m.nNew, nIdCount |-> m.nIdCount]
  /\ r.mapInfo \in [Ids(m) -> Entry] /\ Ids(r) = Ids(m)
  /\ r.vRandom \in Seq(Ids(m)) /\ Len(r.vRandom) = Len(m.vRandom)
  /\ r.vRandom[i] = m.vRandom[j] /\ r.vRandom[j] = m.vRandom[i]
  /\ \A n \in 1..Len(m.vRandom) : n # i /\ n # j => r.vRandom[n] = m.vRandom[n]
  /\ \A k \in Ids(m) :
       r.mapInfo[k] = [m.mapInfo[k] EXCEPT !.nRandomPos =
                         IF k = m.vRandom[j] THEN i ELSE IF k = m.vRandom[i] THEN j ELSE @]

\* SwapRandom changes two places and the entries that are there.
LEMMA SwapIs ==
  ASSUME NEW m, Typed(m), Ordered(m), NEW i \in 1..Len(m.vRandom), NEW j \in 1..Len(m.vRandom)
  PROVE  Swapped(m, SwapRandom(m, i, j), i, j)
<1> DEFINE r == SwapRandom(m, i, j)
           p == m.vRandom[i]
           q == m.vRandom[j]
           f == m.mapInfo
           f1 == [f EXCEPT ![p].nRandomPos = j]
           f2 == [f1 EXCEPT ![q].nRandomPos = i]
           v1 == [m.vRandom EXCEPT ![i] = q]
           v2 == [v1 EXCEPT ![j] = p]
<1>1. f \in [Ids(m) -> Entry] /\ m.vRandom \in Seq(Ids(m)) /\ Len(m.vRandom) \in Nat
  BY DEF Typed
<1>2. p \in Ids(m) /\ q \in Ids(m) /\ i \in Nat /\ j \in Nat
  BY <1>1
<1>3. r = [mapInfo |-> f2, mapAddr |-> m.mapAddr, vRandom |-> v2,
           vvTried |-> m.vvTried, vvNew |-> m.vvNew,
           nTried |-> m.nTried, nNew |-> m.nNew, nIdCount |-> m.nIdCount]
  <2>1. Shape(m)
    BY DEF Typed
  <2>2. r = [m EXCEPT !.mapInfo = f2, !.vRandom = v2]
    BY Zenon DEF SwapRandom
  <2> HIDE DEF f2, v2, r
  <2> QED
    BY <2>1, <2>2 DEF Shape
<1> HIDE DEF r, p, q, f
<1>4. f1 \in [Ids(m) -> Entry]
      /\ \A k \in Ids(m) : f1[k] = IF k = p THEN [f[k] EXCEPT !.nRandomPos = j] ELSE f[k]
  BY <1>1, <1>2 DEF Entry
<1> HIDE DEF f1
<1>5. f2 \in [Ids(m) -> Entry]
      /\ \A k \in Ids(m) : f2[k] = IF k = q THEN [f1[k] EXCEPT !.nRandomPos = i] ELSE f1[k]
  BY <1>2, <1>4, Zenon DEF Entry
<1>6. v2 \in Seq(Ids(m)) /\ Len(v2) = Len(m.vRandom)
      /\ \A n \in 1..Len(m.vRandom) : v2[n] = IF n = j THEN p ELSE IF n = i THEN q ELSE m.vRandom[n]
  BY <1>1, <1>2
<1>7. v2[i] = q
  BY <1>6 DEF p, q
<1> HIDE DEF f2, v2
<1>8. \A k \in Ids(m) : f2[k] = [f[k] EXCEPT !.nRandomPos =
                                   IF k = q THEN i ELSE IF k = p THEN j ELSE @]
  BY <1>1, <1>4, <1>5 DEF Entry
<1>9. r.mapInfo = f2 /\ r.vRandom = v2 /\ Ids(r) = Ids(m)
  BY <1>3, <1>5 DEF Ids
<1>10. r = [mapInfo |-> r.mapInfo, mapAddr |-> m.mapAddr, vRandom |-> r.vRandom,
            vvTried |-> m.vvTried, vvNew |-> m.vvNew,
            nTried |-> m.nTried, nNew |-> m.nNew, nIdCount |-> m.nIdCount]
  BY <1>3, <1>9, Zenon
<1>11. /\ r.mapInfo \in [Ids(m) -> Entry] /\ r.vRandom \in Seq(Ids(m))
       /\ Len(r.vRandom) = Len(m.vRandom) /\ r.vRandom[i] = q /\ r.vRandom[j] = p
       /\ \A n \in 1..Len(m.vRandom) : n # i /\ n # j => r.vRandom[n] = m.vRandom[n]
  BY <1>5, <1>6, <1>7, <1>9
<1> QED
  BY <1>8, <1>9, <1>10, <1>11, Zenon DEF Swapped, r, p, q, f


\* Two states that differ in the order of vRandom and in the times of successes only.
Same(m, r) ==
  /\ Ids(r) = Ids(m) /\ r.mapAddr = m.mapAddr /\ r.vvTried = m.vvTried /\ r.vvNew = m.vvNew
  /\ r.nTried = m.nTried /\ r.nNew = m.nNew /\ Len(r.vRandom) = Len(m.vRandom)
  /\ \A k \in Ids(m) : /\ r.mapInfo[k].addr = m.mapInfo[k].addr
                       /\ r.mapInfo[k].nRefCount = m.mapInfo[k].nRefCount
                       /\ r.mapInfo[k].fInTried = m.mapInfo[k].fInTried
                       /\ m.mapInfo[k].nLastSuccess # 0 => r.mapInfo[k].nLastSuccess # 0

\* The invariant but for the order does not depend on the places.
LEMMA SameFits ==
  ASSUME NEW m, NEW r, NEW x, NEW z, Fit(m, x, z), Typed(r), Ordered(r), Same(m, r)
  PROVE  Fit(r, x, z) /\ TriedIds(r) = TriedIds(m)
<1>1. \A k \in Ids(m) : m.mapInfo[k] \in Entry /\ r.mapInfo[k] \in Entry
  BY DEF Fit, Typed, Same
<1>2. TriedIds(r) = TriedIds(m)
  BY DEF TriedIds, Same
<1>3. Named(r)
  <2>1. \A a \in DOMAIN m.mapAddr : m.mapAddr[a] \in Ids(m)
    BY DEF Fit, Typed
  <2> QED
    BY <2>1 DEF Fit, Named, Same
<1>4. Counted(r)
  BY <1>2 DEF Fit, Counted, Same
<1>5. Referenced(r, x, z)
  <2>1. \A i : InNew(r, i) = InNew(m, i)
    BY DEF InNew, Same
  <2> QED
    BY <2>1 DEF Fit, Referenced, Same
<1>6. NewFits(r)
  BY DEF Fit, NewFits, Same
<1>7. TriedFits(r)
  <2>1. \A b \in TriedBuckets : \A n \in 1..Len(m.vvTried[b]) : m.vvTried[b][n] \in Ids(m)
    <3> TAKE b \in TriedBuckets
    <3>1. m.vvTried[b] \in Seq(Ids(m))
      BY DEF Fit, Typed
    <3> QED
      BY <3>1
  <2>2. r.vvTried = m.vvTried /\ Ids(r) = Ids(m)
        /\ \A k \in Ids(m) : /\ r.mapInfo[k].addr = m.mapInfo[k].addr
                             /\ r.mapInfo[k].fInTried = m.mapInfo[k].fInTried
    BY DEF Same
  <2>3. TriedFits(m)
    BY DEF Fit
  <2>4. ASSUME NEW b \in TriedBuckets
        PROVE  /\ Len(r.vvTried[b]) <= ADDRMAN_TRIED_BUCKET_SIZE
               /\ \A n \in 1..Len(r.vvTried[b]) :
                    /\ r.mapInfo[r.vvTried[b][n]].fInTried
                    /\ TriedBucket[r.mapInfo[r.vvTried[b][n]].addr] = b
               /\ \A n, k \in 1..Len(r.vvTried[b]) : r.vvTried[b][n] = r.vvTried[b][k] => n = k
    <3> DEFINE v == m.vvTried[b]
    <3>1. r.vvTried[b] = v /\ \A n \in 1..Len(v) : v[n] \in Ids(m)
      BY <2>1, <2>2
    <3>2. /\ Len(v) <= ADDRMAN_TRIED_BUCKET_SIZE
          /\ \A n \in 1..Len(v) : m.mapInfo[v[n]].fInTried /\ TriedBucket[m.mapInfo[v[n]].addr] = b
          /\ \A n, k \in 1..Len(v) : v[n] = v[k] => n = k
      BY <2>3 DEF TriedFits
    <3> HIDE DEF v
    <3> QED
      BY <2>2, <3>1, <3>2
  <2>5. ASSUME NEW i \in Ids(r), r.mapInfo[i].fInTried
        PROVE  \E n \in 1..Len(r.vvTried[TriedBucket[r.mapInfo[i].addr]]) :
                 r.vvTried[TriedBucket[r.mapInfo[i].addr]][n] = i
    BY <2>2, <2>3, <2>5 DEF TriedFits
  <2> QED
    BY <2>4, <2>5 DEF TriedFits
<1> QED
  BY <1>2, <1>3, <1>4, <1>5, <1>6, <1>7 DEF Fit

\* SwapRandom keeps the invariant and all that is not about vRandom.
LEMMA SwapFit ==
  ASSUME NEW m, NEW x, NEW z, Fit(m, x, z),
         NEW i \in 1..Len(m.vRandom), NEW j \in 1..Len(m.vRandom)
  PROVE  LET r == SwapRandom(m, i, j)
         IN /\ Fit(r, x, z) /\ TriedIds(r) = TriedIds(m) /\ Ids(r) = Ids(m)
            /\ Len(r.vRandom) = Len(m.vRandom) /\ r.mapAddr = m.mapAddr
            /\ r.vRandom[j] = m.vRandom[i] /\ Same(m, r)
<1> DEFINE r == SwapRandom(m, i, j)
           p == m.vRandom[i]
           q == m.vRandom[j]
<1>1. Typed(m) /\ Ordered(m)
  BY DEF Fit
<1>2. /\ r = [mapInfo |-> r.mapInfo, mapAddr |-> m.mapAddr, vRandom |-> r.vRandom,
              vvTried |-> m.vvTried, vvNew |-> m.vvNew,
              nTried |-> m.nTried, nNew |-> m.nNew, nIdCount |-> m.nIdCount]
      /\ r.mapInfo \in [Ids(m) -> Entry] /\ Ids(r) = Ids(m)
      /\ r.vRandom \in Seq(Ids(m)) /\ Len(r.vRandom) = Len(m.vRandom)
      /\ r.vRandom[i] = q /\ r.vRandom[j] = p
      /\ \A n \in 1..Len(m.vRandom) : n # i /\ n # j => r.vRandom[n] = m.vRandom[n]
      /\ \A k \in Ids(m) :
           r.mapInfo[k] = [m.mapInfo[k] EXCEPT !.nRandomPos =
                             IF k = q THEN i ELSE IF k = p THEN j ELSE @]
  <2>1. Swapped(m, r, i, j)
    BY <1>1, SwapIs
  <2> HIDE DEF r
  <2> QED
    BY <2>1, Zenon DEF Swapped
<1> HIDE DEF r, p, q
<1>3. r.mapAddr = m.mapAddr /\ r.vvTried = m.vvTried /\ r.vvNew = m.vvNew
      /\ r.nTried = m.nTried /\ r.nNew = m.nNew /\ r.nIdCount = m.nIdCount
  BY <1>2
<1>4. \A k \in Ids(m) : m.mapInfo[k] \in Entry
  BY <1>1 DEF Typed
<1>5. \A k \in Ids(m) :
        /\ r.mapInfo[k].nRandomPos = IF k = q THEN i ELSE IF k = p THEN j ELSE m.mapInfo[k].nRandomPos
        /\ r.mapInfo[k].addr = m.mapInfo[k].addr
        /\ r.mapInfo[k].nRefCount = m.mapInfo[k].nRefCount
        /\ r.mapInfo[k].fInTried = m.mapInfo[k].fInTried
        /\ r.mapInfo[k].nLastSuccess = m.mapInfo[k].nLastSuccess
  <2> TAKE k \in Ids(m)
  <2> DEFINE e == m.mapInfo[k]
             n == IF k = q THEN i ELSE IF k = p THEN j ELSE e.nRandomPos
  <2>1. e \in Entry /\ r.mapInfo[k] = [e EXCEPT !.nRandomPos = n]
    BY <1>2, <1>4
  <2> HIDE DEF e, n
  <2>2. r.mapInfo[k].nRandomPos = n /\ r.mapInfo[k].addr = e.addr
        /\ r.mapInfo[k].nRefCount = e.nRefCount /\ r.mapInfo[k].fInTried = e.fInTried
        /\ r.mapInfo[k].nLastSuccess = e.nLastSuccess
    BY <2>1 DEF Entry
  <2> QED
    BY <2>2 DEF e, n
<1>6. Same(m, r)
  BY <1>2, <1>3, <1>5 DEF Same
<1>7. Typed(r)
  <2>1. Shape(r)
    BY <1>2, <1>3 DEF Shape
  <2> QED
    BY <1>1, <1>2, <1>3, <2>1 DEF Typed
<1>8. Ordered(r)
  <2>1. m.vRandom \in Seq(Ids(m)) /\ p = m.vRandom[i] /\ q = m.vRandom[j]
    BY <1>1 DEF Typed, p, q
  <2>2. \A n \in 1..Len(m.vRandom) : m.vRandom[n] \in Ids(m)
    BY <2>1
  <2>3. \A k \in Ids(m) : /\ m.mapInfo[k].nRandomPos \in 1..Len(m.vRandom)
                          /\ m.vRandom[m.mapInfo[k].nRandomPos] = k
    BY <1>1 DEF Ordered
  <2>4. \A n \in 1..Len(m.vRandom) : m.mapInfo[m.vRandom[n]].nRandomPos = n
    BY <1>1 DEF Ordered
  <2>5. ASSUME NEW k \in Ids(m)
        PROVE  r.mapInfo[k].nRandomPos \in 1..Len(m.vRandom) /\ r.vRandom[r.mapInfo[k].nRandomPos] = k
    <3>1. CASE k = q
      BY <1>2, <1>5, <3>1
    <3>2. CASE k # q /\ k = p
      BY <1>2, <1>5, <3>2
    <3>3. CASE k # q /\ k # p
      <4>1. r.mapInfo[k].nRandomPos = m.mapInfo[k].nRandomPos
        BY <1>5, <3>3
      <4>2. m.mapInfo[k].nRandomPos # i /\ m.mapInfo[k].nRandomPos # j
        BY <2>1, <2>3, <3>3
      <4> QED
        BY <1>2, <2>3, <4>1, <4>2
    <3> QED
      BY <3>1, <3>2, <3>3
  <2>6. ASSUME NEW n \in 1..Len(m.vRandom)
        PROVE  r.mapInfo[r.vRandom[n]].nRandomPos = n
    <3>1. CASE n = i
      BY <1>2, <1>5, <2>1, <2>2, <3>1
    <3>2. CASE n # i /\ n = j
      <4>1. r.vRandom[n] = p /\ p # q /\ p \in Ids(m)
        BY <1>2, <2>1, <2>2, <2>4, <3>2
      <4> QED
        BY <1>5, <4>1, <3>2
    <3>3. CASE n # i /\ n # j
      <4>1. r.vRandom[n] = m.vRandom[n] /\ m.vRandom[n] \in Ids(m)
        BY <1>2, <2>2, <3>3
      <4>2. m.vRandom[n] # p /\ m.vRandom[n] # q
        BY <2>1, <2>4, <3>3
      <4> QED
        BY <1>5, <2>4, <4>1, <4>2
    <3> QED
      BY <3>1, <3>2, <3>3
  <2> QED
    BY <1>2, <2>5, <2>6 DEF Ordered
<1>9. Fit(r, x, z) /\ TriedIds(r) = TriedIds(m)
  BY <1>6, <1>7, <1>8, SameFits
<1> QED
  BY <1>2, <1>3, <1>6, <1>9 DEF r, p


-----------------------------------------------------------------------------
(* Addresses: Adding, referencing and forgetting an entry *)

\* The entries of m that r still has are as they were, their places apart.
SameEntries(m, r) ==
  \A k \in Ids(r) : /\ k \in Ids(m)
                    /\ r.mapInfo[k].addr = m.mapInfo[k].addr
                    /\ r.mapInfo[k].nRefCount = m.mapInfo[k].nRefCount
                    /\ r.mapInfo[k].fInTried = m.mapInfo[k].fInTried

\* An entry without references, and not tried, leaves all indexes.
LEMMA ForgetFit ==
  ASSUME NEW m, NEW x, NEW z, Fit(m, x, z), z \in Ids(m), z # x,
         m.mapInfo[z].nRefCount = 0, ~m.mapInfo[z].fInTried
  PROVE  LET r == Forget(m, z)
         IN /\ Fit(r, x, None) /\ Ids(r) = Ids(m) \ {z} /\ TriedIds(r) = TriedIds(m)
            /\ r.mapAddr = Without(m.mapAddr, m.mapInfo[z].addr)
            /\ r.vvNew = m.vvNew /\ SameEntries(m, r)
<1> DEFINE r == Forget(m, z)
           pos == m.mapInfo[z].nRandomPos
           s == SwapRandom(m, pos, Len(m.vRandom))
           a == m.mapInfo[z].addr
           last == Len(m.vRandom)
<1>1. /\ pos \in 1..Len(m.vRandom) /\ m.vRandom[pos] = z /\ Len(m.vRandom) \in Nat
      /\ Len(m.vRandom) \in 1..Len(m.vRandom)
  <2>1. m.vRandom \in Seq(Ids(m)) /\ pos \in 1..Len(m.vRandom) /\ m.vRandom[pos] = z
    BY DEF Fit, Typed, Ordered
  <2> HIDE DEF pos
  <2> QED
    BY <2>1
<1>2. /\ Fit(s, x, z) /\ TriedIds(s) = TriedIds(m) /\ Ids(s) = Ids(m)
      /\ Len(s.vRandom) = last /\ s.mapAddr = m.mapAddr
      /\ s.vRandom[last] = z /\ Same(m, s)
  BY <1>1, SwapFit
<1>3. r = [s EXCEPT !.vRandom = Front(s.vRandom), !.mapAddr = Without(m.mapAddr, a),
                    !.mapInfo = Without(s.mapInfo, z), !.nNew = @ - 1]
  BY Zenon DEF Forget
<1> HIDE DEF r, s, pos, a
<1>4. /\ r.mapInfo = Without(s.mapInfo, z) /\ r.mapAddr = Without(m.mapAddr, a)
      /\ r.vRandom = Front(s.vRandom) /\ r.vvTried = s.vvTried /\ r.vvNew = s.vvNew
      /\ r.nTried = s.nTried /\ r.nNew = s.nNew - 1 /\ r.nIdCount = s.nIdCount
      /\ Shape(r)
  <2>1. Shape(s)
    BY <1>2 DEF Fit, Typed
  <2> QED
    BY <1>3, <2>1 DEF Shape
<1>5. Typed(s) /\ Named(s) /\ Ordered(s) /\ Counted(s) /\ Referenced(s, x, z) /\ NewFits(s)
      /\ TriedFits(s) /\ Typed(m)
  BY <1>2 DEF Fit
<1>6. a = s.mapInfo[z].addr /\ s.mapInfo[z].nRefCount = 0 /\ ~s.mapInfo[z].fInTried /\ z \in Ids(s)
  BY <1>2 DEF Same, a
<1>7. /\ s.mapInfo \in [Ids(s) -> Entry] /\ s.mapAddr \in [DOMAIN s.mapAddr -> Ids(s)]
      /\ s.vRandom \in Seq(Ids(s)) /\ s.vvTried \in [TriedBuckets -> Seq(Ids(s))]
      /\ s.vvNew \in [NewBuckets -> SUBSET Ids(s)]
      /\ s.nTried \in Int /\ s.nNew \in Int /\ s.nIdCount \in Nat /\ Ids(s) \subseteq 0..(s.nIdCount - 1)
  BY <1>5 DEF Typed
<1>8. Ids(r) = Ids(s) \ {z} /\ \A k \in Ids(r) : r.mapInfo[k] = s.mapInfo[k]
  BY <1>4 DEF Ids, Without
<1>9. DOMAIN r.mapAddr = DOMAIN s.mapAddr \ {a} /\ \A b \in DOMAIN r.mapAddr : r.mapAddr[b] = s.mapAddr[b]
  BY <1>2, <1>4 DEF Without
<1>10. last > 0 /\ last \in Nat /\ Len(r.vRandom) = last - 1 /\ r.vRandom \in Seq(Ids(s))
       /\ \A n \in 1..(last - 1) : r.vRandom[n] = s.vRandom[n] /\ n \in 1..Len(s.vRandom)
  <2> DEFINE v == s.vRandom
  <2>1. v \in Seq(Ids(s)) /\ Len(v) = last /\ last \in Nat /\ last > 0
    BY <1>1, <1>2, <1>7
  <2>2. r.vRandom = SubSeq(v, 1, last - 1)
    BY <1>2, <1>4 DEF Front
  <2> HIDE DEF v, last
  <2>3. SubSeq(v, 1, last - 1) \in Seq(Ids(s)) /\ Len(SubSeq(v, 1, last - 1)) = last - 1
        /\ \A n \in 1..(last - 1) : SubSeq(v, 1, last - 1)[n] = v[n] /\ n \in 1..Len(v)
    BY <2>1
  <2> QED
    BY <2>1, <2>2, <2>3 DEF v
<1>11. \A b \in NewBuckets : z \notin s.vvNew[b]
  <2>1. Cardinality(InNew(s, z)) \in Nat /\ s.mapInfo[z].nRefCount = Cardinality(InNew(s, z)) + 0
    BY <1>5, <1>6, InNewFinite DEF Referenced
  <2>2. InNew(s, z) = {}
    BY <1>6, <2>1, InNewFinite
  <2> QED
    BY <2>2 DEF InNew
<1>12. \A b \in TriedBuckets : \A n \in 1..Len(s.vvTried[b]) : s.vvTried[b][n] \in Ids(r)
  <2> TAKE b \in TriedBuckets
  <2>1. s.vvTried[b] \in Seq(Ids(s))
    BY <1>7
  <2>2. \A n \in 1..Len(s.vvTried[b]) : s.mapInfo[s.vvTried[b][n]].fInTried /\ s.vvTried[b][n] \in Ids(s)
    BY <1>5, <2>1 DEF TriedFits
  <2> QED
    BY <1>6, <1>8, <2>2
<1>13. Named(r)
  <2>1. ASSUME NEW k \in Ids(r)
        PROVE  r.mapInfo[k].addr \in DOMAIN r.mapAddr /\ r.mapAddr[r.mapInfo[k].addr] = k
    <3>1. k \in Ids(s) /\ k # z /\ s.mapInfo[k].addr \in DOMAIN s.mapAddr /\ s.mapAddr[s.mapInfo[k].addr] = k
          /\ s.mapAddr[a] = z
      BY <1>5, <1>6, <1>8 DEF Named
    <3> QED
      BY <1>8, <1>9, <3>1
  <2>2. ASSUME NEW b \in DOMAIN r.mapAddr
        PROVE  r.mapInfo[r.mapAddr[b]].addr = b /\ r.mapAddr[b] \in Ids(r)
    <3>1. b \in DOMAIN s.mapAddr /\ b # a /\ s.mapInfo[s.mapAddr[b]].addr = b /\ s.mapAddr[b] \in Ids(s)
      BY <1>5, <1>7, <1>9 DEF Named
    <3> QED
      BY <1>6, <1>8, <1>9, <3>1
  <2> QED
    BY <2>1, <2>2 DEF Named
<1>14. Ordered(r)
  <2>1. ASSUME NEW k \in Ids(r)
        PROVE  /\ r.mapInfo[k].nRandomPos \in 1..(last - 1)
               /\ r.vRandom[r.mapInfo[k].nRandomPos] = k
    <3>1. /\ s.mapInfo[k].nRandomPos \in 1..last
          /\ s.vRandom[s.mapInfo[k].nRandomPos] = k /\ k # z
      BY <1>2, <1>5, <1>8 DEF Ordered
    <3> DEFINE n == s.mapInfo[k].nRandomPos
    <3>2. r.mapInfo[k].nRandomPos = n
      BY <1>8
    <3>3. n \in 1..last /\ n # last /\ s.vRandom[n] = k
      BY <1>2, <3>1
    <3> HIDE DEF n
    <3>4. n \in 1..(last - 1)
      BY <1>10, <3>3
    <3> QED
      BY <1>10, <3>2, <3>3, <3>4
  <2>2. ASSUME NEW n \in 1..(last - 1)
        PROVE  r.mapInfo[r.vRandom[n]].nRandomPos = n /\ r.vRandom[n] \in Ids(r)
    <3>1. s.mapInfo[s.vRandom[n]].nRandomPos = n /\ s.vRandom[n] \in Ids(s) /\ n # last
      BY <1>5, <1>7, <1>10 DEF Ordered
    <3>2. s.mapInfo[s.vRandom[last]].nRandomPos = last
      <4>1. last \in 1..Len(s.vRandom)
        BY <1>2, <1>10
      <4> QED
        BY <1>5, <4>1, Zenon DEF Ordered
    <3>3. s.vRandom[n] # z
      BY <1>2, <3>1, <3>2
    <3> QED
      BY <1>8, <1>10, <3>1, <3>3
  <2> QED
    BY <1>10, <2>1, <2>2 DEF Ordered
<1>15. Typed(r)
  <2>1. r.mapInfo \in [Ids(r) -> Entry]
    BY <1>4, <1>7, <1>8 DEF Without, Ids
  <2>2. r.mapAddr \in [DOMAIN r.mapAddr -> Ids(r)]
    <3>1. \A b \in DOMAIN r.mapAddr : r.mapAddr[b] \in Ids(r)
      <4> TAKE b \in DOMAIN r.mapAddr
      <4>1. b \in DOMAIN s.mapAddr /\ b # a /\ s.mapInfo[s.mapAddr[b]].addr = b /\ s.mapAddr[b] \in Ids(s)
        BY <1>5, <1>7, <1>9 DEF Named
      <4> QED
        BY <1>6, <1>8, <1>9, <4>1
    <3>2. r.mapAddr = [b \in DOMAIN r.mapAddr |-> r.mapAddr[b]]
      BY <1>4 DEF Without
    <3> QED
      BY <3>1, <3>2
  <2>3. r.vRandom \in Seq(Ids(r))
    <3>1. \A n \in 1..Len(r.vRandom) : r.vRandom[n] \in Ids(r)
      <4> TAKE n \in 1..Len(r.vRandom)
      <4>1. s.mapInfo[s.vRandom[n]].nRandomPos = n /\ s.vRandom[n] \in Ids(s) /\ n # last
        BY <1>5, <1>7, <1>10 DEF Ordered
      <4>2. s.mapInfo[s.vRandom[last]].nRandomPos = last
        <5>1. last \in 1..Len(s.vRandom)
          BY <1>2, <1>10
        <5> QED
          BY <1>5, <5>1, Zenon DEF Ordered
      <4> QED
        BY <1>2, <1>8, <1>10, <4>1, <4>2
    <3> QED
      BY <1>10, <3>1
  <2>4. r.vvTried \in [TriedBuckets -> Seq(Ids(r))]
    <3>1. ASSUME NEW b \in TriedBuckets PROVE s.vvTried[b] \in Seq(Ids(r))
      <4>1. s.vvTried[b] \in Seq(Ids(s)) /\ \A n \in 1..Len(s.vvTried[b]) : s.vvTried[b][n] \in Ids(r)
        BY <1>7, <1>12
      <4> QED
        BY <4>1
    <3> QED
      BY <1>4, <1>7, <3>1
  <2>5. r.vvNew \in [NewBuckets -> SUBSET Ids(r)]
    BY <1>4, <1>7, <1>8, <1>11
  <2> QED
    BY <1>4, <1>7, <1>8, <2>1, <2>2, <2>3, <2>4, <2>5 DEF Typed
<1>16. TriedIds(r) = TriedIds(s)
  BY <1>6, <1>8 DEF TriedIds
<1>17. Counted(r)
  <2>1. Ids(r) \ TriedIds(r) = (Ids(s) \ TriedIds(s)) \ {z} /\ z \in Ids(s) \ TriedIds(s)
    BY <1>6, <1>8, <1>16 DEF TriedIds
  <2>2. IsFiniteSet(Ids(s) \ TriedIds(s))
    BY <1>5, IdsFinite
  <2>3. Cardinality(Ids(r) \ TriedIds(r)) = Cardinality(Ids(s) \ TriedIds(s)) - 1
    <3> DEFINE B == Ids(s) \ TriedIds(s)
    <3>1. IsFiniteSet(B) /\ z \in B /\ Ids(r) \ TriedIds(r) = B \ {z}
      BY <2>1, <2>2
    <3> HIDE DEF B
    <3>2. Cardinality(B \ {z}) = Cardinality(B) - 1
      BY <3>1, FS_RemoveElement
    <3> QED
      BY <3>1, <3>2, Zenon DEF B
  <2> QED
    <3>1. last = s.nTried + s.nNew /\ Cardinality(TriedIds(s)) = s.nTried
          /\ Cardinality(Ids(s) \ TriedIds(s)) = s.nNew
      BY <1>2, <1>5 DEF Counted
    <3>2. r.nTried = s.nTried /\ r.nNew = s.nNew - 1 /\ Len(r.vRandom) = last - 1
      BY <1>4, <1>10
    <3>3. Len(r.vRandom) = r.nTried + r.nNew
      BY <1>7, <3>1, <3>2
    <3> QED
      BY <1>16, <2>3, <3>1, <3>2, <3>3 DEF Counted
<1>18. Referenced(r, x, None)
  <2>1. \A k : InNew(r, k) = InNew(s, k)
    BY <1>4 DEF InNew
  <2> QED
    BY <1>5, <1>8, <2>1 DEF Referenced
<1>19. NewFits(r)
  BY <1>4, <1>5 DEF NewFits
<1>20. TriedFits(r)
  <2>1. ASSUME NEW b \in TriedBuckets
        PROVE  /\ Len(r.vvTried[b]) <= ADDRMAN_TRIED_BUCKET_SIZE
               /\ \A n \in 1..Len(r.vvTried[b]) :
                    /\ r.mapInfo[r.vvTried[b][n]].fInTried
                    /\ TriedBucket[r.mapInfo[r.vvTried[b][n]].addr] = b
               /\ \A n, k \in 1..Len(r.vvTried[b]) : r.vvTried[b][n] = r.vvTried[b][k] => n = k
    <3> DEFINE v == s.vvTried[b]
    <3>1. r.vvTried[b] = v /\ \A n \in 1..Len(v) : v[n] \in Ids(r)
      BY <1>4, <1>12
    <3>2. /\ Len(v) <= ADDRMAN_TRIED_BUCKET_SIZE
          /\ \A n \in 1..Len(v) : s.mapInfo[v[n]].fInTried /\ TriedBucket[s.mapInfo[v[n]].addr] = b
          /\ \A n, k \in 1..Len(v) : v[n] = v[k] => n = k
      BY <1>5, Zenon DEF TriedFits
    <3> HIDE DEF v
    <3> QED
      BY <1>8, <3>1, <3>2
  <2>2. ASSUME NEW i \in Ids(r), r.mapInfo[i].fInTried
        PROVE  \E n \in 1..Len(r.vvTried[TriedBucket[r.mapInfo[i].addr]]) :
                 r.vvTried[TriedBucket[r.mapInfo[i].addr]][n] = i
    <3>1. i \in Ids(s) /\ s.mapInfo[i].fInTried /\ s.mapInfo[i].addr = r.mapInfo[i].addr
      BY <1>8, <2>2
    <3>2. \E n \in 1..Len(s.vvTried[TriedBucket[s.mapInfo[i].addr]]) :
            s.vvTried[TriedBucket[s.mapInfo[i].addr]][n] = i
      BY <1>5, <3>1, Zenon DEF TriedFits
    <3>3. r.vvTried = s.vvTried
      BY <1>4
    <3> QED
      BY <3>1, <3>2, <3>3, Zenon
  <2> QED
    BY <2>1, <2>2 DEF TriedFits
<1>21. SameEntries(m, r)
  BY <1>2, <1>8 DEF SameEntries, Same
<1>22. r.vvNew = m.vvNew
  BY <1>2, <1>4 DEF Same
<1>23. Fit(r, x, None)
  BY <1>13, <1>14, <1>15, <1>17, <1>18, <1>19, <1>20 DEF Fit
<1> QED
  BY <1>2, <1>4, <1>8, <1>16, <1>21, <1>22, <1>23 DEF r, a


\* An operation that leaves the tried entries and their table alone.
LEMMA TriedSame ==
  ASSUME NEW m, NEW r, Typed(m), TriedFits(m), r.vvTried = m.vvTried, TriedIds(r) = TriedIds(m),
         \A k \in TriedIds(m) : r.mapInfo[k].addr = m.mapInfo[k].addr
  PROVE  TriedFits(r) /\ r.vvTried \in [TriedBuckets -> Seq(Ids(r))]
<1>1. m.vvTried \in [TriedBuckets -> Seq(Ids(m))]
  BY DEF Typed
<1>2. \A k \in TriedIds(m) : k \in Ids(r) /\ k \in Ids(m) /\ r.mapInfo[k].fInTried /\ m.mapInfo[k].fInTried
  BY DEF TriedIds
<1>3. ASSUME NEW b \in TriedBuckets
      PROVE  LET v == r.vvTried[b]
             IN /\ v \in Seq(Ids(r)) /\ Len(v) <= ADDRMAN_TRIED_BUCKET_SIZE
                /\ \A n \in 1..Len(v) : r.mapInfo[v[n]].fInTried /\ TriedBucket[r.mapInfo[v[n]].addr] = b
                /\ \A n, k \in 1..Len(v) : v[n] = v[k] => n = k
  <2> DEFINE v == m.vvTried[b]
  <2>1. r.vvTried[b] = v /\ v \in Seq(Ids(m))
    BY <1>1
  <2>2. /\ Len(v) <= ADDRMAN_TRIED_BUCKET_SIZE
        /\ \A n \in 1..Len(v) : m.mapInfo[v[n]].fInTried /\ TriedBucket[m.mapInfo[v[n]].addr] = b
        /\ \A n, k \in 1..Len(v) : v[n] = v[k] => n = k
    BY DEF TriedFits
  <2> HIDE DEF v
  <2>3. \A n \in 1..Len(v) : v[n] \in TriedIds(m)
    BY <2>1, <2>2 DEF TriedIds
  <2>4. \A n \in 1..Len(v) : v[n] \in Ids(r) /\ r.mapInfo[v[n]].fInTried /\ TriedBucket[r.mapInfo[v[n]].addr] = b
    BY <1>2, <2>2, <2>3
  <2>5. v \in Seq(Ids(r))
    BY <2>1, <2>4
  <2> QED
    BY <2>1, <2>2, <2>4, <2>5
<1>4. ASSUME NEW i \in Ids(r), r.mapInfo[i].fInTried
      PROVE  \E n \in 1..Len(r.vvTried[TriedBucket[r.mapInfo[i].addr]]) :
               r.vvTried[TriedBucket[r.mapInfo[i].addr]][n] = i
  <2>1. i \in TriedIds(m)
    BY <1>4 DEF TriedIds
  <2>2. i \in Ids(m) /\ m.mapInfo[i].fInTried /\ r.mapInfo[i].addr = m.mapInfo[i].addr
    BY <1>2, <2>1, Zenon
  <2> QED
    BY <2>2 DEF TriedFits
<1>5. TriedFits(r)
  BY <1>3, <1>4 DEF TriedFits
<1>6. r.vvTried \in [TriedBuckets -> Seq(Ids(r))]
  BY <1>1, <1>3
<1> QED
  BY <1>5, <1>6

\* Add_ of an address it does not know, before it is put into a bucket.
Created(m, a, s) == [Create(m, a, s) EXCEPT !.nNew = @ + 1]

\* Create puts an entry into every index.
LEMMA CreateFit ==
  ASSUME NEW m, Fit(m, None, None), NEW a \in Address, a \notin DOMAIN m.mapAddr, NEW s \in Source
  PROVE  LET r == Created(m, a, s)
             id == m.nIdCount
         IN /\ Fit(r, None, id) /\ Ids(r) = Ids(m) \cup {id} /\ TriedIds(r) = TriedIds(m)
            /\ id \notin Ids(m) /\ r.mapInfo[id].nRefCount = 0 /\ ~r.mapInfo[id].fInTried
            /\ r.mapAddr = With(m.mapAddr, a, id) /\ r.vvNew = m.vvNew
            /\ \A k \in Ids(m) : r.mapInfo[k] = m.mapInfo[k]
<1> DEFINE r == Created(m, a, s)
           id == m.nIdCount
           e == [addr |-> a, source |-> s, nLastSuccess |-> 0, nRefCount |-> 0,
                 fInTried |-> FALSE, nRandomPos |-> Len(m.vRandom) + 1]
<1>1. Typed(m) /\ Named(m) /\ Ordered(m) /\ Counted(m) /\ Referenced(m, None, None)
      /\ NewFits(m) /\ TriedFits(m)
  BY DEF Fit
<1>2. /\ r.mapInfo = With(m.mapInfo, id, e) /\ r.mapAddr = With(m.mapAddr, a, id)
      /\ r.vRandom = Append(m.vRandom, id) /\ r.vvTried = m.vvTried /\ r.vvNew = m.vvNew
      /\ r.nTried = m.nTried /\ r.nNew = m.nNew + 1 /\ r.nIdCount = id + 1
      /\ Shape(r)
  <2>1. Shape(m)
    BY <1>1 DEF Typed
  <2> QED
    <3>1. r = [[m EXCEPT !.mapInfo = With(m.mapInfo, id, e), !.mapAddr = With(m.mapAddr, a, id),
                         !.vRandom = Append(@, id), !.nIdCount = @ + 1] EXCEPT !.nNew = @ + 1]
      BY Zenon DEF Created, Create
    <3> HIDE DEF r, e
    <3> QED
      BY <2>1, <3>1 DEF Shape
<1> HIDE DEF r
<1>3. /\ m.mapInfo \in [Ids(m) -> Entry] /\ m.mapAddr \in [DOMAIN m.mapAddr -> Ids(m)]
      /\ m.vRandom \in Seq(Ids(m)) /\ m.vvNew \in [NewBuckets -> SUBSET Ids(m)]
      /\ m.nTried \in Int /\ m.nNew \in Int /\ id \in Nat /\ Ids(m) \subseteq 0..(id - 1)
  BY <1>1 DEF Typed
<1>4. id \notin Ids(m) /\ id # None /\ Len(m.vRandom) \in Nat
  BY <1>3 DEF None
<1>5. e \in Entry
  BY <1>4 DEF Entry
<1>6. e.addr = a /\ e.nRefCount = 0 /\ e.fInTried = FALSE /\ e.nRandomPos = Len(m.vRandom) + 1
  OBVIOUS
<1> HIDE DEF e, id
<1>7. Ids(r) = Ids(m) \cup {id} /\ r.mapInfo[id] = e /\ \A k \in Ids(m) : r.mapInfo[k] = m.mapInfo[k]
  BY <1>2, <1>4 DEF Ids, With
<1>8. DOMAIN r.mapAddr = DOMAIN m.mapAddr \cup {a} /\ r.mapAddr[a] = id
      /\ \A b \in DOMAIN m.mapAddr : r.mapAddr[b] = m.mapAddr[b] /\ b # a
  BY <1>2 DEF With
<1>9. Len(r.vRandom) = Len(m.vRandom) + 1 /\ r.vRandom[Len(m.vRandom) + 1] = id
      /\ r.vRandom \in Seq(Ids(r))
      /\ \A n \in 1..Len(m.vRandom) : r.vRandom[n] = m.vRandom[n]
  <2>1. m.vRandom \in Seq(Ids(r)) /\ id \in Ids(r)
    BY <1>3, <1>7
  <2> QED
    BY <1>2, <2>1
<1>10. TriedIds(r) = TriedIds(m)
  BY <1>4, <1>6, <1>7 DEF TriedIds
<1>11. TriedFits(r) /\ r.vvTried \in [TriedBuckets -> Seq(Ids(r))]
  <2>1. \A k \in TriedIds(m) : r.mapInfo[k].addr = m.mapInfo[k].addr
    BY <1>7 DEF TriedIds
  <2> QED
    BY <1>1, <1>2, <1>10, <2>1, TriedSame
<1>12. Typed(r)
  <2>1. r.mapInfo \in [Ids(r) -> Entry]
    BY <1>2, <1>3, <1>5, <1>7 DEF With, Ids
  <2>2. r.mapAddr \in [DOMAIN r.mapAddr -> Ids(r)]
    BY <1>2, <1>3, <1>7, <1>8 DEF With
  <2>3. r.vvNew \in [NewBuckets -> SUBSET Ids(r)]
    BY <1>2, <1>3, <1>7
  <2>4. r.nTried \in Int /\ r.nNew \in Int /\ r.nIdCount \in Nat /\ Ids(r) \subseteq 0..(r.nIdCount - 1)
    BY <1>2, <1>3, <1>7
  <2> QED
    BY <1>2, <1>9, <1>11, <2>1, <2>2, <2>3, <2>4 DEF Typed
<1>13. Named(r)
  <2>1. \A k \in Ids(m) : m.mapInfo[k].addr \in DOMAIN m.mapAddr /\ m.mapAddr[m.mapInfo[k].addr] = k
    BY <1>1 DEF Named
  <2>2. \A b \in DOMAIN m.mapAddr : m.mapInfo[m.mapAddr[b]].addr = b /\ m.mapAddr[b] \in Ids(m)
    BY <1>1, <1>3 DEF Named
  <2> QED
    BY <1>6, <1>7, <1>8, <2>1, <2>2 DEF Named
<1>14. Ordered(r)
  <2>1. ASSUME NEW k \in Ids(r)
        PROVE  r.mapInfo[k].nRandomPos \in 1..Len(r.vRandom) /\ r.vRandom[r.mapInfo[k].nRandomPos] = k
    <3>1. CASE k = id
      BY <1>4, <1>6, <1>7, <1>9, <3>1
    <3>2. CASE k \in Ids(m)
      <4>1. r.mapInfo[k] = m.mapInfo[k]
        BY <1>7, <3>2
      <4>2. m.mapInfo[k].nRandomPos \in 1..Len(m.vRandom) /\ m.vRandom[m.mapInfo[k].nRandomPos] = k
        BY <1>1, <3>2 DEF Ordered
      <4>3. \A n \in 1..Len(m.vRandom) : n \in 1..Len(r.vRandom) /\ r.vRandom[n] = m.vRandom[n]
        BY <1>4, <1>9
      <4> QED
        BY <4>1, <4>2, <4>3
    <3> QED
      BY <1>7, <3>1, <3>2
  <2>2. ASSUME NEW n \in 1..Len(r.vRandom)
        PROVE  r.mapInfo[r.vRandom[n]].nRandomPos = n
    <3>1. CASE n = Len(m.vRandom) + 1
      BY <1>6, <1>7, <1>9, <3>1
    <3>2. CASE n \in 1..Len(m.vRandom)
      <4>1. m.vRandom[n] \in Ids(m)
        BY <1>3, <3>2
      <4> QED
        BY <1>1, <1>7, <1>9, <3>2, <4>1 DEF Ordered
    <3> QED
      BY <1>4, <1>9, <3>1, <3>2
  <2> QED
    BY <2>1, <2>2 DEF Ordered
<1>15. Counted(r)
  <2>1. Ids(r) \ TriedIds(r) = (Ids(m) \ TriedIds(m)) \cup {id} /\ id \notin Ids(m) \ TriedIds(m)
    BY <1>4, <1>7, <1>10 DEF TriedIds
  <2>2. IsFiniteSet(Ids(m) \ TriedIds(m))
    BY <1>1, IdsFinite
  <2>3. Cardinality(Ids(r) \ TriedIds(r)) = Cardinality(Ids(m) \ TriedIds(m)) + 1
    BY <2>1, <2>2, FS_AddElement
  <2>4. Len(m.vRandom) = m.nTried + m.nNew /\ Cardinality(TriedIds(m)) = m.nTried
        /\ Cardinality(Ids(m) \ TriedIds(m)) = m.nNew
    BY <1>1 DEF Counted
  <2>5. Len(r.vRandom) = r.nTried + r.nNew
    <3>1. r.nTried = m.nTried /\ r.nNew = m.nNew + 1 /\ Len(r.vRandom) = Len(m.vRandom) + 1
      BY <1>2, <1>9
    <3> QED
      BY <1>3, <2>4, <3>1
  <2> QED
    BY <1>2, <1>10, <2>3, <2>4, <2>5 DEF Counted
<1>16. Referenced(r, None, id)
  <2>1. \A k : InNew(r, k) = InNew(m, k)
    BY <1>2 DEF InNew
  <2>2. InNew(m, id) = {} /\ Cardinality(InNew(m, id)) = 0
    <3>1. InNew(m, id) = {}
      BY <1>3, <1>4 DEF InNew
    <3> QED
      BY <3>1, FS_EmptySet
  <2>3. ASSUME NEW k \in Ids(r)
        PROVE  /\ r.mapInfo[k].nRefCount = Cardinality(InNew(r, k)) + (IF k = None THEN 1 ELSE 0)
               /\ r.mapInfo[k].nRefCount <= ADDRMAN_NEW_BUCKETS_PER_ADDRESS
               /\ IF r.mapInfo[k].fInTried
                  THEN r.mapInfo[k].nRefCount = 0 /\ r.mapInfo[k].nLastSuccess # 0
                  ELSE k # id => r.mapInfo[k].nRefCount # 0
    <3>1. CASE k = id
      <4>1. r.mapInfo[k].nRefCount = 0 /\ r.mapInfo[k].fInTried = FALSE /\ k # None
        BY <1>4, <1>6, <1>7, <3>1
      <4>2. Cardinality(InNew(r, k)) = 0
        BY <2>1, <2>2, <3>1
      <4>3. 0 <= ADDRMAN_NEW_BUCKETS_PER_ADDRESS
        BY AddrManAssumption
      <4> QED
        BY <3>1, <4>1, <4>2, <4>3
    <3>2. CASE k \in Ids(m)
      <4>1. r.mapInfo[k] = m.mapInfo[k] /\ InNew(r, k) = InNew(m, k) /\ k # None
        BY <1>1, <1>7, <2>1, <3>2, IdsFinite
      <4> QED
        BY <1>1, <3>2, <4>1 DEF Referenced
    <3> QED
      BY <1>7, <3>1, <3>2
  <2> QED
    BY <2>3 DEF Referenced
<1>17. NewFits(r)
  BY <1>1, <1>2 DEF NewFits
<1>18. Fit(r, None, id)
  BY <1>11, <1>12, <1>13, <1>14, <1>15, <1>16, <1>17 DEF Fit
<1> QED
  BY <1>2, <1>4, <1>6, <1>7, <1>10, <1>18 DEF r, id


\* Two states that differ in references and new buckets only.
SameButRefs(m, r) ==
  /\ Shape(r) /\ r.mapInfo \in [Ids(m) -> Entry] /\ r.vvNew \in [NewBuckets -> SUBSET Ids(m)]
  /\ r.mapAddr = m.mapAddr /\ r.vRandom = m.vRandom /\ r.vvTried = m.vvTried
  /\ r.nTried = m.nTried /\ r.nNew = m.nNew /\ r.nIdCount = m.nIdCount
  /\ \A k \in Ids(m) : /\ r.mapInfo[k].addr = m.mapInfo[k].addr
                       /\ r.mapInfo[k].nRandomPos = m.mapInfo[k].nRandomPos
                       /\ r.mapInfo[k].fInTried = m.mapInfo[k].fInTried
                       /\ r.mapInfo[k].nLastSuccess = m.mapInfo[k].nLastSuccess

\* The indexes do not depend on the references.
LEMMA RefsFit ==
  ASSUME NEW m, NEW r, NEW x, NEW z, NEW y, NEW w, Fit(m, x, z), SameButRefs(m, r),
         Referenced(r, y, w), NewFits(r)
  PROVE  Fit(r, y, w) /\ Ids(r) = Ids(m) /\ TriedIds(r) = TriedIds(m)
<1>1. Typed(m) /\ Named(m) /\ Ordered(m) /\ Counted(m) /\ TriedFits(m)
  BY DEF Fit
<1>2. Ids(r) = Ids(m)
  BY DEF SameButRefs, Ids
<1>3. TriedIds(r) = TriedIds(m)
  BY <1>2 DEF TriedIds, SameButRefs
<1>4. TriedFits(r) /\ r.vvTried \in [TriedBuckets -> Seq(Ids(r))]
  <2>1. r.vvTried = m.vvTried /\ \A k \in TriedIds(m) : r.mapInfo[k].addr = m.mapInfo[k].addr
    BY DEF TriedIds, SameButRefs
  <2> QED
    BY <1>1, <1>3, <2>1, TriedSame
<1>5. Typed(r)
  BY <1>1, <1>2, <1>4 DEF Typed, SameButRefs
<1>6. Named(r)
  <2>1. \A a \in DOMAIN m.mapAddr : m.mapAddr[a] \in Ids(m)
    BY <1>1 DEF Typed
  <2> QED
    BY <1>1, <1>2, <2>1 DEF Named, SameButRefs
<1>7. Ordered(r)
  <2>1. \A n \in 1..Len(m.vRandom) : m.vRandom[n] \in Ids(m)
    <3>1. m.vRandom \in Seq(Ids(m))
      BY <1>1 DEF Typed
    <3> QED
      BY <3>1
  <2> QED
    BY <1>1, <1>2, <2>1 DEF Ordered, SameButRefs
<1>8. Counted(r)
  BY <1>1, <1>2, <1>3 DEF Counted, SameButRefs
<1> QED
  BY <1>2, <1>3, <1>4, <1>5, <1>6, <1>7, <1>8 DEF Fit

\* An entry that may have one more reference is given it.
Taken(m, id) == [m EXCEPT !.mapInfo[id].nRefCount = @ + 1]

\* A counted reference that is in no bucket yet is the one of x.
LEMMA TakeFit ==
  ASSUME NEW m, NEW z, Fit(m, None, z), NEW id \in Ids(m), z \in {None, id}, MayReference(m, id)
  PROVE  LET r == Taken(m, id)
         IN /\ Fit(r, id, None) /\ Ids(r) = Ids(m) /\ TriedIds(r) = TriedIds(m)
            /\ r.mapAddr = m.mapAddr /\ r.vvNew = m.vvNew
            /\ \A k \in Ids(m) : r.mapInfo[k].addr = m.mapInfo[k].addr
<1> DEFINE r == Taken(m, id)
           e == m.mapInfo[id]
           f == [m.mapInfo EXCEPT ![id] = [e EXCEPT !.nRefCount = e.nRefCount + 1]]
<1>1. Typed(m) /\ Referenced(m, None, z) /\ NewFits(m)
  BY DEF Fit
<1>2. /\ r.mapInfo = f /\ r.mapAddr = m.mapAddr /\ r.vRandom = m.vRandom
      /\ r.vvTried = m.vvTried /\ r.vvNew = m.vvNew /\ r.nTried = m.nTried
      /\ r.nNew = m.nNew /\ r.nIdCount = m.nIdCount /\ Shape(r)
  <2>1. Shape(m)
    BY <1>1 DEF Typed
  <2>2. r = [m EXCEPT !.mapInfo = f]
    BY Zenon DEF Taken
  <2> HIDE DEF r, f
  <2> QED
    BY <2>1, <2>2 DEF Shape
<1> HIDE DEF r
<1>3. m.mapInfo \in [Ids(m) -> Entry] /\ m.vvNew \in [NewBuckets -> SUBSET Ids(m)] /\ e \in Entry
  BY <1>1 DEF Typed
<1>4. ~e.fInTried /\ e.nRefCount < ADDRMAN_NEW_BUCKETS_PER_ADDRESS /\ e.nRefCount \in Nat
  BY <1>3 DEF MayReference, Entry
<1>5. [e EXCEPT !.nRefCount = e.nRefCount + 1] \in Entry
  BY <1>3 DEF Entry
<1>6. f \in [Ids(m) -> Entry] /\ f[id] = [e EXCEPT !.nRefCount = e.nRefCount + 1]
      /\ \A k \in Ids(m) : k # id => f[k] = m.mapInfo[k]
  BY <1>3, <1>5
<1>7. /\ f[id].nRefCount = e.nRefCount + 1 /\ f[id].addr = e.addr /\ f[id].fInTried = e.fInTried
      /\ f[id].nRandomPos = e.nRandomPos /\ f[id].nLastSuccess = e.nLastSuccess
  BY <1>3, <1>6 DEF Entry
<1> HIDE DEF f
<1>8. SameButRefs(m, r)
  <2>1. ASSUME NEW k \in Ids(m)
        PROVE  /\ f[k].addr = m.mapInfo[k].addr /\ f[k].nRandomPos = m.mapInfo[k].nRandomPos
               /\ f[k].fInTried = m.mapInfo[k].fInTried
               /\ f[k].nLastSuccess = m.mapInfo[k].nLastSuccess
    BY <1>6, <1>7
  <2> QED
    BY <1>2, <1>3, <1>6, <2>1 DEF SameButRefs
<1>9. Referenced(r, id, None)
  <2>1. \A k : InNew(r, k) = InNew(m, k)
    BY <1>2 DEF InNew
  <2>2. None \notin Ids(m) /\ Ids(r) = Ids(m)
    BY <1>1, <1>2, <1>6, IdsFinite DEF Ids
  <2>3. ASSUME NEW k \in Ids(m)
        PROVE  /\ f[k].nRefCount = Cardinality(InNew(m, k)) + (IF k = id THEN 1 ELSE 0)
               /\ f[k].nRefCount <= ADDRMAN_NEW_BUCKETS_PER_ADDRESS
               /\ IF f[k].fInTried
                  THEN f[k].nRefCount = 0 /\ f[k].nLastSuccess # 0
                  ELSE k # None => f[k].nRefCount # 0
    <3>1. /\ m.mapInfo[k].nRefCount = Cardinality(InNew(m, k))
          /\ m.mapInfo[k].nRefCount <= ADDRMAN_NEW_BUCKETS_PER_ADDRESS
          /\ IF m.mapInfo[k].fInTried
             THEN m.mapInfo[k].nRefCount = 0 /\ m.mapInfo[k].nLastSuccess # 0
             ELSE k # z => m.mapInfo[k].nRefCount # 0
      BY <1>1, <2>2, InNewFinite DEF Referenced
    <3>2. CASE k = id
      <4>1. f[k].nRefCount = e.nRefCount + 1 /\ e.nRefCount = Cardinality(InNew(m, k)) /\ ~f[k].fInTried
        BY <1>4, <1>7, <3>1, <3>2
      <4> QED
        BY <1>4, <3>2, <4>1, AddrManAssumption
    <3>3. CASE k # id
      BY <1>6, <2>2, <3>1, <3>3, InNewFinite
    <3> QED
      BY <3>2, <3>3
  <2> QED
    BY <1>2, <2>1, <2>2, <2>3 DEF Referenced
<1>10. NewFits(r)
  BY <1>1, <1>2 DEF NewFits
<1>11. Fit(r, id, None) /\ Ids(r) = Ids(m) /\ TriedIds(r) = TriedIds(m)
  BY <1>8, <1>9, <1>10, RefsFit
<1>12. \A k \in Ids(m) : r.mapInfo[k].addr = m.mapInfo[k].addr
  BY <1>8 DEF SameButRefs
<1> QED
  BY <1>2, <1>11, <1>12 DEF r

\* A bucket takes in the entry on its way.
Inserted(m, id, b) == [m EXCEPT !.vvNew[b] = m.vvNew[b] \cup {id}]

\* Once the entry is in the bucket no reference is open.
LEMMA InsertFit ==
  ASSUME NEW m, NEW id \in Ids(m), Fit(m, id, None), NEW b \in NewBuckets, id \notin m.vvNew[b],
         Cardinality(m.vvNew[b]) < ADDRMAN_NEW_BUCKET_SIZE
  PROVE  LET r == Inserted(m, id, b)
         IN /\ Fit(r, None, None) /\ Ids(r) = Ids(m) /\ TriedIds(r) = TriedIds(m)
            /\ r.mapAddr = m.mapAddr /\ r.mapInfo = m.mapInfo
<1> DEFINE r == Inserted(m, id, b)
           g == [m.vvNew EXCEPT ![b] = m.vvNew[b] \cup {id}]
<1>1. Typed(m) /\ Referenced(m, id, None) /\ NewFits(m)
  BY DEF Fit
<1>2. /\ r.mapInfo = m.mapInfo /\ r.mapAddr = m.mapAddr /\ r.vRandom = m.vRandom
      /\ r.vvTried = m.vvTried /\ r.vvNew = g /\ r.nTried = m.nTried
      /\ r.nNew = m.nNew /\ r.nIdCount = m.nIdCount /\ Shape(r)
  <2>1. Shape(m)
    BY <1>1 DEF Typed
  <2>2. r = [m EXCEPT !.vvNew = g]
    BY Zenon DEF Inserted
  <2> HIDE DEF r, g
  <2> QED
    BY <2>1, <2>2 DEF Shape
<1> HIDE DEF r
<1>3. m.mapInfo \in [Ids(m) -> Entry] /\ m.vvNew \in [NewBuckets -> SUBSET Ids(m)]
  BY <1>1 DEF Typed
<1>4. g \in [NewBuckets -> SUBSET Ids(m)] /\ g[b] = m.vvNew[b] \cup {id}
      /\ \A c \in NewBuckets : c # b => g[c] = m.vvNew[c]
  BY <1>3
<1> HIDE DEF g
<1>5. SameButRefs(m, r)
  BY <1>2, <1>3, <1>4 DEF SameButRefs
<1>6. Ids(r) = Ids(m) /\ None \notin Ids(m)
  BY <1>1, <1>2, IdsFinite DEF Ids
<1>7. InNew(r, id) = InNew(m, id) \cup {b} /\ b \notin InNew(m, id)
      /\ \A k : k # id => InNew(r, k) = InNew(m, k)
  <2>1. ASSUME NEW c \in NewBuckets, NEW k PROVE k \in g[c] <=> k \in m.vvNew[c] \/ (c = b /\ k = id)
    BY <1>4
  <2> QED
    BY <1>2, <2>1 DEF InNew
<1>8. Cardinality(InNew(r, id)) = Cardinality(InNew(m, id)) + 1
  BY <1>7, InNewFinite, FS_AddElement
<1>9. Referenced(r, None, None)
  <2>1. ASSUME NEW k \in Ids(m)
        PROVE  m.mapInfo[k].nRefCount = Cardinality(InNew(r, k)) + 0
    <3>1. CASE k = id
      BY <1>1, <1>8, <3>1, InNewFinite DEF Referenced
    <3>2. CASE k # id
      BY <1>1, <1>7, <3>2 DEF Referenced
    <3> QED
      BY <3>1, <3>2
  <2> QED
    BY <1>1, <1>2, <1>6, <2>1 DEF Referenced
<1>10. NewFits(r)
  <2>1. ASSUME NEW c \in NewBuckets PROVE Cardinality(r.vvNew[c]) <= ADDRMAN_NEW_BUCKET_SIZE
    <3>1. CASE c = b
      <4>1. r.vvNew[c] = m.vvNew[b] \cup {id} /\ m.vvNew[b] \subseteq Ids(m)
        BY <1>2, <1>3, <1>4, <3>1
      <4>2. IsFiniteSet(m.vvNew[b]) /\ Cardinality(m.vvNew[b]) \in Nat
        BY <1>1, <4>1, IdsFinite
      <4>3. Cardinality(r.vvNew[c]) = Cardinality(m.vvNew[b]) + 1
        BY <4>1, <4>2, FS_AddElement
      <4> QED
        BY <4>2, <4>3, AddrManAssumption
    <3>2. CASE c # b
      BY <1>1, <1>2, <1>4, <3>2 DEF NewFits
    <3> QED
      BY <3>1, <3>2
  <2> QED
    BY <2>1 DEF NewFits
<1>11. Fit(r, None, None) /\ Ids(r) = Ids(m) /\ TriedIds(r) = TriedIds(m)
  BY <1>5, <1>9, <1>10, RefsFit
<1> QED
  BY <1>2, <1>11 DEF r


\* ShrinkNew: an entry of the bucket loses this reference, and is forgotten with its last.
Released(m, b, v) == [m EXCEPT !.mapInfo[v].nRefCount = @ - 1, !.vvNew[b] = @ \ {v}]

\* An entry that leaves a bucket may be without references.
LEMMA ReleaseFit ==
  ASSUME NEW m, NEW x, Fit(m, x, None), NEW b \in NewBuckets, NEW v \in m.vvNew[b], v # x
  PROVE  LET r == Released(m, b, v)
         IN /\ Fit(r, x, v) /\ Ids(r) = Ids(m) /\ TriedIds(r) = TriedIds(m) /\ r.mapAddr = m.mapAddr
            /\ r.mapInfo[v].nRefCount # 0 => Fit(r, x, None)
            /\ r.vvNew[b] = m.vvNew[b] \ {v} /\ v \in Ids(m) /\ ~r.mapInfo[v].fInTried
            /\ \A k \in Ids(m) : r.mapInfo[k].addr = m.mapInfo[k].addr
<1> DEFINE r == Released(m, b, v)
           e == m.mapInfo[v]
           f == [m.mapInfo EXCEPT ![v] = [e EXCEPT !.nRefCount = e.nRefCount - 1]]
           g == [m.vvNew EXCEPT ![b] = m.vvNew[b] \ {v}]
<1>1. Typed(m) /\ Referenced(m, x, None) /\ NewFits(m)
  BY DEF Fit
<1>2. /\ r.mapInfo = f /\ r.mapAddr = m.mapAddr /\ r.vRandom = m.vRandom
      /\ r.vvTried = m.vvTried /\ r.vvNew = g /\ r.nTried = m.nTried
      /\ r.nNew = m.nNew /\ r.nIdCount = m.nIdCount /\ Shape(r)
  <2>1. Shape(m)
    BY <1>1 DEF Typed
  <2>2. r = [m EXCEPT !.mapInfo = f, !.vvNew = g]
    BY Zenon DEF Released
  <2> HIDE DEF r, f, g
  <2> QED
    BY <2>1, <2>2 DEF Shape
<1> HIDE DEF r
<1>3. m.mapInfo \in [Ids(m) -> Entry] /\ m.vvNew \in [NewBuckets -> SUBSET Ids(m)] /\ v \in Ids(m)
      /\ e \in Entry
  BY <1>1 DEF Typed
<1>4. ~e.fInTried /\ v # None
  BY <1>1, <1>3, TablesApart, IdsFinite
<1>5. b \in InNew(m, v) /\ Cardinality(InNew(m, v)) \in Nat /\ Cardinality(InNew(m, v)) # 0
  <2>1. b \in InNew(m, v)
    BY DEF InNew
  <2> QED
    BY <2>1, InNewFinite
<1>6. e.nRefCount = Cardinality(InNew(m, v)) /\ e.nRefCount \in Nat \ {0}
  BY <1>1, <1>3, <1>5 DEF Referenced
<1>7. [e EXCEPT !.nRefCount = e.nRefCount - 1] \in Entry
  BY <1>3, <1>6 DEF Entry
<1>8. f \in [Ids(m) -> Entry] /\ f[v] = [e EXCEPT !.nRefCount = e.nRefCount - 1]
      /\ \A k \in Ids(m) : k # v => f[k] = m.mapInfo[k]
  BY <1>3, <1>7
<1>9. /\ f[v].nRefCount = e.nRefCount - 1 /\ f[v].addr = e.addr /\ f[v].fInTried = e.fInTried
      /\ f[v].nRandomPos = e.nRandomPos /\ f[v].nLastSuccess = e.nLastSuccess
  BY <1>3, <1>8 DEF Entry
<1>10. g \in [NewBuckets -> SUBSET Ids(m)] /\ g[b] = m.vvNew[b] \ {v}
       /\ \A c \in NewBuckets : c # b => g[c] = m.vvNew[c]
  BY <1>3
<1> HIDE DEF f, g
<1>11. SameButRefs(m, r)
  <2>1. ASSUME NEW k \in Ids(m)
        PROVE  /\ f[k].addr = m.mapInfo[k].addr /\ f[k].nRandomPos = m.mapInfo[k].nRandomPos
               /\ f[k].fInTried = m.mapInfo[k].fInTried
               /\ f[k].nLastSuccess = m.mapInfo[k].nLastSuccess
    BY <1>8, <1>9
  <2> QED
    BY <1>2, <1>8, <1>10, <2>1 DEF SameButRefs
<1>12. Ids(r) = Ids(m) /\ None \notin Ids(m)
  BY <1>1, <1>2, <1>8, IdsFinite DEF Ids
<1>13. InNew(r, v) = InNew(m, v) \ {b} /\ \A k : k # v => InNew(r, k) = InNew(m, k)
  <2>1. ASSUME NEW c \in NewBuckets, NEW k PROVE k \in g[c] <=> k \in m.vvNew[c] /\ ~(c = b /\ k = v)
    BY <1>10
  <2> QED
    BY <1>2, <2>1 DEF InNew
<1>14. Cardinality(InNew(r, v)) = Cardinality(InNew(m, v)) - 1
  <2> DEFINE B == InNew(m, v)
  <2>1. IsFiniteSet(B) /\ b \in B /\ InNew(r, v) = B \ {b}
    BY <1>5, <1>13, InNewFinite, Zenon
  <2> HIDE DEF B
  <2>2. Cardinality(B \ {b}) = Cardinality(B) - 1
    BY <2>1, FS_RemoveElement
  <2> QED
    BY <2>1, <2>2, Zenon DEF B
<1>15. ASSUME NEW k \in Ids(m)
       PROVE  /\ f[k].nRefCount = Cardinality(InNew(r, k)) + (IF k = x THEN 1 ELSE 0)
              /\ f[k].nRefCount <= ADDRMAN_NEW_BUCKETS_PER_ADDRESS
              /\ IF f[k].fInTried
                 THEN f[k].nRefCount = 0 /\ f[k].nLastSuccess # 0
                 ELSE k # v => f[k].nRefCount # 0
  <2>1. /\ m.mapInfo[k].nRefCount = Cardinality(InNew(m, k)) + (IF k = x THEN 1 ELSE 0)
        /\ m.mapInfo[k].nRefCount <= ADDRMAN_NEW_BUCKETS_PER_ADDRESS
        /\ IF m.mapInfo[k].fInTried
           THEN m.mapInfo[k].nRefCount = 0 /\ m.mapInfo[k].nLastSuccess # 0
           ELSE m.mapInfo[k].nRefCount # 0
    BY <1>1, <1>12 DEF Referenced
  <2>2. CASE k = v
    <3>1. f[k].nRefCount = e.nRefCount - 1 /\ ~f[k].fInTried /\ k # x
      BY <1>4, <1>9, <2>2
    <3>2. e.nRefCount <= ADDRMAN_NEW_BUCKETS_PER_ADDRESS /\ ADDRMAN_NEW_BUCKETS_PER_ADDRESS \in Nat
      BY <2>1, <2>2, AddrManAssumption
    <3> QED
      BY <1>6, <1>14, <2>2, <3>1, <3>2
  <2>3. CASE k # v
    BY <1>8, <1>13, <2>1, <2>3
  <2> QED
    BY <2>2, <2>3
<1>16. Referenced(r, x, v)
  BY <1>2, <1>12, <1>15 DEF Referenced
<1>17. r.mapInfo[v].nRefCount # 0 => Referenced(r, x, None)
  BY <1>2, <1>12, <1>15 DEF Referenced
<1>18. NewFits(r)
  <2>1. ASSUME NEW c \in NewBuckets PROVE Cardinality(r.vvNew[c]) <= ADDRMAN_NEW_BUCKET_SIZE
    <3>1. CASE c = b
      <4>1. r.vvNew[c] = m.vvNew[b] \ {v} /\ m.vvNew[b] \subseteq Ids(m)
        BY <1>2, <1>3, <1>10, <3>1
      <4>2. IsFiniteSet(m.vvNew[b]) /\ Cardinality(m.vvNew[b]) \in Nat
        BY <1>1, <4>1, IdsFinite
      <4>3. Cardinality(r.vvNew[c]) = Cardinality(m.vvNew[b]) - 1
        <5> DEFINE B == m.vvNew[b]
        <5>1. v \in B /\ IsFiniteSet(B)
          BY <4>2
        <5> HIDE DEF B
        <5>2. Cardinality(B \ {v}) = Cardinality(B) - 1
          BY <5>1, FS_RemoveElement
        <5> QED
          BY <4>1, <5>2 DEF B
      <4>4. Cardinality(m.vvNew[b]) <= ADDRMAN_NEW_BUCKET_SIZE /\ ADDRMAN_NEW_BUCKET_SIZE \in Nat
        BY <1>1, AddrManAssumption DEF NewFits
      <4> QED
        BY <4>2, <4>3, <4>4
    <3>2. CASE c # b
      BY <1>1, <1>2, <1>10, <3>2 DEF NewFits
    <3> QED
      BY <3>1, <3>2
  <2> QED
    BY <2>1 DEF NewFits
<1>19. Fit(r, x, v) /\ Ids(r) = Ids(m) /\ TriedIds(r) = TriedIds(m)
  BY <1>11, <1>16, <1>18, RefsFit
<1>20. r.mapInfo[v].nRefCount # 0 => Fit(r, x, None)
  BY <1>11, <1>17, <1>18, RefsFit
<1>21. /\ \A k \in Ids(m) : r.mapInfo[k].addr = m.mapInfo[k].addr
       /\ r.vvNew[b] = m.vvNew[b] \ {v} /\ ~r.mapInfo[v].fInTried /\ r.mapAddr = m.mapAddr
  BY <1>2, <1>3, <1>4, <1>9, <1>10, <1>11 DEF SameButRefs
<1> QED
  BY <1>3, <1>19, <1>20, <1>21 DEF r

\* ShrinkNew forgets the entry if that was its last reference.
LEMMA ShrinkFit ==
  ASSUME NEW m, NEW x, Fit(m, x, None), NEW b \in NewBuckets, NEW v \in m.vvNew[b], v # x
  PROVE  LET r == ShrinkNew(m, b, v)
         IN /\ Fit(r, x, None) /\ Ids(m) \ {v} \subseteq Ids(r) /\ TriedIds(r) = TriedIds(m)
            /\ r.vvNew[b] = m.vvNew[b] \ {v}
            /\ \A k \in Ids(m) : k # v => m.mapInfo[k].addr \in DOMAIN r.mapAddr
<1> DEFINE r == ShrinkNew(m, b, v)
           less == Released(m, b, v)
<1>1. r = IF less.mapInfo[v].nRefCount = 0 THEN Forget(less, v) ELSE less
  BY Zenon DEF ShrinkNew, Released
<1> HIDE DEF r
<1>2. /\ Fit(less, x, v) /\ Ids(less) = Ids(m) /\ TriedIds(less) = TriedIds(m) /\ less.mapAddr = m.mapAddr
      /\ less.mapInfo[v].nRefCount # 0 => Fit(less, x, None)
      /\ less.vvNew[b] = m.vvNew[b] \ {v} /\ v \in Ids(m) /\ ~less.mapInfo[v].fInTried
      /\ \A k \in Ids(m) : less.mapInfo[k].addr = m.mapInfo[k].addr
  BY ReleaseFit
<1> HIDE DEF less
<1>3. \A k, l \in Ids(m) : /\ m.mapInfo[k].addr \in DOMAIN m.mapAddr
                           /\ k # l => m.mapInfo[k].addr # m.mapInfo[l].addr
  BY DEF Fit, Named
<1>4. CASE less.mapInfo[v].nRefCount = 0
  <2>1. r = Forget(less, v)
    BY <1>1, <1>4
  <2>2. /\ Fit(r, x, None) /\ Ids(r) = Ids(less) \ {v} /\ TriedIds(r) = TriedIds(less)
        /\ r.mapAddr = Without(less.mapAddr, less.mapInfo[v].addr) /\ r.vvNew = less.vvNew
    <3>1. Fit(less, x, v) /\ v \in Ids(less) /\ v # x /\ less.mapInfo[v].nRefCount = 0
          /\ ~less.mapInfo[v].fInTried
      BY <1>2, <1>4
    <3> QED
      BY <2>1, <3>1, ForgetFit
  <2>3. DOMAIN r.mapAddr = DOMAIN m.mapAddr \ {m.mapInfo[v].addr}
    BY <1>2, <2>2 DEF Without
  <2> QED
    BY <1>2, <1>3, <2>2, <2>3 DEF r
<1>5. CASE less.mapInfo[v].nRefCount # 0
  BY <1>1, <1>2, <1>3, <1>5 DEF r
<1> QED
  BY <1>4, <1>5

\* Reference, for an entry that may have one more.
LEMMA ReferenceFit ==
  ASSUME NEW m, NEW z, Fit(m, None, z), NEW id \in Ids(m), z \in {None, id}, MayReference(m, id),
         NEW b \in NewBuckets, id \notin m.vvNew[b], Reference(m, id, b)
  PROVE  /\ Fit(am', None, None) /\ TriedIds(am') = TriedIds(m)
         /\ \A k \in TriedIds(m) : m.mapInfo[k].addr \in DOMAIN am'.mapAddr
<1> DEFINE more == Taken(m, id)
<1>1. /\ Fit(more, id, None) /\ Ids(more) = Ids(m) /\ TriedIds(more) = TriedIds(m)
      /\ more.mapAddr = m.mapAddr /\ more.vvNew = m.vvNew
      /\ \A k \in Ids(m) : more.mapInfo[k].addr = m.mapInfo[k].addr
  BY TakeFit
<1>2. IF Cardinality(m.vvNew[b]) = ADDRMAN_NEW_BUCKET_SIZE
      THEN \E v \in m.vvNew[b] : am' = Inserted(ShrinkNew(more, b, v), id, b)
      ELSE am' = Inserted(more, id, b)
  BY Zenon DEF Reference, Taken, Inserted
<1> HIDE DEF more
<1>3. \A k \in TriedIds(m) : k \in Ids(m) /\ m.mapInfo[k].addr \in DOMAIN m.mapAddr
                             /\ \A c \in NewBuckets : k \notin m.vvNew[c]
  <2> SUFFICES ASSUME NEW k \in TriedIds(m)
               PROVE  k \in Ids(m) /\ m.mapInfo[k].addr \in DOMAIN m.mapAddr
                      /\ \A c \in NewBuckets : k \notin m.vvNew[c]
    OBVIOUS
  <2>1. k \in Ids(m) /\ m.mapInfo[k].fInTried
    BY DEF TriedIds
  <2> QED
    BY <2>1, TablesApart DEF Fit, Named
<1>4. /\ Typed(m) /\ IsFiniteSet(m.vvNew[b]) /\ Cardinality(m.vvNew[b]) \in Nat
      /\ Cardinality(m.vvNew[b]) <= ADDRMAN_NEW_BUCKET_SIZE /\ ADDRMAN_NEW_BUCKET_SIZE \in Nat
      /\ m.vvNew[b] \subseteq Ids(m)
  <2>1. Typed(m) /\ m.vvNew[b] \subseteq Ids(m) /\ Cardinality(m.vvNew[b]) <= ADDRMAN_NEW_BUCKET_SIZE
    BY DEF Fit, Typed, NewFits
  <2> QED
    BY <2>1, IdsFinite, AddrManAssumption
<1>5. CASE Cardinality(m.vvNew[b]) = ADDRMAN_NEW_BUCKET_SIZE
  <2>1. PICK v \in m.vvNew[b] : am' = Inserted(ShrinkNew(more, b, v), id, b)
    BY <1>2, <1>5
  <2> DEFINE s == ShrinkNew(more, b, v)
  <2>2. v # id /\ v \in more.vvNew[b]
    BY <1>1
  <2>3. /\ Fit(s, id, None) /\ Ids(more) \ {v} \subseteq Ids(s) /\ TriedIds(s) = TriedIds(more)
        /\ s.vvNew[b] = more.vvNew[b] \ {v}
        /\ \A k \in Ids(more) : k # v => more.mapInfo[k].addr \in DOMAIN s.mapAddr
    BY <1>1, <2>2, ShrinkFit
  <2> HIDE DEF s
  <2>4. Cardinality(s.vvNew[b]) < ADDRMAN_NEW_BUCKET_SIZE /\ id \in Ids(s) /\ id \notin s.vvNew[b]
    <3> DEFINE B == m.vvNew[b]
    <3>1. v \in B /\ IsFiniteSet(B) /\ s.vvNew[b] = B \ {v} /\ id \notin B
      BY <1>1, <1>4, <2>3
    <3>2. Cardinality(B) = ADDRMAN_NEW_BUCKET_SIZE /\ ADDRMAN_NEW_BUCKET_SIZE \in Nat
      BY <1>4, <1>5
    <3> HIDE DEF B
    <3>3. Cardinality(B \ {v}) = Cardinality(B) - 1
      BY <3>1, FS_RemoveElement
    <3>4. id \in Ids(s)
      BY <1>1, <2>2, <2>3
    <3> QED
      BY <3>1, <3>2, <3>3, <3>4
  <2>5. /\ Fit(am', None, None) /\ TriedIds(am') = TriedIds(s) /\ am'.mapAddr = s.mapAddr
    BY <2>1, <2>3, <2>4, InsertFit DEF s
  <2>6. \A k \in TriedIds(m) : m.mapInfo[k].addr \in DOMAIN am'.mapAddr
    BY <1>1, <1>3, <2>3, <2>5
  <2> QED
    BY <1>1, <2>3, <2>5, <2>6
<1>6. CASE Cardinality(m.vvNew[b]) # ADDRMAN_NEW_BUCKET_SIZE
  <2>1. am' = Inserted(more, id, b)
    BY <1>2, <1>6
  <2>2. Cardinality(more.vvNew[b]) < ADDRMAN_NEW_BUCKET_SIZE /\ id \notin more.vvNew[b] /\ id \in Ids(more)
    BY <1>1, <1>4, <1>6
  <2>3. Fit(am', None, None) /\ TriedIds(am') = TriedIds(more) /\ am'.mapAddr = more.mapAddr
    BY <1>1, <2>1, <2>2, InsertFit
  <2> QED
    BY <1>1, <1>3, <2>3
<1> QED
  BY <1>5, <1>6

\* The bucket of an address and a source is one of the buckets.
LEMMA NewBucketIs ==
  ASSUME NEW a \in Address, NEW s \in Source
  PROVE  NewBucket[<<a, s>>] \in NewBuckets
<1> DEFINE x == <<a, s>>
<1>1. x \in Address \X Source /\ NewBucket[<<a, s>>] = NewBucket[x]
  OBVIOUS
<1> HIDE DEF x
<1> QED
  BY <1>1 DEF NewBuckets

\* What TriedNeverForgotten says of a step.
TriedKept == \A i \in TriedIds(am) : am.mapInfo[i].addr \in DOMAIN am'.mapAddr

\* Add_ keeps the tables.
LEMMA AddFit ==
  ASSUME TablesInv, NEW a \in Address, NEW s \in Source, Add(a, s)
  PROVE  TablesInv' /\ TriedKept
<1> DEFINE b == NewBucket[<<a, s>>]
<1>1. Fit(am, None, None) /\ nGood' = nGood /\ nGood \in Nat /\ b \in NewBuckets
  <2>1. UNCHANGED nGood
    BY Zenon DEF Add
  <2>2. b \in NewBuckets
    BY NewBucketIs
  <2> QED
    BY <2>1, <2>2 DEF TablesInv
<1>2. CASE a \in DOMAIN am.mapAddr
  <2> DEFINE id == am.mapAddr[a]
  <2>1. MayReference(am, id) /\ id \notin am.vvNew[b] /\ Reference(am, id, b)
    BY <1>2, Zenon DEF Add
  <2>2. id \in Ids(am)
    BY <1>1, <1>2 DEF Fit, Typed
  <2> HIDE DEF id, b
  <2>3. Fit(am', None, None) /\ TriedKept
    BY <1>1, <2>1, <2>2, ReferenceFit DEF TriedKept
  <2> QED
    BY <1>1, <2>3 DEF TablesInv
<1>3. CASE a \notin DOMAIN am.mapAddr
  <2> DEFINE m == Created(am, a, s)
             id == am.nIdCount
  <2>1. /\ Fit(m, None, id) /\ Ids(m) = Ids(am) \cup {id} /\ TriedIds(m) = TriedIds(am)
        /\ id \notin Ids(am) /\ m.mapInfo[id].nRefCount = 0 /\ ~m.mapInfo[id].fInTried
        /\ m.mapAddr = With(am.mapAddr, a, id) /\ m.vvNew = am.vvNew
        /\ \A k \in Ids(am) : m.mapInfo[k] = am.mapInfo[k]
    BY <1>1, <1>3, CreateFit
  <2>2. m.mapAddr[a] = id
    BY <2>1 DEF With
  <2>3. m.mapAddr[a] \notin m.vvNew[b] /\ Reference(m, m.mapAddr[a], b)
    BY <1>3, Zenon DEF Add, Created
  <2> HIDE DEF m, b, id
  <2>4. MayReference(m, id)
    <3>1. 0 < ADDRMAN_NEW_BUCKETS_PER_ADDRESS
      BY AddrManAssumption
    <3> QED
      BY <2>1, <3>1 DEF MayReference
  <2>5. id \in Ids(m) /\ id \notin m.vvNew[b] /\ Reference(m, id, b)
    BY <2>1, <2>2, <2>3
  <2>6. /\ Fit(am', None, None) /\ TriedIds(am') = TriedIds(m)
        /\ \A k \in TriedIds(m) : m.mapInfo[k].addr \in DOMAIN am'.mapAddr
    BY <1>1, <2>1, <2>4, <2>5, ReferenceFit
  <2>7. TriedKept
    BY <2>1, <2>6 DEF TriedKept, TriedIds
  <2> QED
    BY <1>1, <2>6, <2>7 DEF TablesInv
<1> QED
  BY <1>2, <1>3


-----------------------------------------------------------------------------
(* Addresses: Good_: marking the success, leaving the new table *)

\* Good_ sets nLastSuccess.
Marked(m, id, n) == [m EXCEPT !.mapInfo[id].nLastSuccess = n]

\* The statistics of an entry are in no index.
LEMMA MarkFit ==
  ASSUME NEW m, Fit(m, None, None), NEW id \in Ids(m), NEW n \in Nat \ {0}
  PROVE  LET r == Marked(m, id, n)
         IN /\ Fit(r, None, None) /\ Same(m, r) /\ TriedIds(r) = TriedIds(m)
            /\ r.mapInfo[id].nLastSuccess = n
<1> DEFINE r == Marked(m, id, n)
           e == m.mapInfo[id]
           f == [m.mapInfo EXCEPT ![id] = [e EXCEPT !.nLastSuccess = n]]
<1>1. Typed(m) /\ Ordered(m)
  BY DEF Fit
<1>2. /\ r.mapInfo = f /\ r.mapAddr = m.mapAddr /\ r.vRandom = m.vRandom
      /\ r.vvTried = m.vvTried /\ r.vvNew = m.vvNew /\ r.nTried = m.nTried
      /\ r.nNew = m.nNew /\ r.nIdCount = m.nIdCount /\ Shape(r)
  <2>1. Shape(m)
    BY <1>1 DEF Typed
  <2>2. r = [m EXCEPT !.mapInfo = f]
    BY Zenon DEF Marked
  <2> HIDE DEF r, f
  <2> QED
    BY <2>1, <2>2 DEF Shape
<1> HIDE DEF r
<1>3. m.mapInfo \in [Ids(m) -> Entry] /\ e \in Entry
  BY <1>1 DEF Typed
<1>4. [e EXCEPT !.nLastSuccess = n] \in Entry
  BY <1>3 DEF Entry
<1>5. f \in [Ids(m) -> Entry] /\ f[id] = [e EXCEPT !.nLastSuccess = n]
      /\ \A k \in Ids(m) : k # id => f[k] = m.mapInfo[k]
  BY <1>3, <1>4
<1>6. /\ f[id].nRefCount = e.nRefCount /\ f[id].addr = e.addr /\ f[id].fInTried = e.fInTried
      /\ f[id].nRandomPos = e.nRandomPos /\ f[id].nLastSuccess = n
  BY <1>3, <1>5 DEF Entry
<1> HIDE DEF f
<1>7. ASSUME NEW k \in Ids(m)
      PROVE  /\ f[k].addr = m.mapInfo[k].addr /\ f[k].nRandomPos = m.mapInfo[k].nRandomPos
             /\ f[k].fInTried = m.mapInfo[k].fInTried /\ f[k].nRefCount = m.mapInfo[k].nRefCount
             /\ m.mapInfo[k].nLastSuccess # 0 => f[k].nLastSuccess # 0
  BY <1>5, <1>6
<1>8. Ids(r) = Ids(m)
  BY <1>2, <1>5 DEF Ids
<1>9. Same(m, r)
  BY <1>2, <1>7, <1>8 DEF Same
<1>10. Typed(r)
  BY <1>1, <1>2, <1>5, <1>8 DEF Typed
<1>11. Ordered(r)
  <2>1. \A j \in 1..Len(m.vRandom) : m.vRandom[j] \in Ids(m)
    <3>1. m.vRandom \in Seq(Ids(m))
      BY <1>1 DEF Typed
    <3> QED
      BY <3>1
  <2> QED
    BY <1>1, <1>2, <1>7, <1>8, <2>1 DEF Ordered
<1> QED
  BY <1>2, <1>6, <1>9, <1>10, <1>11, SameFits DEF r

\* LeaveNew, the entry still counted as new.
Left(m, id) == [LeaveNew(m, id) EXCEPT !.nNew = @ + 1]

\* An entry that leaves all its new buckets has no references.
LEMMA LeaveFit ==
  ASSUME NEW m, Fit(m, None, None), NEW id \in Ids(m), ~m.mapInfo[id].fInTried
  PROVE  LET r == Left(m, id)
         IN /\ Fit(r, None, id) /\ Ids(r) = Ids(m) /\ TriedIds(r) = TriedIds(m)
            /\ SameButRefs(m, r)
            /\ r.mapInfo[id].nRefCount = 0
            /\ \A k \in Ids(m) : r.mapInfo[k].source = m.mapInfo[k].source
            /\ \A b \in NewBuckets : r.vvNew[b] = m.vvNew[b] \ {id}
            /\ \A b \in InNew(m, id) : Cardinality(r.vvNew[b]) < ADDRMAN_NEW_BUCKET_SIZE
<1> DEFINE r == Left(m, id)
           e == m.mapInfo[id]
           c == Cardinality(InNew(m, id))
           f == [m.mapInfo EXCEPT ![id] = [e EXCEPT !.nRefCount = e.nRefCount - c]]
           g == [b \in NewBuckets |-> m.vvNew[b] \ {id}]
<1>1. Typed(m) /\ Referenced(m, None, None) /\ NewFits(m)
  BY DEF Fit
<1>2. /\ r.mapInfo = f /\ r.mapAddr = m.mapAddr /\ r.vRandom = m.vRandom
      /\ r.vvTried = m.vvTried /\ r.vvNew = g /\ r.nTried = m.nTried
      /\ r.nNew = m.nNew /\ r.nIdCount = m.nIdCount /\ Shape(r)
  <2>1. Shape(m) /\ m.nNew \in Int
    BY <1>1 DEF Typed
  <2>2. r = [[m EXCEPT !.vvNew = g, !.mapInfo = f, !.nNew = @ - 1] EXCEPT !.nNew = @ + 1]
    BY Zenon DEF Left, LeaveNew, InNew
  <2> HIDE DEF r, f, g
  <2> QED
    <3>1. /\ r.mapInfo = f /\ r.mapAddr = m.mapAddr /\ r.vRandom = m.vRandom
          /\ r.vvTried = m.vvTried /\ r.vvNew = g /\ r.nTried = m.nTried
          /\ r.nNew = (m.nNew - 1) + 1 /\ r.nIdCount = m.nIdCount
          /\ r = [mapInfo |-> r.mapInfo, mapAddr |-> r.mapAddr, vRandom |-> r.vRandom,
                  vvTried |-> r.vvTried, vvNew |-> r.vvNew,
                  nTried |-> r.nTried, nNew |-> r.nNew, nIdCount |-> r.nIdCount]
      BY <2>1, <2>2 DEF Shape
    <3>2. r.nNew = m.nNew
      BY <2>1, <3>1
    <3> QED
      BY <3>1, <3>2 DEF Shape
<1> HIDE DEF r
<1>3. m.mapInfo \in [Ids(m) -> Entry] /\ m.vvNew \in [NewBuckets -> SUBSET Ids(m)] /\ e \in Entry
      /\ None \notin Ids(m)
  BY <1>1, IdsFinite DEF Typed
<1>4. e.nRefCount = c /\ c \in Nat
  BY <1>1, <1>3, InNewFinite DEF Referenced
<1> HIDE DEF c
<1>5. [e EXCEPT !.nRefCount = e.nRefCount - c] \in Entry
  BY <1>3, <1>4 DEF Entry
<1>6. f \in [Ids(m) -> Entry] /\ f[id] = [e EXCEPT !.nRefCount = e.nRefCount - c]
      /\ \A k \in Ids(m) : k # id => f[k] = m.mapInfo[k]
  BY <1>3, <1>5
<1>7. /\ f[id].nRefCount = 0 /\ f[id].addr = e.addr /\ f[id].fInTried = e.fInTried
      /\ f[id].nRandomPos = e.nRandomPos /\ f[id].nLastSuccess = e.nLastSuccess
      /\ f[id].source = e.source
  BY <1>3, <1>4, <1>6 DEF Entry
<1>8. g \in [NewBuckets -> SUBSET Ids(m)] /\ \A b \in NewBuckets : g[b] = m.vvNew[b] \ {id}
  BY <1>3
<1> HIDE DEF f, g
<1>9. SameButRefs(m, r)
  <2>1. ASSUME NEW k \in Ids(m)
        PROVE  /\ f[k].addr = m.mapInfo[k].addr /\ f[k].nRandomPos = m.mapInfo[k].nRandomPos
               /\ f[k].fInTried = m.mapInfo[k].fInTried
               /\ f[k].nLastSuccess = m.mapInfo[k].nLastSuccess
    BY <1>6, <1>7
  <2> QED
    BY <1>2, <1>6, <1>8, <2>1 DEF SameButRefs
<1>10. Ids(r) = Ids(m)
  BY <1>2, <1>6 DEF Ids
<1>11. InNew(r, id) = {} /\ \A k : k # id => InNew(r, k) = InNew(m, k)
  BY <1>2, <1>8 DEF InNew
<1>12. Referenced(r, None, id)
  <2>1. ASSUME NEW k \in Ids(m)
        PROVE  /\ f[k].nRefCount = Cardinality(InNew(r, k)) + (IF k = None THEN 1 ELSE 0)
               /\ f[k].nRefCount <= ADDRMAN_NEW_BUCKETS_PER_ADDRESS
               /\ IF f[k].fInTried
                  THEN f[k].nRefCount = 0 /\ f[k].nLastSuccess # 0
                  ELSE k # id => f[k].nRefCount # 0
    <3>1. CASE k = id
      <4>1. Cardinality(InNew(r, k)) = 0 /\ k # None
        BY <1>3, <1>11, <3>1, FS_EmptySet
      <4>2. 0 <= ADDRMAN_NEW_BUCKETS_PER_ADDRESS
        BY AddrManAssumption
      <4> QED
        BY <1>7, <3>1, <4>1, <4>2
    <3>2. CASE k # id
      <4>1. f[k] = m.mapInfo[k] /\ InNew(r, k) = InNew(m, k) /\ k # None
        BY <1>3, <1>6, <1>11, <3>2
      <4> QED
        BY <1>1, <4>1 DEF Referenced
    <3> QED
      BY <3>1, <3>2
  <2> QED
    BY <1>2, <1>10, <2>1 DEF Referenced
<1>13. ASSUME NEW b \in NewBuckets
       PROVE  /\ Cardinality(g[b]) <= ADDRMAN_NEW_BUCKET_SIZE
              /\ id \in m.vvNew[b] => Cardinality(g[b]) < ADDRMAN_NEW_BUCKET_SIZE
  <2> DEFINE B == m.vvNew[b]
  <2>1. B \subseteq Ids(m) /\ g[b] = B \ {id}
    BY <1>3, <1>8
  <2>2. IsFiniteSet(B) /\ Cardinality(B) \in Nat /\ Cardinality(B) <= ADDRMAN_NEW_BUCKET_SIZE
    BY <1>1, <2>1, IdsFinite DEF NewFits
  <2>3. ADDRMAN_NEW_BUCKET_SIZE \in Nat
    BY AddrManAssumption
  <2> HIDE DEF B
  <2>4. Cardinality(B \ {id}) = IF id \in B THEN Cardinality(B) - 1 ELSE Cardinality(B)
    BY <2>2, FS_RemoveElement
  <2> QED
    BY <2>1, <2>2, <2>3, <2>4 DEF B
<1>14. NewFits(r)
  BY <1>2, <1>13 DEF NewFits
<1>15. Fit(r, None, id) /\ TriedIds(r) = TriedIds(m)
  BY <1>9, <1>12, <1>14, RefsFit
<1>16. \A k \in Ids(m) : r.mapInfo[k].source = m.mapInfo[k].source
  BY <1>2, <1>6, <1>7
<1>17. \A b \in InNew(m, id) : Cardinality(r.vvNew[b]) < ADDRMAN_NEW_BUCKET_SIZE
  BY <1>2, <1>13 DEF InNew
<1> QED
  BY <1>2, <1>7, <1>8, <1>9, <1>10, <1>15, <1>16, <1>17 DEF r


-----------------------------------------------------------------------------
(* Addresses: Good_: into the tried table *)

\* What a bucket and its entries satisfy: TriedFits, one bucket at a time.
BucketFits(m, b) ==
  LET v == m.vvTried[b]
  IN /\ Len(v) <= ADDRMAN_TRIED_BUCKET_SIZE
     /\ \A n \in 1..Len(v) : m.mapInfo[v[n]].fInTried /\ TriedBucket[m.mapInfo[v[n]].addr] = b
     /\ \A n, k \in 1..Len(v) : v[n] = v[k] => n = k

\* The tried bucket has room: the entry is put at its end.
Promoted(m, r, id, k) ==
  /\ Shape(r) /\ r.mapInfo = [m.mapInfo EXCEPT ![id].fInTried = TRUE]
  /\ r.vvTried = [m.vvTried EXCEPT ![k] = Append(m.vvTried[k], id)]
  /\ r.mapAddr = m.mapAddr /\ r.vRandom = m.vRandom /\ r.vvNew = m.vvNew
  /\ r.nTried = m.nTried + 1 /\ r.nNew = m.nNew - 1 /\ r.nIdCount = m.nIdCount

\* Append adds one place at the end.
LEMMA AppendIs ==
  ASSUME NEW S, NEW v \in Seq(S), NEW x \in S
  PROVE  /\ Len(Append(v, x)) = Len(v) + 1 /\ Len(v) \in Nat
         /\ Len(v) + 1 \in 1..Len(Append(v, x)) /\ Append(v, x)[Len(v) + 1] = x
         /\ \A n \in 1..Len(v) : n \in 1..Len(Append(v, x)) /\ Append(v, x)[n] = v[n]
OBVIOUS

\* A tried bucket with a free place takes the entry.
LEMMA PromoteFit ==
  ASSUME NEW m, NEW id \in Ids(m), Fit(m, None, id), ~m.mapInfo[id].fInTried,
         m.mapInfo[id].nRefCount = 0, m.mapInfo[id].nLastSuccess # 0,
         NEW k, k = TriedBucket[m.mapInfo[id].addr],
         Len(m.vvTried[k]) < ADDRMAN_TRIED_BUCKET_SIZE,
         NEW r, Promoted(m, r, id, k)
  PROVE  Fit(r, None, None)
<1> DEFINE e == m.mapInfo[id]
<1>a. /\ Shape(r) /\ r.mapAddr = m.mapAddr /\ r.vRandom = m.vRandom
      /\ r.vvNew = m.vvNew /\ r.nTried = m.nTried + 1 /\ r.nNew = m.nNew - 1
      /\ r.nIdCount = m.nIdCount
  BY Zenon DEF Promoted
<1>b. r.mapInfo = [m.mapInfo EXCEPT ![id].fInTried = TRUE]
  BY Zenon DEF Promoted
<1>c. r.vvTried = [m.vvTried EXCEPT ![k] = Append(m.vvTried[k], id)]
  BY Zenon DEF Promoted
<1>1. Typed(m) /\ Named(m) /\ Ordered(m) /\ Counted(m) /\ Referenced(m, None, id) /\ NewFits(m)
      /\ TriedFits(m)
  BY DEF Fit
<1>2. /\ m.mapInfo \in [Ids(m) -> Entry] /\ m.mapAddr \in [DOMAIN m.mapAddr -> Ids(m)]
      /\ m.vRandom \in Seq(Ids(m)) /\ m.vvTried \in [TriedBuckets -> Seq(Ids(m))]
      /\ m.vvNew \in [NewBuckets -> SUBSET Ids(m)]
      /\ m.nTried \in Int /\ m.nNew \in Int /\ m.nIdCount \in Nat /\ e \in Entry
  BY <1>1 DEF Typed
<1>3. k \in TriedBuckets
  <2>1. e.addr \in Address
    BY <1>2 DEF Entry
  <2> QED
    BY <2>1 DEF TriedBuckets
<1>4. r.mapInfo \in [Ids(m) -> Entry] /\ Ids(r) = Ids(m) /\ r.mapInfo[id] = [e EXCEPT !.fInTried = TRUE]
      /\ \A i \in Ids(m) : i # id => r.mapInfo[i] = m.mapInfo[i]
  <2>1. [e EXCEPT !.fInTried = TRUE] \in Entry
    BY <1>2 DEF Entry
  <2>2. r.mapInfo = [m.mapInfo EXCEPT ![id] = [e EXCEPT !.fInTried = TRUE]]
    BY <1>b
  <2> DEFINE f == m.mapInfo
             g == r.mapInfo
             x == [e EXCEPT !.fInTried = TRUE]
  <2>3. f \in [Ids(m) -> Entry] /\ g = [f EXCEPT ![id] = x] /\ x \in Entry
    BY <1>2, <2>1, <2>2
  <2> HIDE DEF f, g, x
  <2>4. g \in [Ids(m) -> Entry] /\ g[id] = x /\ \A i \in Ids(m) : i # id => g[i] = f[i]
    BY <2>3, Zenon
  <2>5. DOMAIN g = Ids(m)
    BY <2>4
  <2> QED
    BY <2>4, <2>5, Zenon DEF Ids, f, g, x
<1>5. /\ r.mapInfo[id].nRefCount = 0 /\ r.mapInfo[id].addr = e.addr /\ r.mapInfo[id].fInTried
      /\ r.mapInfo[id].nRandomPos = e.nRandomPos /\ r.mapInfo[id].nLastSuccess # 0
  BY <1>2, <1>4 DEF Entry
<1>6. \A i \in Ids(m) : /\ r.mapInfo[i].addr = m.mapInfo[i].addr
                        /\ r.mapInfo[i].nRandomPos = m.mapInfo[i].nRandomPos
                        /\ r.mapInfo[i].nRefCount = m.mapInfo[i].nRefCount
                        /\ r.mapInfo[i].fInTried <=> i = id \/ m.mapInfo[i].fInTried
  BY <1>4, <1>5, Zenon
<1>7. TriedIds(r) = TriedIds(m) \cup {id} /\ id \notin TriedIds(m)
  BY <1>4, <1>6, Zenon DEF TriedIds
<1>8. r.vvTried \in [TriedBuckets -> Seq(Ids(m))] /\ r.vvTried[k] = Append(m.vvTried[k], id)
      /\ \A b \in TriedBuckets : b # k => r.vvTried[b] = m.vvTried[b]
  <2> DEFINE w == Append(m.vvTried[k], id)
  <2>1. w \in Seq(Ids(m))
    <3>1. m.vvTried[k] \in Seq(Ids(m))
      BY <1>2, <1>3
    <3> QED
      BY <3>1
  <2>2. r.vvTried = [m.vvTried EXCEPT ![k] = w]
    BY <1>c
  <2> HIDE DEF w
  <2> DEFINE g == m.vvTried
             h == r.vvTried
  <2>3. g \in [TriedBuckets -> Seq(Ids(m))] /\ h = [g EXCEPT ![k] = w]
    BY <1>2, <2>2
  <2> HIDE DEF g, h
  <2>4. h \in [TriedBuckets -> Seq(Ids(m))] /\ h[k] = w
        /\ \A b \in TriedBuckets : b # k => h[b] = g[b]
    BY <1>3, <2>1, <2>3, Zenon
  <2> QED
    BY <2>4, Zenon DEF g, h, w
<1>9. Typed(r)
  <2>1. r.nTried \in Int /\ r.nNew \in Int
    BY <1>a, <1>2
  <2>2. r.nIdCount \in Nat /\ Ids(r) \subseteq 0..(r.nIdCount - 1)
    BY <1>a, <1>1, <1>4 DEF Typed
  <2>3. r.mapInfo \in [Ids(r) -> Entry] /\ r.mapAddr \in [DOMAIN r.mapAddr -> Ids(r)]
        /\ r.vRandom \in Seq(Ids(r))
    BY <1>a, <1>2, <1>4, Zenon
  <2>4. r.vvTried \in [TriedBuckets -> Seq(Ids(r))] /\ r.vvNew \in [NewBuckets -> SUBSET Ids(r)]
    BY <1>a, <1>2, <1>4, <1>8, Zenon
  <2> QED
    BY <1>a, <2>1, <2>2, <2>3, <2>4, Zenon DEF Typed
<1>10. Named(r)
  <2>1. \A a \in DOMAIN m.mapAddr : m.mapAddr[a] \in Ids(m)
    BY <1>2
  <2>2. \A i \in Ids(m) : /\ r.mapInfo[i].addr \in DOMAIN m.mapAddr
                            /\ m.mapAddr[r.mapInfo[i].addr] = i
    BY <1>1, <1>6 DEF Named
  <2>3. ASSUME NEW a \in DOMAIN m.mapAddr PROVE r.mapInfo[m.mapAddr[a]].addr = a
    <3>1. r.mapInfo[m.mapAddr[a]].addr = m.mapInfo[m.mapAddr[a]].addr
      BY <1>6, <2>1, Zenon
    <3>2. m.mapInfo[m.mapAddr[a]].addr = a
      BY <1>1, Zenon DEF Named
    <3> QED
      BY <3>1, <3>2, Zenon
  <2> QED
    BY <1>a, <1>4, <2>2, <2>3, Zenon DEF Named
<1>11. Ordered(r)
  <2>1. \A n \in 1..Len(m.vRandom) : m.vRandom[n] \in Ids(m)
    BY <1>2
  <2> QED
    <3>1. ASSUME NEW i \in Ids(m)
          PROVE  /\ r.mapInfo[i].nRandomPos \in 1..Len(m.vRandom)
                 /\ m.vRandom[r.mapInfo[i].nRandomPos] = i
      BY <1>1, <1>6 DEF Ordered
    <3>2. ASSUME NEW n \in 1..Len(m.vRandom)
          PROVE  r.mapInfo[m.vRandom[n]].nRandomPos = n
      BY <1>1, <1>6, <2>1, Zenon DEF Ordered
    <3> QED
      BY <1>a, <1>4, <3>1, <3>2, Zenon DEF Ordered
<1>12. Counted(r)
  <2>1. IsFiniteSet(TriedIds(m)) /\ IsFiniteSet(Ids(m) \ TriedIds(m))
    <3>1. TriedIds(m) \subseteq Ids(m) /\ Ids(m) \ TriedIds(m) \subseteq Ids(m)
      BY DEF TriedIds
    <3> QED
      BY <1>1, <3>1, IdsFinite
  <2>2. Cardinality(TriedIds(r)) = Cardinality(TriedIds(m)) + 1
    BY <1>7, <2>1, FS_AddElement
  <2>3. Ids(r) \ TriedIds(r) = (Ids(m) \ TriedIds(m)) \ {id} /\ id \in Ids(m) \ TriedIds(m)
    BY <1>4, <1>7
  <2>4. Cardinality(Ids(r) \ TriedIds(r)) = Cardinality(Ids(m) \ TriedIds(m)) - 1
    BY <2>1, <2>3, FS_RemoveElement
  <2>5. Cardinality(TriedIds(m)) = m.nTried /\ Cardinality(Ids(m) \ TriedIds(m)) = m.nNew
        /\ Len(m.vRandom) = m.nTried + m.nNew
    BY <1>1 DEF Counted
  <2>6. Len(r.vRandom) = r.nTried + r.nNew
    BY <1>a, <1>2, <2>5
  <2> QED
    BY <1>a, <2>2, <2>4, <2>5, <2>6 DEF Counted
<1>13. Referenced(r, None, None)
  <2>1. \A i : InNew(r, i) = InNew(m, i)
    BY <1>a DEF InNew
  <2>2. ASSUME NEW i \in Ids(m)
        PROVE  /\ r.mapInfo[i].nRefCount = Cardinality(InNew(r, i)) + (IF i = None THEN 1 ELSE 0)
               /\ r.mapInfo[i].nRefCount <= ADDRMAN_NEW_BUCKETS_PER_ADDRESS
               /\ IF r.mapInfo[i].fInTried
                  THEN r.mapInfo[i].nRefCount = 0 /\ r.mapInfo[i].nLastSuccess # 0
                  ELSE i # None => r.mapInfo[i].nRefCount # 0
    <3>1. /\ r.mapInfo[i].nRefCount = Cardinality(InNew(r, i)) + (IF i = None THEN 1 ELSE 0)
          /\ r.mapInfo[i].nRefCount <= ADDRMAN_NEW_BUCKETS_PER_ADDRESS
      BY <1>1, <1>6, <2>1 DEF Referenced
    <3>2. CASE i = id
      BY <1>5, <3>1, <3>2
    <3>3. CASE i # id
      <4>1. r.mapInfo[i] = m.mapInfo[i]
        BY <1>4, <3>3
      <4> QED
        BY <1>1, <3>1, <3>3, <4>1 DEF Referenced
    <3> QED
      BY <3>2, <3>3
  <2> QED
    BY <1>4, <2>2 DEF Referenced
<1>14. NewFits(r)
  BY <1>a, <1>1 DEF NewFits
<1>15. \A b \in TriedBuckets : /\ BucketFits(m, b)
                               /\ m.vvTried[b] \in Seq(Ids(m))
                               /\ \A n \in 1..Len(m.vvTried[b]) : m.vvTried[b][n] \in Ids(m)
  <2> TAKE b \in TriedBuckets
  <2>1. m.vvTried[b] \in Seq(Ids(m))
    BY <1>2
  <2>2. BucketFits(m, b)
    BY <1>1, Zenon DEF TriedFits, BucketFits
  <2> QED
    BY <2>1, <2>2
<1>16. ASSUME NEW b \in TriedBuckets PROVE BucketFits(r, b)
  <2> DEFINE v == m.vvTried[b]
             w == r.vvTried[b]
  <2>1. /\ v \in Seq(Ids(m)) /\ \A n \in 1..Len(v) : v[n] \in Ids(m)
        /\ Len(v) <= ADDRMAN_TRIED_BUCKET_SIZE
        /\ \A n \in 1..Len(v) : m.mapInfo[v[n]].fInTried /\ TriedBucket[m.mapInfo[v[n]].addr] = b
        /\ \A n, l \in 1..Len(v) : v[n] = v[l] => n = l
    BY <1>15 DEF BucketFits
  <2>2. CASE b = k
    <3>1. w = Append(v, id) /\ Len(v) < ADDRMAN_TRIED_BUCKET_SIZE /\ TriedBucket[e.addr] = b
      BY <1>8, <2>2, Zenon
    <3>2. ADDRMAN_TRIED_BUCKET_SIZE \in Nat
      BY AddrManAssumption
    <3> HIDE DEF v, w, e
    <3>3. Len(w) = Len(v) + 1 /\ w[Len(v) + 1] = id /\ \A n \in 1..Len(v) : w[n] = v[n]
      BY <2>1, <3>1, AppendIs
    <3>4. Len(w) <= ADDRMAN_TRIED_BUCKET_SIZE /\ Len(v) \in Nat
      BY <2>1, <3>1, <3>2, <3>3
    <3>5. \A n \in 1..Len(v) : v[n] # id
      BY <2>1 DEF e
    <3>6. \A n \in 1..Len(w) : r.mapInfo[w[n]].fInTried /\ TriedBucket[r.mapInfo[w[n]].addr] = b
      <4> TAKE n \in 1..Len(w)
      <4>1. CASE n = Len(v) + 1
        BY <1>5, <3>1, <3>3, <4>1
      <4>2. CASE n \in 1..Len(v)
        BY <1>6, <2>1, <3>3, <4>2
      <4> QED
        BY <3>3, <3>4, <4>1, <4>2
    <3>7. \A n, l \in 1..Len(w) : w[n] = w[l] => n = l
      <4> TAKE n, l \in 1..Len(w)
      <4>1. n \in 1..Len(v) \/ n = Len(v) + 1
        BY <3>3, <3>4
      <4>2. l \in 1..Len(v) \/ l = Len(v) + 1
        BY <3>3, <3>4
      <4> QED
        BY <2>1, <3>3, <3>5, <4>1, <4>2
    <3> QED
      BY <3>4, <3>6, <3>7, Zenon DEF BucketFits, w
  <2>3. CASE b # k
    <3>1. w = v
      BY <1>8, <2>3, Zenon
    <3> HIDE DEF v, w
    <3>2. \A n \in 1..Len(w) : r.mapInfo[w[n]].fInTried /\ TriedBucket[r.mapInfo[w[n]].addr] = b
      BY <1>6, <2>1, <3>1
    <3> QED
      BY <2>1, <3>1, <3>2, Zenon DEF BucketFits, w
  <2> QED
    BY <2>2, <2>3, Zenon
<1>17. ASSUME NEW i \in Ids(r), r.mapInfo[i].fInTried
       PROVE  LET b == TriedBucket[r.mapInfo[i].addr] IN
              \E n \in 1..Len(r.vvTried[b]) : r.vvTried[b][n] = i
  <2> DEFINE b == TriedBucket[r.mapInfo[i].addr]
  <2>1. b \in TriedBuckets /\ b = TriedBucket[m.mapInfo[i].addr]
    <3>1. m.mapInfo[i] \in Entry /\ r.mapInfo[i].addr = m.mapInfo[i].addr
      BY <1>2, <1>4, <1>6, Zenon
    <3> QED
      BY <3>1 DEF Entry, TriedBuckets
  <2> HIDE DEF b
  <2>2. m.vvTried[b] \in Seq(Ids(m))
    BY <1>2, <2>1
  <2>3. CASE i = id
    <3>1. b = k
      BY <2>1, <2>3, Zenon
    <3> DEFINE v == m.vvTried[b]
               w == r.vvTried[b]
    <3>2. w = Append(v, i) /\ v \in Seq(Ids(m)) /\ i \in Ids(m)
      BY <1>8, <2>2, <2>3, <3>1, Zenon
    <3> HIDE DEF v, w
    <3>3. Len(v) + 1 \in 1..Len(w) /\ w[Len(v) + 1] = i
      BY <3>2, AppendIs
    <3>4. \E n \in 1..Len(w) : w[n] = i
      BY <3>3
    <3> QED
      BY <3>4, Zenon DEF b, w
  <2>4. CASE i # id
    <3>1. i \in Ids(m) /\ m.mapInfo[i].fInTried
      BY <1>4, <1>6, <1>17, <2>4
    <3>2. PICK n \in 1..Len(m.vvTried[b]) : m.vvTried[b][n] = i
      <4>1. \E n \in 1..Len(m.vvTried[TriedBucket[m.mapInfo[i].addr]]) :
               m.vvTried[TriedBucket[m.mapInfo[i].addr]][n] = i
        BY <1>1, <3>1, Zenon DEF TriedFits
      <4> QED
        BY <2>1, <4>1, Zenon
    <3>3. n \in 1..Len(r.vvTried[b]) /\ r.vvTried[b][n] = m.vvTried[b][n]
      <4>1. CASE b = k
        <5> DEFINE v == m.vvTried[b]
                   w == r.vvTried[b]
        <5>1. w = Append(v, id) /\ v \in Seq(Ids(m)) /\ n \in 1..Len(v)
          BY <1>8, <2>2, <4>1, Zenon
        <5> HIDE DEF v, w
        <5>2. n \in 1..Len(w) /\ w[n] = v[n]
          BY <5>1, AppendIs
        <5> QED
          BY <5>2, Zenon DEF v, w
      <4>2. CASE b # k
        BY <1>8, <2>1, <4>2, Zenon
      <4> QED
        BY <4>1, <4>2, Zenon
    <3> QED
      BY <3>2, <3>3 DEF b
  <2> QED
    BY <2>3, <2>4
<1>18. TriedFits(r)
  BY <1>16, <1>17 DEF TriedFits, BucketFits
<1> QED
  BY <1>9, <1>10, <1>11, <1>12, <1>13, <1>14, <1>18 DEF Fit


\* The order of a bucket has changed, and nothing else of it.
Reordered(u, v) ==
  /\ Len(v) = Len(u)
  /\ \A n \in 1..Len(v) : \E j \in 1..Len(u) : u[j] = v[n]
  /\ \A j \in 1..Len(u) : \E n \in 1..Len(v) : v[n] = u[j]
  /\ \A n, j \in 1..Len(v) : v[n] = v[j] => n = j

\* The tried bucket is full: the entry takes the place of old, which goes to a new
\* bucket that has room.
Replaced(m, r, id, k, v, pos, to) ==
  LET old == v[pos]
  IN /\ Shape(r) /\ Ids(r) = Ids(m) /\ r.mapInfo \in [Ids(m) -> Entry]
     /\ r.mapInfo[id] = [m.mapInfo[id] EXCEPT !.fInTried = TRUE]
     /\ r.mapInfo[old] = [m.mapInfo[old] EXCEPT !.fInTried = FALSE, !.nRefCount = 1]
     /\ \A i \in Ids(m) : i # id /\ i # old => r.mapInfo[i] = m.mapInfo[i]
     /\ r.mapAddr = m.mapAddr /\ r.vRandom = m.vRandom
     /\ r.vvTried = [m.vvTried EXCEPT ![k] = [v EXCEPT ![pos] = id]]
     /\ r.vvNew = [m.vvNew EXCEPT ![to] = m.vvNew[to] \cup {old}]
     /\ r.nTried = m.nTried /\ r.nNew = m.nNew /\ r.nIdCount = m.nIdCount

\* In a full tried bucket the entry takes the place of another.
LEMMA ReplaceFit ==
  ASSUME NEW m, NEW id \in Ids(m), Fit(m, None, id), ~m.mapInfo[id].fInTried,
         m.mapInfo[id].nRefCount = 0, m.mapInfo[id].nLastSuccess # 0,
         NEW k, k = TriedBucket[m.mapInfo[id].addr],
         NEW v \in Seq(Ids(m)), Reordered(m.vvTried[k], v), NEW pos \in 1..Len(v),
         NEW to \in NewBuckets, Cardinality(m.vvNew[to]) < ADDRMAN_NEW_BUCKET_SIZE,
         NEW r, Replaced(m, r, id, k, v, pos, to)
  PROVE  Fit(r, None, None)
<1> DEFINE old == v[pos]
           e == m.mapInfo[id]
           o == m.mapInfo[old]
           w == [v EXCEPT ![pos] = id]
           u == m.vvTried[k]
<1>a. /\ Shape(r) /\ Ids(r) = Ids(m) /\ r.mapInfo \in [Ids(m) -> Entry]
      /\ r.mapAddr = m.mapAddr /\ r.vRandom = m.vRandom
      /\ r.nTried = m.nTried /\ r.nNew = m.nNew /\ r.nIdCount = m.nIdCount
  BY DEF Replaced
<1>b. /\ r.mapInfo[id] = [e EXCEPT !.fInTried = TRUE]
      /\ r.mapInfo[old] = [o EXCEPT !.fInTried = FALSE, !.nRefCount = 1]
      /\ \A i \in Ids(m) : i # id /\ i # old => r.mapInfo[i] = m.mapInfo[i]
  BY Zenon DEF Replaced
<1>c. /\ r.vvTried = [m.vvTried EXCEPT ![k] = w]
      /\ r.vvNew = [m.vvNew EXCEPT ![to] = m.vvNew[to] \cup {old}]
  BY Zenon DEF Replaced
<1>1. Typed(m) /\ Named(m) /\ Ordered(m) /\ Counted(m) /\ Referenced(m, None, id) /\ NewFits(m)
      /\ TriedFits(m)
  BY DEF Fit
<1>2. /\ m.mapInfo \in [Ids(m) -> Entry] /\ m.mapAddr \in [DOMAIN m.mapAddr -> Ids(m)]
      /\ m.vRandom \in Seq(Ids(m)) /\ m.vvTried \in [TriedBuckets -> Seq(Ids(m))]
      /\ m.vvNew \in [NewBuckets -> SUBSET Ids(m)]
      /\ m.nTried \in Int /\ m.nNew \in Int /\ m.nIdCount \in Nat /\ e \in Entry
      /\ None \notin Ids(m)
  BY <1>1, IdsFinite DEF Typed
<1>3. k \in TriedBuckets
  <2>1. e.addr \in Address
    BY <1>2 DEF Entry
  <2> QED
    BY <2>1 DEF TriedBuckets
<1>4. old \in Ids(m) /\ o \in Entry /\ Len(v) \in Nat
  <2>1. old \in Ids(m) /\ Len(v) \in Nat
    OBVIOUS
  <2> HIDE DEF old
  <2> QED
    BY <1>2, <2>1
<1>5. \A b \in TriedBuckets : /\ BucketFits(m, b)
                              /\ m.vvTried[b] \in Seq(Ids(m))
                              /\ \A n \in 1..Len(m.vvTried[b]) : m.vvTried[b][n] \in Ids(m)
  <2> TAKE b \in TriedBuckets
  <2>1. m.vvTried[b] \in Seq(Ids(m))
    BY <1>2, Zenon
  <2>2. BucketFits(m, b)
    BY <1>1, Zenon DEF TriedFits, BucketFits
  <2> QED
    BY <2>1, <2>2
<1>6. \A n \in 1..Len(v) : /\ v[n] \in Ids(m) /\ m.mapInfo[v[n]].fInTried
                           /\ TriedBucket[m.mapInfo[v[n]].addr] = k /\ v[n] # id
  <2> TAKE n \in 1..Len(v)
  <2>1. PICK j \in 1..Len(u) : u[j] = v[n]
    BY Zenon DEF Reordered
  <2>2. BucketFits(m, k) /\ \A l \in 1..Len(u) : u[l] \in Ids(m)
    BY <1>3, <1>5, Zenon
  <2>3. m.mapInfo[u[j]].fInTried /\ TriedBucket[m.mapInfo[u[j]].addr] = k /\ u[j] \in Ids(m)
    BY <2>2, Zenon DEF BucketFits
  <2>4. u[j] # id
    BY <2>3, Zenon
  <2> QED
    BY <2>1, <2>3, <2>4, Zenon
<1>7. old # id /\ o.fInTried /\ TriedBucket[o.addr] = k
  BY <1>6, Zenon
<1>27. \A n \in 1..Len(v) : n # pos => v[n] # old
  BY Zenon DEF Reordered
<1> HIDE DEF old, o, e
<1>8. \A b \in NewBuckets : old \notin m.vvNew[b]
  BY <1>4, <1>7, TablesApart DEF o
<1>9. /\ r.mapInfo[id].nRefCount = 0 /\ r.mapInfo[id].addr = e.addr /\ r.mapInfo[id].fInTried
      /\ r.mapInfo[id].nRandomPos = e.nRandomPos /\ r.mapInfo[id].nLastSuccess # 0
  <2>1. e.nRefCount = 0 /\ e.nLastSuccess # 0
    BY DEF e
  <2> QED
    BY <1>b, <1>2, <2>1 DEF Entry
<1>10. /\ r.mapInfo[old].nRefCount = 1 /\ r.mapInfo[old].addr = o.addr /\ ~r.mapInfo[old].fInTried
       /\ r.mapInfo[old].nRandomPos = o.nRandomPos
  BY <1>b, <1>4 DEF Entry
<1>11. \A i \in Ids(m) : /\ r.mapInfo[i].addr = m.mapInfo[i].addr
                         /\ r.mapInfo[i].nRandomPos = m.mapInfo[i].nRandomPos
                         /\ r.mapInfo[i].fInTried <=> i # old /\ (i = id \/ m.mapInfo[i].fInTried)
  <2> TAKE i \in Ids(m)
  <2>1. CASE i = id
    BY <1>7, <1>9, <2>1 DEF e
  <2>2. CASE i = old
    BY <1>7, <1>10, <2>2 DEF o
  <2>3. CASE i # id /\ i # old
    BY <1>b, <2>3
  <2> QED
    BY <2>1, <2>2, <2>3
<1>12. TriedIds(r) = (TriedIds(m) \ {old}) \cup {id} /\ id \notin TriedIds(m) /\ old \in TriedIds(m)
  BY <1>a, <1>4, <1>7, <1>11 DEF TriedIds, o
<1>13. w \in Seq(Ids(m)) /\ Len(w) = Len(v) /\ w[pos] = id
       /\ \A n \in 1..Len(v) : n # pos => w[n] = v[n]
  OBVIOUS
<1> HIDE DEF w
<1>14. r.vvTried \in [TriedBuckets -> Seq(Ids(m))] /\ r.vvTried[k] = w
       /\ \A b \in TriedBuckets : b # k => r.vvTried[b] = m.vvTried[b]
  <2> DEFINE g == m.vvTried
             h == r.vvTried
  <2>1. g \in [TriedBuckets -> Seq(Ids(m))] /\ h = [g EXCEPT ![k] = w]
    BY <1>c, <1>2
  <2> HIDE DEF g, h
  <2>2. h \in [TriedBuckets -> Seq(Ids(m))] /\ h[k] = w
        /\ \A b \in TriedBuckets : b # k => h[b] = g[b]
    BY <1>3, <1>13, <2>1, Zenon
  <2> QED
    BY <2>2 DEF g, h
<1>15. r.vvNew \in [NewBuckets -> SUBSET Ids(m)] /\ r.vvNew[to] = m.vvNew[to] \cup {old}
       /\ \A b \in NewBuckets : b # to => r.vvNew[b] = m.vvNew[b]
  <2> DEFINE g == m.vvNew
             h == r.vvNew
             B == m.vvNew[to] \cup {old}
  <2>1. g \in [NewBuckets -> SUBSET Ids(m)] /\ h = [g EXCEPT ![to] = B] /\ B \in SUBSET Ids(m)
    BY <1>c, <1>2, <1>4
  <2> HIDE DEF g, h, B
  <2>2. h \in [NewBuckets -> SUBSET Ids(m)] /\ h[to] = B
        /\ \A b \in NewBuckets : b # to => h[b] = g[b]
    BY <2>1, Zenon
  <2> QED
    BY <2>2 DEF g, h, B
<1>16. Typed(r)
  <2>1. r.nTried \in Int /\ r.nNew \in Int
    BY <1>a, <1>2
  <2>2. r.nIdCount \in Nat /\ Ids(r) \subseteq 0..(r.nIdCount - 1)
    BY <1>a, <1>1 DEF Typed
  <2>3. r.mapInfo \in [Ids(r) -> Entry] /\ r.mapAddr \in [DOMAIN r.mapAddr -> Ids(r)]
        /\ r.vRandom \in Seq(Ids(r))
    BY <1>a, <1>2, Zenon
  <2>4. r.vvTried \in [TriedBuckets -> Seq(Ids(r))] /\ r.vvNew \in [NewBuckets -> SUBSET Ids(r)]
    BY <1>a, <1>14, <1>15, Zenon
  <2> QED
    BY <1>a, <2>1, <2>2, <2>3, <2>4, Zenon DEF Typed
<1>17. Named(r)
  <2>1. \A a \in DOMAIN m.mapAddr : m.mapAddr[a] \in Ids(m)
    BY <1>2
  <2>2. \A i \in Ids(m) : /\ r.mapInfo[i].addr \in DOMAIN m.mapAddr
                            /\ m.mapAddr[r.mapInfo[i].addr] = i
    BY <1>1, <1>11 DEF Named
  <2>3. ASSUME NEW a \in DOMAIN m.mapAddr PROVE r.mapInfo[m.mapAddr[a]].addr = a
    <3>1. r.mapInfo[m.mapAddr[a]].addr = m.mapInfo[m.mapAddr[a]].addr
      BY <1>11, <2>1, Zenon
    <3>2. m.mapInfo[m.mapAddr[a]].addr = a
      BY <1>1, Zenon DEF Named
    <3> QED
      BY <3>1, <3>2, Zenon
  <2> QED
    BY <1>a, <2>2, <2>3, Zenon DEF Named
<1>18. Ordered(r)
  <2>1. \A n \in 1..Len(m.vRandom) : m.vRandom[n] \in Ids(m)
    BY <1>2
  <2> QED
    <3>1. ASSUME NEW i \in Ids(m)
          PROVE  /\ r.mapInfo[i].nRandomPos \in 1..Len(m.vRandom)
                 /\ m.vRandom[r.mapInfo[i].nRandomPos] = i
      BY <1>1, <1>11 DEF Ordered
    <3>2. ASSUME NEW n \in 1..Len(m.vRandom)
          PROVE  r.mapInfo[m.vRandom[n]].nRandomPos = n
      BY <1>1, <1>11, <2>1, Zenon DEF Ordered
    <3> QED
      BY <1>a, <3>1, <3>2, Zenon DEF Ordered
<1>19. Counted(r)
  <2> DEFINE T == TriedIds(m)
             N == Ids(m) \ TriedIds(m)
  <2>1. IsFiniteSet(T) /\ IsFiniteSet(N) /\ Cardinality(T) \in Nat /\ Cardinality(N) \in Nat
    <3>1. T \subseteq Ids(m) /\ N \subseteq Ids(m)
      BY DEF TriedIds
    <3> QED
      BY <1>1, <3>1, IdsFinite
  <2>2. /\ TriedIds(r) = (T \ {old}) \cup {id} /\ old \in T /\ id \notin T \ {old}
        /\ Ids(r) \ TriedIds(r) = (N \ {id}) \cup {old} /\ id \in N /\ old \notin N \ {id}
    BY <1>a, <1>4, <1>12
  <2>3. Cardinality(T) = m.nTried /\ Cardinality(N) = m.nNew /\ Len(m.vRandom) = m.nTried + m.nNew
    BY <1>1 DEF Counted
  <2> HIDE DEF T, N
  <2>4. IsFiniteSet(T \ {old}) /\ Cardinality(T \ {old}) = Cardinality(T) - 1
    BY <2>1, <2>2, FS_RemoveElement
  <2>5. Cardinality((T \ {old}) \cup {id}) = Cardinality(T \ {old}) + 1
    BY <2>2, <2>4, FS_AddElement
  <2>6. IsFiniteSet(N \ {id}) /\ Cardinality(N \ {id}) = Cardinality(N) - 1
    BY <2>1, <2>2, FS_RemoveElement
  <2>7. Cardinality((N \ {id}) \cup {old}) = Cardinality(N \ {id}) + 1
    BY <2>2, <2>6, FS_AddElement
  <2>8. Cardinality(TriedIds(r)) = Cardinality(T)
    BY <2>1, <2>2, <2>4, <2>5
  <2>9. Cardinality(Ids(r) \ TriedIds(r)) = Cardinality(N)
    <3> DEFINE M == Ids(r) \ TriedIds(r)
    <3>1. M = (N \ {id}) \cup {old}
      BY <2>2
    <3> HIDE DEF M
    <3>2. Cardinality(M) = Cardinality(N)
      BY <2>1, <2>6, <2>7, <3>1
    <3> QED
      BY <3>2 DEF M
  <2> QED
    BY <1>a, <2>3, <2>8, <2>9, Zenon DEF Counted
<1>20. InNew(r, old) = {to} /\ \A i : i # old => InNew(r, i) = InNew(m, i)
  BY <1>8, <1>15 DEF InNew
<1>21. Referenced(r, None, None)
  <2>1. ASSUME NEW i \in Ids(m)
        PROVE  /\ r.mapInfo[i].nRefCount = Cardinality(InNew(r, i)) + (IF i = None THEN 1 ELSE 0)
               /\ r.mapInfo[i].nRefCount <= ADDRMAN_NEW_BUCKETS_PER_ADDRESS
               /\ IF r.mapInfo[i].fInTried
                  THEN r.mapInfo[i].nRefCount = 0 /\ r.mapInfo[i].nLastSuccess # 0
                  ELSE i # None => r.mapInfo[i].nRefCount # 0
    <3>1. i # None
      BY <1>2
    <3>2. CASE i = old
      <4>1. Cardinality(InNew(r, i)) = 1
        <5>1. Cardinality({to}) = 1
          BY FS_Singleton
        <5> QED
          BY <1>20, <3>2, <5>1
      <4>2. 1 <= ADDRMAN_NEW_BUCKETS_PER_ADDRESS /\ 1 = 1 + 0 /\ 1 # 0
        BY AddrManAssumption
      <4>3. r.mapInfo[i].nRefCount = 1 /\ ~r.mapInfo[i].fInTried
        BY <1>10, <3>2
      <4> QED
        BY <3>1, <4>1, <4>2, <4>3
    <3>3. CASE i = id
      <4>1. InNew(r, i) = InNew(m, i) /\ r.mapInfo[i].nRefCount = m.mapInfo[i].nRefCount
        BY <1>7, <1>9, <1>20, <3>3 DEF e
      <4>2. /\ m.mapInfo[i].nRefCount = Cardinality(InNew(m, i)) + (IF i = None THEN 1 ELSE 0)
            /\ m.mapInfo[i].nRefCount <= ADDRMAN_NEW_BUCKETS_PER_ADDRESS
        BY <1>1 DEF Referenced
      <4> QED
        BY <1>9, <3>3, <4>1, <4>2
    <3>4. CASE i # id /\ i # old
      <4>1. r.mapInfo[i] = m.mapInfo[i] /\ InNew(r, i) = InNew(m, i)
        BY <1>b, <1>20, <3>4
      <4> QED
        BY <1>1, <3>1, <3>4, <4>1 DEF Referenced
    <3> QED
      BY <3>2, <3>3, <3>4
  <2> QED
    BY <1>a, <2>1 DEF Referenced
<1>22. NewFits(r)
  <2> DEFINE B == m.vvNew[to]
  <2>1. IsFiniteSet(B) /\ Cardinality(B) \in Nat /\ old \notin B /\ Cardinality(B) < ADDRMAN_NEW_BUCKET_SIZE
    <3>1. B \subseteq Ids(m)
      BY <1>2
    <3> QED
      BY <1>1, <1>8, <3>1, IdsFinite
  <2>2. ADDRMAN_NEW_BUCKET_SIZE \in Nat /\ r.vvNew[to] = B \cup {old}
    BY <1>15, AddrManAssumption
  <2> HIDE DEF B
  <2>3. Cardinality(B \cup {old}) = Cardinality(B) + 1
    BY <2>1, FS_AddElement
  <2>4. Cardinality(r.vvNew[to]) <= ADDRMAN_NEW_BUCKET_SIZE
    <3> DEFINE c == Cardinality(B)
    <3>1. c \in Nat /\ c < ADDRMAN_NEW_BUCKET_SIZE /\ ADDRMAN_NEW_BUCKET_SIZE \in Nat
      BY <2>1, <2>2
    <3>2. Cardinality(r.vvNew[to]) = c + 1
      BY <2>2, <2>3
    <3> HIDE DEF c
    <3>3. c + 1 <= ADDRMAN_NEW_BUCKET_SIZE
      BY <3>1
    <3> QED
      BY <3>2, <3>3
  <2> QED
    BY <1>1, <1>15, <2>4 DEF NewFits
<1>24. ASSUME NEW b \in TriedBuckets PROVE BucketFits(r, b)
  <2>1. CASE b = k
    <3>1. Len(w) <= ADDRMAN_TRIED_BUCKET_SIZE
      <4>1. Len(u) <= ADDRMAN_TRIED_BUCKET_SIZE /\ Len(v) = Len(u)
        BY <1>3, <1>5 DEF BucketFits, Reordered
      <4> QED
        BY <1>13, <4>1, Zenon
    <3>2. ASSUME NEW n \in 1..Len(v)
          PROVE  r.mapInfo[w[n]].fInTried /\ TriedBucket[r.mapInfo[w[n]].addr] = b
      <4>1. CASE n = pos
        BY <1>9, <1>13, <2>1, <4>1, Zenon DEF e
      <4>2. CASE n # pos
        BY <1>6, <1>11, <1>13, <1>27, <2>1, <4>2
      <4> QED
        BY <4>1, <4>2
    <3>3. \A n, l \in 1..Len(v) : w[n] = w[l] => n = l
      <4>1. \A n, l \in 1..Len(v) : v[n] = v[l] => n = l
        BY DEF Reordered
      <4> QED
        BY <1>6, <1>13, <4>1
    <3>4. r.vvTried[b] = w /\ Len(w) = Len(v)
      BY <1>13, <1>14, <2>1
    <3> QED
      BY <3>1, <3>2, <3>3, <3>4, Zenon DEF BucketFits
  <2>2. CASE b # k
    <3> DEFINE x == m.vvTried[b]
    <3>1. r.vvTried[b] = x
      BY <1>14, <2>2
    <3>5. \A n \in 1..Len(x) : TriedBucket[m.mapInfo[x[n]].addr] # k
      BY <1>5, <2>2, Zenon DEF BucketFits
    <3>2. /\ \A n \in 1..Len(x) : x[n] \in Ids(m)
          /\ Len(x) <= ADDRMAN_TRIED_BUCKET_SIZE
          /\ \A n \in 1..Len(x) : m.mapInfo[x[n]].fInTried /\ TriedBucket[m.mapInfo[x[n]].addr] = b
          /\ \A n, l \in 1..Len(x) : x[n] = x[l] => n = l
      BY <1>5, Zenon DEF BucketFits
    <3> HIDE DEF x
    <3>3. \A n \in 1..Len(x) : x[n] # old
      BY <1>7, <3>5, Zenon DEF o
    <3>4. \A n \in 1..Len(x) : r.mapInfo[x[n]].fInTried /\ TriedBucket[r.mapInfo[x[n]].addr] = b
      <4> TAKE n \in 1..Len(x)
      <4>1. x[n] \in Ids(m) /\ x[n] # old /\ m.mapInfo[x[n]].fInTried
        BY <3>2, <3>3, Zenon
      <4>2. r.mapInfo[x[n]].addr = m.mapInfo[x[n]].addr /\ r.mapInfo[x[n]].fInTried
        BY <1>11, <4>1, Zenon
      <4> QED
        BY <3>2, <4>2, Zenon
    <3> QED
      BY <3>1, <3>2, <3>4, Zenon DEF BucketFits
  <2> QED
    BY <2>1, <2>2
<1>25. ASSUME NEW i \in Ids(r), r.mapInfo[i].fInTried
       PROVE  LET b == TriedBucket[r.mapInfo[i].addr] IN
              \E n \in 1..Len(r.vvTried[b]) : r.vvTried[b][n] = i
  <2> DEFINE b == TriedBucket[r.mapInfo[i].addr]
  <2>1. b \in TriedBuckets /\ b = TriedBucket[m.mapInfo[i].addr]
    <3>1. m.mapInfo[i] \in Entry /\ r.mapInfo[i].addr = m.mapInfo[i].addr
      BY <1>a, <1>2, <1>11
    <3> QED
      BY <3>1 DEF Entry, TriedBuckets
  <2> HIDE DEF b
  <2>2. CASE i = id
    <3>1. r.vvTried[b] = w
      BY <1>14, <2>1, <2>2 DEF e
    <3>2. pos \in 1..Len(w) /\ w[pos] = i
      BY <1>13, <2>2, Zenon
    <3> QED
      BY <3>1, <3>2 DEF b
  <2>3. CASE i # id
    <3>1. i \in Ids(m) /\ i # old /\ m.mapInfo[i].fInTried
      BY <1>a, <1>11, <1>25, <2>3
    <3>2. PICK n \in 1..Len(m.vvTried[b]) : m.vvTried[b][n] = i
      <4>1. \E n \in 1..Len(m.vvTried[TriedBucket[m.mapInfo[i].addr]]) :
               m.vvTried[TriedBucket[m.mapInfo[i].addr]][n] = i
        BY <1>1, <3>1, Zenon DEF TriedFits
      <4> QED
        BY <2>1, <4>1, Zenon
    <3>3. CASE b = k
      <4>1. PICK j \in 1..Len(v) : v[j] = i
        <5>1. \A l \in 1..Len(u) : \E j \in 1..Len(v) : v[j] = u[l]
          BY Zenon DEF Reordered
        <5> QED
          BY <3>2, <3>3, <5>1, Zenon
      <4>2. j # pos
        BY <3>1, <4>1, Zenon DEF old
      <4>3. j \in 1..Len(w) /\ w[j] = i /\ r.vvTried[b] = w
        BY <1>13, <1>14, <3>3, <4>1, <4>2, Zenon
      <4> QED
        BY <4>3 DEF b
    <3>4. CASE b # k
      <4>1. r.vvTried[b] = m.vvTried[b]
        BY <1>14, <2>1, <3>4, Zenon
      <4> QED
        BY <3>2, <4>1, Zenon DEF b
    <3> QED
      BY <3>3, <3>4, Zenon
  <2> QED
    BY <2>2, <2>3, Zenon
<1>26. TriedFits(r)
  BY <1>24, <1>25, Zenon DEF TriedFits, BucketFits
<1> QED
  BY <1>16, <1>17, <1>18, <1>19, <1>21, <1>22, <1>26 DEF Fit


-----------------------------------------------------------------------------
(* Addresses: The loops of SelectTried and GetAddr_ *)

\* A non-empty set of natural numbers has a least element.
LEMMA LeastNat ==
  ASSUME NEW B, B \subseteq Nat, B # {}
  PROVE  \E m \in B : \A x \in B : ~(x < m)
<1> DEFINE R == {ss \in Nat \X Nat : ss[1] < ss[2]}
<1>1. IsWellFoundedOn(R, Nat)
  BY NatLessThanWellFounded, Zenon DEF OpToRel
<1>2. \E m \in B : \A x \in B : ~(<<x, m>> \in R)
  <2> HIDE DEF R
  <2> QED
    BY <1>1, WFMin, Zenon
<1> QED
  BY <1>2

\* What round k of loop l does to a.
Step(l, a, k) ==
  CASE l.kind = "select" -> Inspect(l.m, a, k, l.draw[k])
    [] l.kind = "shuffle" -> SwapRandom(a, k, l.draw[k])

\* f[k] is what k rounds make of q.
Rounds(f, l, q, n) ==
  f = [k \in 0..n |-> IF k = 0 THEN q ELSE Step(l, f[k - 1], k)]

\* A loop is well defined for any number of rounds.
LEMMA RoundsExist ==
  ASSUME NEW l, NEW q, NEW n \in Nat
  PROVE  \E f : Rounds(f, l, q, n)
<1> DEFINE B == {m \in Nat : ~ \E f : Rounds(f, l, q, m)}
<1>1. SUFFICES ASSUME B # {} PROVE FALSE
  OBVIOUS
<1>2. PICK m \in B : \A x \in B : ~(x < m)
  BY <1>1, LeastNat, Zenon
<1>3. CASE m = 0
  <2>1. Rounds([k \in 0..0 |-> q], l, q, 0)
    BY DEF Rounds
  <2> QED
    BY <1>2, <1>3, <2>1
<1>4. CASE m # 0
  <2>1. m - 1 \in Nat /\ m - 1 < m /\ m \in Nat
    BY <1>4
  <2>2. m - 1 \notin B
    BY <1>2, <2>1
  <2>3. PICK g : Rounds(g, l, q, m - 1)
    BY <2>1, <2>2
  <2> DEFINE f == [k \in 0..m |-> IF k = m THEN Step(l, g[m - 1], m) ELSE g[k]]
  <2>4. \A k \in 0..(m - 1) : g[k] = IF k = 0 THEN q ELSE Step(l, g[k - 1], k)
    <3> DEFINE F(k) == IF k = 0 THEN q ELSE Step(l, g[k - 1], k)
    <3>1. g = [k \in 0..(m - 1) |-> F(k)]
      BY <2>3 DEF Rounds
    <3> HIDE DEF F
    <3>2. \A k \in 0..(m - 1) : g[k] = F(k)
      BY <3>1
    <3> QED
      BY <3>2 DEF F
  <2>5. ASSUME NEW k \in 0..m
        PROVE  f[k] = IF k = 0 THEN q ELSE Step(l, f[k - 1], k)
    <3>1. CASE k = m
      <4>1. f[k - 1] = g[k - 1] /\ f[k] = Step(l, g[m - 1], m)
        BY <3>1, <2>1
      <4> QED
        BY <3>1, <4>1, <1>4
    <3>2. CASE k # m /\ k = 0
      BY <3>2, <2>1, <2>4
    <3>3. CASE k # m /\ k # 0
      <4>1. k \in 0..(m - 1) /\ k - 1 \in 0..m /\ k - 1 # m
        BY <3>3, <2>1
      <4>2. f[k] = g[k] /\ f[k - 1] = g[k - 1]
        BY <3>3, <4>1
      <4> QED
        BY <3>3, <4>1, <4>2, <2>4
    <3> QED
      BY <3>1, <3>2, <3>3
  <2>6. f = [k \in 0..m |-> f[k]]
    OBVIOUS
  <2> HIDE DEF f
  <2>7. Rounds(f, l, q, m)
    BY <2>5, <2>6 DEF Rounds
  <2> QED
    BY <2>7
<1> QED
  BY <1>3, <1>4

\* Round by round.
LEMMA RoundsAre ==
  ASSUME NEW l, NEW q, NEW n \in Nat, NEW f, Rounds(f, l, q, n)
  PROVE  f[0] = q /\ \A k \in 1..n : f[k] = Step(l, f[k - 1], k)
<1> DEFINE F(k) == IF k = 0 THEN q ELSE Step(l, f[k - 1], k)
<1>1. f = [k \in 0..n |-> F(k)]
  BY DEF Rounds
<1> HIDE DEF F
<1>2. \A k \in 0..n : f[k] = F(k)
  BY <1>1
<1> QED
  BY <1>2 DEF F

\* A set of rounds that has the first, and the next of each, has all.
LEMMA AllRounds ==
  ASSUME NEW n \in Nat, NEW B, 0 \in B, \A k \in 1..n : k - 1 \in B => k \in B
  PROVE  \A k \in 0..n : k \in B
<1> DEFINE W == {k \in 0..n : k \notin B}
<1>1. SUFFICES ASSUME W # {} PROVE FALSE
  OBVIOUS
<1>2. PICK m \in W : \A x \in W : ~(x < m)
  <2>1. W \subseteq Nat
    OBVIOUS
  <2> HIDE DEF W
  <2> QED
    BY <1>1, <2>1, LeastNat
<1>3. m # 0 /\ m \in 1..n /\ m - 1 \in 0..n /\ m - 1 < m
  BY <1>2
<1>4. m - 1 \in B
  BY <1>2, <1>3
<1> QED
  BY <1>2, <1>3, <1>4

\* The loop of SelectTried.
SelectRounds(f, m, u, draw) ==
  f = [i \in 0..Len(draw) |-> IF i = 0 THEN [vTried |-> u, nOldest |-> -1, nPos |-> -1]
                              ELSE Inspect(m, f[i - 1], i, draw[i])]

\* It is one of the loops.
Selects(f, m, u, draw) ==
  /\ SelectTried(m, u, draw) = f[Len(draw)]
  /\ f[0] = [vTried |-> u, nOldest |-> -1, nPos |-> -1]
  /\ \A k \in 1..Len(draw) : f[k] = Inspect(m, f[k - 1], k, draw[k])

\* SelectTried goes through its rounds.
LEMMA SelectLoop ==
  ASSUME NEW m, NEW u, NEW draw, Len(draw) \in Nat
  PROVE  \E f : Selects(f, m, u, draw)
<1> DEFINE q == [vTried |-> u, nOldest |-> -1, nPos |-> -1]
           l == [kind |-> "select", m |-> m, draw |-> draw]
           n == Len(draw)
           f == CHOOSE g : SelectRounds(g, m, u, draw)
<1>1. \A a, k : Step(l, a, k) = Inspect(m, a, k, draw[k])
  BY DEF Step
<1>2. SelectTried(m, u, draw) = f[Len(draw)]
  BY Zenon DEF SelectTried, SelectRounds
<1> HIDE DEF l, q
<1>3. ASSUME NEW g
      PROVE  SelectRounds(g, m, u, draw) <=> Rounds(g, l, q, n)
  BY <1>1 DEF SelectRounds, Rounds, q
<1>4. \E g : SelectRounds(g, m, u, draw)
  BY <1>3, RoundsExist
<1>5. SelectRounds(f, m, u, draw)
  BY <1>4, Zenon
<1>6. Rounds(f, l, q, n)
  BY <1>3, <1>5
<1> HIDE DEF f
<1>7. f[0] = q /\ \A k \in 1..n : f[k] = Step(l, f[k - 1], k)
  <2> HIDE DEF n
  <2>1. n \in Nat
    BY DEF n
  <2>2. ASSUME NEW g, Rounds(g, l, q, n)
        PROVE  g[0] = q
    BY <2>1, <2>2, RoundsAre
  <2>3. ASSUME NEW g, Rounds(g, l, q, n)
        PROVE  \A k \in 1..n : g[k] = Step(l, g[k - 1], k)
    BY <2>1, <2>3, RoundsAre
  <2> QED
    BY <1>6, <2>2, <2>3
<1> QED
  BY <1>1, <1>2, <1>7 DEF q, Selects

\* The loop of GetAddr_.
ShuffleRounds(f, m, n, r) ==
  f = [i \in 0..n |-> IF i = 0 THEN m ELSE SwapRandom(f[i - 1], i, r[i])]

\* It is one of the loops.
Shuffles(f, m, n, r) ==
  /\ Shuffled(m, n, r) = f[n]
  /\ f[0] = m
  /\ \A k \in 1..n : f[k] = SwapRandom(f[k - 1], k, r[k])

\* The shuffle goes through its rounds.
LEMMA ShuffleLoop ==
  ASSUME NEW m, NEW n \in Nat, NEW r
  PROVE  \E f : Shuffles(f, m, n, r)
<1> DEFINE l == [kind |-> "shuffle", draw |-> r]
           f == CHOOSE g : ShuffleRounds(g, m, n, r)
<1>1. \A a, k : Step(l, a, k) = SwapRandom(a, k, r[k])
  BY DEF Step
<1>2. Shuffled(m, n, r) = f[n]
  BY Zenon DEF Shuffled, ShuffleRounds
<1> HIDE DEF l
<1>3. ASSUME NEW g
      PROVE  ShuffleRounds(g, m, n, r) <=> Rounds(g, l, m, n)
  BY <1>1 DEF ShuffleRounds, Rounds
<1>4. \E g : ShuffleRounds(g, m, n, r)
  BY <1>3, RoundsExist
<1>5. ShuffleRounds(f, m, n, r)
  BY <1>4, Zenon
<1>6. Rounds(f, l, m, n)
  BY <1>3, <1>5
<1> HIDE DEF f
<1>7. f[0] = m /\ \A k \in 1..n : f[k] = Step(l, f[k - 1], k)
  BY <1>6, RoundsAre
<1> QED
  BY <1>1, <1>2, <1>7 DEF Shuffles

\* Two entries of a bucket change places.
LEMMA SwapReordered ==
  ASSUME NEW S, NEW u, NEW x \in Seq(S), Reordered(u, x),
         NEW i \in 1..Len(x), NEW j \in 1..Len(x)
  PROVE  LET v == [x EXCEPT ![j] = x[i], ![i] = x[j]]
         IN v \in Seq(S) /\ Reordered(u, v)
<1> DEFINE v == [x EXCEPT ![j] = x[i], ![i] = x[j]]
           s(n) == IF n = i THEN j ELSE IF n = j THEN i ELSE n
<1>1. v \in Seq(S) /\ Len(v) = Len(x)
  OBVIOUS
<1>2. \A n \in 1..Len(x) : s(n) \in 1..Len(x) /\ v[n] = x[s(n)] /\ s(s(n)) = n
  OBVIOUS
<1>3. /\ Len(x) = Len(u)
      /\ \A n \in 1..Len(x) : \E k \in 1..Len(u) : u[k] = x[n]
      /\ \A k \in 1..Len(u) : \E n \in 1..Len(x) : x[n] = u[k]
      /\ \A n, k \in 1..Len(x) : x[n] = x[k] => n = k
  BY DEF Reordered
<1> HIDE DEF v, s
<1>4. ASSUME NEW n \in 1..Len(x) PROVE \E k \in 1..Len(u) : u[k] = v[n]
  <2>1. s(n) \in 1..Len(x) /\ v[n] = x[s(n)]
    BY <1>2
  <2>2. \E k \in 1..Len(u) : u[k] = x[s(n)]
    BY <1>3, <2>1, Zenon
  <2> QED
    BY <2>1, <2>2
<1>5. ASSUME NEW k \in 1..Len(u) PROVE \E n \in 1..Len(x) : v[n] = u[k]
  <2>1. PICK n \in 1..Len(x) : x[n] = u[k]
    BY <1>3
  <2>2. s(n) \in 1..Len(x) /\ v[s(n)] = x[n]
    BY <1>2
  <2> QED
    BY <2>1, <2>2
<1>6. ASSUME NEW n \in 1..Len(x), NEW k \in 1..Len(x), v[n] = v[k] PROVE n = k
  <2>2. s(n) \in 1..Len(x) /\ s(k) \in 1..Len(x) /\ x[s(n)] = x[s(k)]
    BY <1>2, <1>6
  <2>1. s(n) = s(k)
    BY <1>3, <2>2, Zenon
  <2> QED
    BY <1>2, <2>1
<1> QED
  BY <1>1, <1>3, <1>4, <1>5, <1>6 DEF v, Reordered

\* At least one place is drawn, and each is a place of the bucket.
LEMMA DrawsAre ==
  ASSUME NEW n \in Nat \ {0}, NEW draw \in Draws(n)
  PROVE  Len(draw) \in 1..n /\ \A i \in 1..Len(draw) : draw[i] \in 1..n
<1> DEFINE S == {n, ADDRMAN_TRIED_ENTRIES_INSPECT_ON_EVICT}
           k == Min(S)
<1>1. S \subseteq Nat \ {0} /\ n \in S
  BY AddrManAssumption
<1>2. \E y \in S : \A z \in S : y <= z
  <2>1. CASE n <= ADDRMAN_TRIED_ENTRIES_INSPECT_ON_EVICT
    BY <1>1, <2>1
  <2>2. CASE ~(n <= ADDRMAN_TRIED_ENTRIES_INSPECT_ON_EVICT)
    BY <1>1, <2>2, AddrManAssumption
  <2> QED
    BY <2>1, <2>2
<1>3. k \in S /\ \A z \in S : k <= z
  BY <1>2 DEF Min
<1>4. draw \in [1..k -> 1..n]
  BY DEF Draws
<1> HIDE DEF k
<1>5. k \in 1..n
  BY <1>1, <1>3
<1>6. Len(draw) = k
  BY <1>4, <1>5
<1> QED
  BY <1>4, <1>5, <1>6

\* SelectTried only changes the order of the bucket, and its choice is a place of it.
LEMMA SelectIs ==
  ASSUME NEW m, NEW S, NEW u \in Seq(S), \A n, k \in 1..Len(u) : u[n] = u[k] => n = k,
         u # <<>>, NEW draw \in Draws(Len(u))
  PROVE  LET sel == SelectTried(m, u, draw)
         IN sel.vTried \in Seq(S) /\ Reordered(u, sel.vTried) /\ sel.nPos \in 1..Len(u)
<1> DEFINE c == Len(draw)
           OK(a, k) == /\ a = [vTried |-> a.vTried, nOldest |-> a.nOldest, nPos |-> a.nPos]
                       /\ a.vTried \in Seq(S) /\ Reordered(u, a.vTried)
                       /\ IF k = 0 THEN a.nOldest = -1 ELSE a.nPos \in 1..Len(u)
<1>1. Len(u) \in Nat \ {0}
  BY EmptySeq
<1>2. c \in 1..Len(u) /\ \A i \in 1..c : draw[i] \in 1..Len(u)
  BY <1>1, DrawsAre
<1>10. PICK f : Selects(f, m, u, draw)
  <2>1. Len(draw) \in Nat
    BY <1>2
  <2> QED
    BY <2>1, SelectLoop
<1>3. /\ SelectTried(m, u, draw) = f[c]
      /\ f[0] = [vTried |-> u, nOldest |-> -1, nPos |-> -1]
      /\ \A k \in 1..c : f[k] = Inspect(m, f[k - 1], k, draw[k])
  BY <1>10, Zenon DEF Selects
<1>9. c \in Nat
  BY <1>2
<1> HIDE DEF c
<1>4. OK(f[0], 0)
  <2>1. Reordered(u, u)
    BY DEF Reordered
  <2> QED
    BY <1>3, <2>1
<1>5. ASSUME NEW k \in 1..c, OK(f[k - 1], k - 1) PROVE OK(f[k], k)
  <2> DEFINE a == f[k - 1]
             x == a.vTried
             j == draw[k]
             v == [x EXCEPT ![j] = x[k], ![k] = x[j]]
             r == f[k]
  <2>1. k \in 1..Len(x) /\ j \in 1..Len(x) /\ x \in Seq(S) /\ Reordered(u, x) /\ Len(x) = Len(u)
    <3>1. x \in Seq(S) /\ Reordered(u, x)
      BY <1>5
    <3>2. Len(x) = Len(u)
      BY <3>1 DEF Reordered
    <3>3. k \in 1..Len(u) /\ j \in 1..Len(u)
      BY <1>1, <1>2
    <3> QED
      BY <3>1, <3>2, <3>3
  <2>2. v \in Seq(S) /\ Reordered(u, v)
    <3> HIDE DEF x, j
    <3> QED
      BY <2>1, SwapReordered
  <2>3. \/ r = [vTried |-> v, nOldest |-> x[j], nPos |-> j]
        \/ a.nOldest # -1 /\ r = [a EXCEPT !.vTried = v]
    <3>1. r = Inspect(m, a, k, j)
      BY <1>3
    <3> HIDE DEF a, j, r
    <3> QED
      BY <3>1 DEF Inspect
  <2> HIDE DEF v, x, j, r
  <2>4. CASE r = [vTried |-> v, nOldest |-> x[j], nPos |-> j]
    <3>1. r.vTried = v /\ r.nPos = j /\ r = [vTried |-> r.vTried, nOldest |-> r.nOldest, nPos |-> r.nPos]
      BY <2>4
    <3> QED
      BY <2>1, <2>2, <3>1 DEF r
  <2>5. CASE a.nOldest # -1 /\ r = [a EXCEPT !.vTried = v]
    <3>1. a = [vTried |-> a.vTried, nOldest |-> a.nOldest, nPos |-> a.nPos] /\ a.nPos \in 1..Len(u)
      BY <1>5, <2>5
    <3> HIDE DEF a
    <3>2. r.vTried = v /\ r.nPos = a.nPos
          /\ r = [vTried |-> r.vTried, nOldest |-> r.nOldest, nPos |-> r.nPos]
      BY <2>5, <3>1
    <3> QED
      BY <2>2, <3>1, <3>2 DEF r
  <2> QED
    BY <2>3, <2>4, <2>5
<1> DEFINE B == {k \in 0..c : OK(f[k], k)}
<1>6. 0 \in B /\ \A k \in 1..c : k - 1 \in B => k \in B
  <2> HIDE DEF OK
  <2> QED
    BY <1>2, <1>4, <1>5
<1>7. c \in B
  <2> HIDE DEF B
  <2>1. \A k \in 0..c : k \in B
    BY <1>6, <1>9, AllRounds
  <2> QED
    BY <1>9, <2>1
<1>8. OK(f[c], c) /\ c # 0
  BY <1>2, <1>7
<1> QED
  BY <1>3, <1>8


-----------------------------------------------------------------------------
(* Addresses: Good_ and GetAddr_ *)

\* LeaveNew itself: the entry is no longer counted as new.
LEMMA LeaveIs ==
  ASSUME NEW m, Shape(m), m.nNew \in Int, NEW id
  PROVE  LET l == LeaveNew(m, id)
             r == Left(m, id)
         IN /\ Shape(l) /\ l.mapInfo = r.mapInfo /\ l.mapAddr = r.mapAddr
            /\ l.vRandom = r.vRandom /\ l.vvTried = r.vvTried /\ l.vvNew = r.vvNew
            /\ l.nTried = r.nTried /\ l.nNew = m.nNew - 1 /\ r.nNew = m.nNew
            /\ l.nIdCount = r.nIdCount
<1> DEFINE l == LeaveNew(m, id)
           r == Left(m, id)
           f == [m.mapInfo EXCEPT ![id].nRefCount = @ - Cardinality(InNew(m, id))]
           g == [b \in NewBuckets |-> m.vvNew[b] \ {id}]
<1>1. l = [m EXCEPT !.vvNew = g, !.mapInfo = f, !.nNew = @ - 1] /\ r = [l EXCEPT !.nNew = @ + 1]
  BY Zenon DEF Left, LeaveNew, InNew
<1> HIDE DEF l, r, f, g
<1>2. l = [mapInfo |-> f, mapAddr |-> m.mapAddr, vRandom |-> m.vRandom, vvTried |-> m.vvTried,
           vvNew |-> g, nTried |-> m.nTried, nNew |-> m.nNew - 1, nIdCount |-> m.nIdCount]
  BY <1>1 DEF Shape
<1>3. r = [mapInfo |-> f, mapAddr |-> m.mapAddr, vRandom |-> m.vRandom, vvTried |-> m.vvTried,
           vvNew |-> g, nTried |-> m.nTried, nNew |-> (m.nNew - 1) + 1, nIdCount |-> m.nIdCount]
  BY <1>1, <1>2
<1>4. (m.nNew - 1) + 1 = m.nNew
  OBVIOUS
<1> QED
  BY <1>2, <1>3, <1>4 DEF l, r, Shape

\* MakeTried, with room in the tried bucket and without.
LEMMA MakeTriedFit ==
  ASSUME NEW m, Fit(m, None, None), NEW id \in Ids(m), ~m.mapInfo[id].fInTried,
         m.mapInfo[id].nLastSuccess # 0, NEW origin \in InNew(m, id), MakeTried(m, id, origin)
  PROVE  Fit(am', None, None) /\ am'.mapAddr = m.mapAddr
<1> DEFINE k == TriedBucket[m.mapInfo[id].addr]
           l == LeaveNew(m, id)
           n == Left(m, id)
           u == m.vvTried[k]
           r == am'
<1>1. /\ Fit(n, None, id) /\ Ids(n) = Ids(m) /\ TriedIds(n) = TriedIds(m)
      /\ n.mapInfo[id].nRefCount = 0
      /\ \A b \in InNew(m, id) : Cardinality(n.vvNew[b]) < ADDRMAN_NEW_BUCKET_SIZE
      /\ \A i \in Ids(m) : n.mapInfo[i].source = m.mapInfo[i].source
  BY LeaveFit
<1>2. SameButRefs(m, n)
  BY LeaveFit
<1>3. /\ Shape(l) /\ l.mapInfo = n.mapInfo /\ l.mapAddr = n.mapAddr
      /\ l.vRandom = n.vRandom /\ l.vvTried = n.vvTried /\ l.vvNew = n.vvNew
      /\ l.nTried = n.nTried /\ l.nNew = m.nNew - 1 /\ n.nNew = m.nNew
      /\ l.nIdCount = n.nIdCount
  <2>1. Shape(m) /\ m.nNew \in Int
    BY DEF Fit, Typed
  <2> QED
    BY <2>1, LeaveIs
<1>4. m.nNew \in Int /\ m.nTried \in Int /\ m.vvTried \in [TriedBuckets -> Seq(Ids(m))]
      /\ m.mapInfo \in [Ids(m) -> Entry]
  BY DEF Fit, Typed
<1>5. /\ n.mapInfo \in [Ids(m) -> Entry] /\ n.vvTried = m.vvTried /\ n.mapAddr = m.mapAddr
      /\ n.vvNew \in [NewBuckets -> SUBSET Ids(m)]
      /\ \A i \in Ids(m) : /\ n.mapInfo[i].addr = m.mapInfo[i].addr
                           /\ n.mapInfo[i].fInTried = m.mapInfo[i].fInTried
                           /\ n.mapInfo[i].nLastSuccess = m.mapInfo[i].nLastSuccess
  BY <1>2 DEF SameButRefs
<1>6. /\ id \in Ids(n) /\ ~n.mapInfo[id].fInTried /\ n.mapInfo[id].nLastSuccess # 0
      /\ k = TriedBucket[n.mapInfo[id].addr] /\ u = n.vvTried[k]
  BY <1>1, <1>5
<1>7. k \in TriedBuckets
  <2>1. m.mapInfo[id].addr \in Address
    BY <1>4, Zenon DEF Entry
  <2> QED
    BY <2>1 DEF TriedBuckets
<1>8. u \in Seq(Ids(m)) /\ \A x, y \in 1..Len(u) : u[x] = u[y] => x = y
  <2>1. u \in Seq(Ids(m))
    BY <1>4, <1>7
  <2>2. TriedFits(m)
    BY DEF Fit
  <2> QED
    BY <1>7, <2>1, <2>2 DEF TriedFits
<1>9. IF Len(u) < ADDRMAN_TRIED_BUCKET_SIZE
      THEN r = [l EXCEPT !.vvTried[k] = Append(@, id), !.nTried = @ + 1,
                         !.mapInfo[id].fInTried = TRUE]
      ELSE \E draw \in Draws(Len(u)) :
             LET sel == SelectTried(l, u, draw)
                 old == sel.vTried[sel.nPos]
             IN r = [Evict(l, id, old, origin) EXCEPT
                       !.vvTried[k] = [sel.vTried EXCEPT ![sel.nPos] = id],
                       !.mapInfo[id].fInTried = TRUE]
  BY Zenon DEF MakeTried
<1> HIDE DEF l, n, r, k
<1>10. CASE Len(u) < ADDRMAN_TRIED_BUCKET_SIZE
  <2> DEFINE f == [n.mapInfo EXCEPT ![id].fInTried = TRUE]
             g == [n.vvTried EXCEPT ![k] = Append(@, id)]
  <2>1. r = [l EXCEPT !.vvTried = g, !.nTried = @ + 1, !.mapInfo = f]
    <3>1. r = [l EXCEPT !.vvTried[k] = Append(@, id), !.nTried = @ + 1,
                        !.mapInfo[id].fInTried = TRUE]
      BY <1>9, <1>10
    <3> QED
      BY <1>3, <3>1, Zenon
  <2> HIDE DEF f, g
  <2>2. /\ r.mapInfo = f /\ r.mapAddr = n.mapAddr /\ r.vRandom = n.vRandom /\ r.vvTried = g
        /\ r.vvNew = n.vvNew /\ r.nTried = n.nTried + 1 /\ r.nNew = m.nNew - 1
        /\ r.nIdCount = n.nIdCount /\ Shape(r)
    BY <1>3, <2>1 DEF Shape
  <2>3. r.nNew = n.nNew - 1
    BY <1>3, <2>2
  <2>4. Len(n.vvTried[k]) < ADDRMAN_TRIED_BUCKET_SIZE
    BY <1>6, <1>10
  <2>5. Promoted(n, r, id, k)
    BY <2>2, <2>3, Zenon DEF Promoted, f, g
  <2>6. Fit(r, None, None)
    BY <1>1, <1>6, <2>4, <2>5, PromoteFit
  <2> QED
    BY <1>5, <2>2, <2>6 DEF r
<1>11. CASE ~(Len(u) < ADDRMAN_TRIED_BUCKET_SIZE)
  <2>1. PICK draw \in Draws(Len(u)) :
             LET sel == SelectTried(l, u, draw)
                 old == sel.vTried[sel.nPos]
             IN r = [Evict(l, id, old, origin) EXCEPT
                       !.vvTried[k] = [sel.vTried EXCEPT ![sel.nPos] = id],
                       !.mapInfo[id].fInTried = TRUE]
    BY <1>9, <1>11, Zenon
  <2> DEFINE sel == SelectTried(l, u, draw)
             v == sel.vTried
             pos == sel.nPos
             old == v[pos]
             own == NewBucket[<<l.mapInfo[old].addr, l.mapInfo[old].source>>]
             to == IF Cardinality(l.vvNew[own]) < ADDRMAN_NEW_BUCKET_SIZE THEN own ELSE origin
  <2>2. u # <<>>
    <3>1. ADDRMAN_TRIED_BUCKET_SIZE \in Nat \ {0}
      BY AddrManAssumption
    <3>2. Len(u) # 0
      BY <1>11, <3>1
    <3> HIDE DEF u
    <3> QED
      BY <3>2
  <2>3. v \in Seq(Ids(m)) /\ Reordered(u, v) /\ pos \in 1..Len(u)
    <3> HIDE DEF u
    <3> QED
      BY <1>8, <2>2, SelectIs
  <2>4. pos \in 1..Len(v) /\ old \in Ids(m)
    <3> HIDE DEF v, pos, u
    <3>1. pos \in 1..Len(v)
      BY <2>3 DEF Reordered
    <3> QED
      BY <2>3, <3>1
  <2>5. old # id
    <3>1. PICK j \in 1..Len(u) : u[j] = old
      BY <2>3, <2>4, Zenon DEF Reordered
    <3>2. m.mapInfo[u[j]].fInTried
      <4>1. TriedFits(m)
        BY DEF Fit
      <4> QED
        BY <1>7, <4>1, Zenon DEF TriedFits
    <3> QED
      BY <3>1, <3>2
  <2>6. r = [Evict(l, id, old, origin) EXCEPT !.vvTried[k] = [v EXCEPT ![pos] = id],
                                              !.mapInfo[id].fInTried = TRUE]
    BY <2>1, Zenon
  <2>7. Evict(l, id, old, origin) =
          [l EXCEPT !.mapInfo = [@ EXCEPT ![old].fInTried = FALSE, ![old].nRefCount = 1],
                    !.vvNew[to] = @ \cup {old}, !.nNew = @ + 1]
    BY Zenon DEF Evict
  <2> HIDE DEF sel, v, pos, old
  <2>8. own \in NewBuckets
    <3>1. n.mapInfo[old] \in Entry
      BY <1>5, <2>4
    <3>2. l.mapInfo[old].addr \in Address /\ l.mapInfo[old].source \in Source
      BY <1>3, <3>1 DEF Entry
    <3> QED
      BY <3>2, NewBucketIs
  <2> HIDE DEF own
  <2>9. to \in NewBuckets /\ Cardinality(n.vvNew[to]) < ADDRMAN_NEW_BUCKET_SIZE
    <3>1. origin \in NewBuckets /\ Cardinality(n.vvNew[origin]) < ADDRMAN_NEW_BUCKET_SIZE
      BY <1>1 DEF InNew
    <3> QED
      BY <1>3, <2>8, <3>1
  <2> HIDE DEF to
  <2> DEFINE f1 == [n.mapInfo EXCEPT ![old].fInTried = FALSE, ![old].nRefCount = 1]
             f == [f1 EXCEPT ![id].fInTried = TRUE]
             g == [n.vvTried EXCEPT ![k] = [v EXCEPT ![pos] = id]]
             h == [n.vvNew EXCEPT ![to] = n.vvNew[to] \cup {old}]
  <2>10. /\ f \in [Ids(m) -> Entry]
         /\ f[id] = [n.mapInfo[id] EXCEPT !.fInTried = TRUE]
         /\ f[old] = [n.mapInfo[old] EXCEPT !.fInTried = FALSE, !.nRefCount = 1]
         /\ \A i \in Ids(m) : i # id /\ i # old => f[i] = n.mapInfo[i]
    <3> DEFINE q == n.mapInfo
               o1 == [q[old] EXCEPT !.fInTried = FALSE, !.nRefCount = 1]
               e1 == [q[id] EXCEPT !.fInTried = TRUE]
    <3>1. q \in [Ids(m) -> Entry] /\ q[old] \in Entry /\ q[id] \in Entry
      BY <1>5, <2>4
    <3>2. o1 \in Entry /\ e1 \in Entry
      BY <3>1 DEF Entry
    <3>3. f1 = [q EXCEPT ![old] = o1]
      BY <3>1, <2>4
    <3> HIDE DEF q, o1, f1
    <3>4. f1 \in [Ids(m) -> Entry] /\ f1[old] = o1 /\ \A i \in Ids(m) : i # old => f1[i] = q[i]
      BY <2>4, <3>1, <3>2, <3>3
    <3>5. f1[id] = q[id]
      BY <2>5, <3>4
    <3>6. f = [f1 EXCEPT ![id] = e1]
      BY <3>4, <3>5
    <3> HIDE DEF f, e1
    <3>7. f \in [Ids(m) -> Entry] /\ f[id] = e1 /\ \A i \in Ids(m) : i # id => f[i] = f1[i]
      BY <3>2, <3>4, <3>6
    <3> QED
      BY <2>4, <2>5, <3>4, <3>7 DEF q, o1, e1
  <2> DEFINE E == Evict(l, id, old, origin)
  <2>11. /\ E.mapInfo = f1 /\ E.mapAddr = l.mapAddr /\ E.vRandom = l.vRandom
         /\ E.vvTried = l.vvTried /\ E.vvNew = h /\ E.nTried = l.nTried /\ E.nNew = l.nNew + 1
         /\ E.nIdCount = l.nIdCount /\ Shape(E)
    <3>1. E = [l EXCEPT !.mapInfo = f1, !.vvNew = h, !.nNew = @ + 1]
      BY <1>3, <2>7, Zenon
    <3> HIDE DEF E, f1, h
    <3> QED
      BY <1>3, <3>1 DEF Shape
  <2>17. r = [E EXCEPT !.vvTried = g, !.mapInfo = f]
    <3> HIDE DEF E
    <3>1. r = [E EXCEPT !.vvTried[k] = [v EXCEPT ![pos] = id], !.mapInfo[id].fInTried = TRUE]
      BY <2>6 DEF E
    <3>2. E.vvTried = n.vvTried /\ E.mapInfo = f1
      BY <1>3, <2>11
    <3> QED
      BY <3>1, <3>2, Zenon
  <2> HIDE DEF E, f, f1, g, h
  <2>12. /\ r.mapInfo = f /\ r.mapAddr = n.mapAddr /\ r.vRandom = n.vRandom /\ r.vvTried = g
         /\ r.vvNew = h /\ r.nTried = n.nTried /\ r.nNew = (m.nNew - 1) + 1
         /\ r.nIdCount = n.nIdCount /\ Shape(r)
    BY <1>3, <2>11, <2>17 DEF Shape
  <2>13. r.nNew = n.nNew
    BY <1>3, <1>4, <2>12
  <2>14. Ids(r) = Ids(n)
    BY <1>1, <2>10, <2>12 DEF Ids
  <2>15. Replaced(n, r, id, k, v, pos, to)
    BY <1>1, <2>10, <2>12, <2>13, <2>14, Zenon DEF Replaced, old, g, h
  <2>16. Fit(r, None, None)
    <3>1. v \in Seq(Ids(n)) /\ Reordered(n.vvTried[k], v)
      BY <1>1, <1>6, <2>3
    <3> HIDE DEF u
    <3> QED
      BY <1>1, <1>6, <2>4, <2>9, <2>15, <3>1, ReplaceFit, Zenon
  <2> QED
    BY <1>5, <2>12, <2>16, Zenon DEF r
<1> QED
  BY <1>10, <1>11

\* Good_ keeps the invariant and every address.
LEMMA GoodFit ==
  ASSUME TablesInv, NEW a \in Address, Good(a)
  PROVE  TablesInv' /\ TriedKept
<1> DEFINE id == am.mapAddr[a]
           m == Marked(am, id, nGood + 1)
<1>1. a \in DOMAIN am.mapAddr /\ nGood' = nGood + 1 /\ nGood \in Nat /\ Fit(am, None, None)
  BY DEF Good, TablesInv
<1>2. IF m.mapInfo[id].fInTried
      THEN am' = m
      ELSE \E origin \in {b \in NewBuckets : id \in m.vvNew[b]} : MakeTried(m, id, origin)
  BY Zenon DEF Good, Marked
<1>3. id \in Ids(am)
  BY <1>1 DEF Fit, Typed
<1> HIDE DEF id
<1>4. nGood + 1 \in Nat \ {0}
  BY <1>1
<1>5. /\ Fit(m, None, None) /\ Same(am, m) /\ m.mapInfo[id].nLastSuccess = nGood + 1
  BY <1>1, <1>3, <1>4, MarkFit
<1> HIDE DEF m
<1>6. id \in Ids(m) /\ m.mapInfo[id].nLastSuccess # 0 /\ m.mapAddr = am.mapAddr
  BY <1>1, <1>3, <1>5 DEF Same
<1>7. Fit(am', None, None) /\ am'.mapAddr = am.mapAddr
  <2>1. CASE m.mapInfo[id].fInTried
    BY <1>2, <1>5, <1>6, <2>1
  <2>2. CASE ~m.mapInfo[id].fInTried
    <3>1. PICK origin \in InNew(m, id) : MakeTried(m, id, origin)
      BY <1>2, <2>2, Zenon DEF InNew
    <3>2. Fit(am', None, None) /\ am'.mapAddr = m.mapAddr
      BY <1>5, <1>6, <2>2, <3>1, MakeTriedFit
    <3> QED
      BY <1>6, <3>2
  <2> QED
    BY <2>1, <2>2
<1>8. TriedKept
  <2>1. Named(am)
    BY <1>1 DEF Fit
  <2> QED
    BY <1>7, <2>1 DEF TriedKept, Named, TriedIds
<1> QED
  BY <1>1, <1>7, <1>8 DEF TablesInv

\* GetAddr_ changes vRandom only, and keeps it in order with the entries.
LEMMA GetAddrFit ==
  ASSUME TablesInv, GetAddr
  PROVE  TablesInv' /\ TriedKept
<1> DEFINE L == Len(am.vRandom)
           q == (ADDRMAN_GETADDR_MAX_PCT * L) \div 100
           C == {ADDRMAN_GETADDR_MAX, q}
           n == Min(C)
<1>1. Fit(am, None, None) /\ nGood' = nGood /\ nGood \in Nat
  BY Zenon DEF GetAddr, TablesInv
<1>2. L \in Nat /\ DOMAIN am.vRandom = 1..L
  <2>1. am.vRandom \in Seq(Ids(am))
    BY <1>1 DEF Fit, Typed
  <2> QED
    BY <2>1
<1>14. q \in 0..L
  <2> DEFINE p == ADDRMAN_GETADDR_MAX_PCT
  <2>1. p \in 0..100
    BY AddrManAssumption
  <2> HIDE DEF p, L
  <2>2. p * L \in Nat /\ p * L <= 100 * L
    BY <1>2, <2>1, Z3
  <2>3. \A x \in Nat : x <= 100 * L => x \div 100 \in 0..L
    BY <1>2
  <2> QED
    BY <2>2, <2>3 DEF p
<1>3. n \in 0..L
  <2> DEFINE x == ADDRMAN_GETADDR_MAX
  <2> HIDE DEF q, L
  <2>1. x \in Nat /\ q \in Nat /\ C = {x, q} /\ L \in Nat /\ q <= L
    BY <1>2, <1>14, AddrManAssumption
  <2> HIDE DEF x
  <2>2. \E y \in C : \A z \in C : y <= z
    BY <2>1
  <2>3. n \in C /\ \A z \in C : n <= z
    <3> HIDE DEF C
    <3> QED
      BY <2>2, Zenon DEF Min
  <2> HIDE DEF n
  <2> QED
    BY <2>1, <2>3
<1>4. PICK r \in [1..n -> 1..L] : am' = Shuffled(am, n, r)
  BY <1>2, Zenon DEF GetAddr
<1> HIDE DEF n, L, q, C
<1>5. n \in Nat
  BY <1>2, <1>3
<1>13. PICK f : Shuffles(f, am, n, r)
  BY <1>5, ShuffleLoop
<1>6. /\ Shuffled(am, n, r) = f[n]
      /\ f[0] = am
      /\ \A k \in 1..n : f[k] = SwapRandom(f[k - 1], k, r[k])
  BY <1>13, Zenon DEF Shuffles
<1> DEFINE OK(m) == Fit(m, None, None) /\ Len(m.vRandom) = L /\ m.mapAddr = am.mapAddr
           B == {k \in 0..n : OK(f[k])}
<1>7. OK(f[0])
  BY <1>1, <1>6 DEF L
<1>8. ASSUME NEW k \in 1..n, OK(f[k - 1]) PROVE OK(f[k])
  <2> DEFINE m == f[k - 1]
  <2>1. k \in 1..L /\ r[k] \in 1..L /\ f[k] = SwapRandom(m, k, r[k])
    BY <1>2, <1>3, <1>6
  <2>2. Fit(m, None, None) /\ Len(m.vRandom) = L /\ m.mapAddr = am.mapAddr
    BY <1>8
  <2> HIDE DEF m
  <2>3. k \in 1..Len(m.vRandom) /\ r[k] \in 1..Len(m.vRandom)
    BY <2>1, <2>2
  <2> QED
    BY <2>1, <2>2, <2>3, SwapFit
<1>9. 0 \in B /\ \A k \in 1..n : k - 1 \in B => k \in B
  <2> HIDE DEF OK
  <2> QED
    BY <1>5, <1>7, <1>8
<1>10. OK(f[n])
  <2>1. \A k \in 0..n : k \in B
    <3> HIDE DEF B
    <3> QED
      BY <1>5, <1>9, AllRounds
  <2>2. n \in B
    <3> HIDE DEF B
    <3> QED
      BY <1>5, <2>1
  <2> HIDE DEF OK
  <2> QED
    BY <2>2
<1>11. Fit(am', None, None) /\ am'.mapAddr = am.mapAddr
  BY <1>4, <1>6, <1>10
<1>12. TriedKept
  <2>1. Named(am)
    BY <1>1 DEF Fit
  <2> QED
    BY <1>11, <2>1 DEF TriedKept, Named, TriedIds
<1> QED
  BY <1>1, <1>11, <1>12 DEF TablesInv


-----------------------------------------------------------------------------
(* Addresses: peers.dat *)

\* The places of a finite set of ids in the order of its elements.
LEMMA IndexIs ==
  ASSUME NEW S, S \subseteq Nat, IsFiniteSet(S)
  PROVE  /\ Cardinality(S) \in Nat
         /\ \A i \in S : Index(S, i) \in 0..(Cardinality(S) - 1)
         /\ \A i, j \in S : Index(S, i) = Index(S, j) => i = j
         /\ \A n \in 0..(Cardinality(S) - 1) : \E i \in S : Index(S, i) = n
<1> DEFINE c == Cardinality(S)
           D(i) == {j \in S : j < i}
           f == [i \in S |-> Index(S, i)]
<1>1. c \in Nat
  BY FS_CardinalityType
<1>2. \A i : IsFiniteSet(D(i)) /\ Cardinality(D(i)) \in Nat /\ Index(S, i) = Cardinality(D(i))
  <2> TAKE i
  <2>1. D(i) \in SUBSET S
    OBVIOUS
  <2>2. Index(S, i) = Cardinality(D(i))
    BY Zenon DEF Index
  <2> HIDE DEF D
  <2> QED
    BY <2>1, <2>2, FS_Subset, FS_CardinalityType
<1> HIDE DEF c
<1>3. ASSUME NEW i \in S PROVE Index(S, i) \in 0..(c - 1)
  <2>1. i \notin D(i) /\ D(i) \in SUBSET S
    OBVIOUS
  <2> HIDE DEF D
  <2>2. Cardinality(D(i)) <= c /\ (c = Cardinality(D(i)) => S = D(i))
    BY <2>1, FS_Subset DEF c
  <2>3. Cardinality(D(i)) # c
    BY <2>1, <2>2
  <2> QED
    BY <1>1, <1>2, <2>2, <2>3
<1>4. ASSUME NEW i \in S, NEW j \in S, i < j PROVE Index(S, i) < Index(S, j)
  <2>1. D(i) \cup {i} \in SUBSET D(j) /\ i \notin D(i)
    <3>1. i \in Nat /\ j \in Nat /\ \A k \in S : k \in Nat
      OBVIOUS
    <3>2. \A k \in S : k < i => k < j
      BY <1>4, <3>1
    <3>3. ~(i < i)
      BY <3>1
    <3> QED
      BY <1>4, <3>2, <3>3
  <2> HIDE DEF D
  <2>2. Cardinality(D(i) \cup {i}) = Cardinality(D(i)) + 1
    BY <1>2, <2>1, FS_AddElement
  <2>3. Cardinality(D(i) \cup {i}) <= Cardinality(D(j))
    BY <1>2, <2>1, FS_Subset
  <2> QED
    BY <1>2, <2>2, <2>3
<1>5. ASSUME NEW i \in S, NEW j \in S, Index(S, i) = Index(S, j) PROVE i = j
  <2>1. i < j \/ j < i \/ i = j
    OBVIOUS
  <2> DEFINE a == Index(S, i)
             d == Index(S, j)
  <2>3. a \in Nat /\ d \in Nat /\ a = d
    <3> HIDE DEF D
    <3> QED
      BY <1>2, <1>5
  <2>2. ~(Index(S, i) < Index(S, j)) /\ ~(Index(S, j) < Index(S, i))
    <3> HIDE DEF a, d
    <3>1. ~(a < d) /\ ~(d < a)
      BY <2>3
    <3> QED
      BY <3>1 DEF a, d
  <2> QED
    BY <1>4, <2>1, <2>2
<1>6. f \in Injection(S, 0..(c - 1))
  BY <1>3, <1>5 DEF Injection, IsInjective
<1>7. IsFiniteSet(0..(c - 1)) /\ Cardinality(0..(c - 1)) = c
  <2>1. IsFiniteSet(0..(c - 1)) /\ Cardinality(0..(c - 1)) = IF 0 > c - 1 THEN 0 ELSE (c - 1) - 0 + 1
    BY <1>1, FS_Interval
  <2> QED
    BY <1>1, <2>1
<1> HIDE DEF f
<1>8. f \in Surjection(S, 0..(c - 1))
  BY <1>6, <1>7, FS_Injection DEF c
<1>9. \A n \in 0..(c - 1) : \E i \in S : f[i] = n
  BY <1>8 DEF Surjection
<1>10. \A n \in 0..(c - 1) : \E i \in S : Index(S, i) = n
  BY <1>9 DEF f
<1> QED
  BY <1>1, <1>3, <1>5, <1>10 DEF c

\* InOrder lists each element once.
LEMMA InOrderIs ==
  ASSUME NEW S, S \subseteq Nat, IsFiniteSet(S)
  PROVE  /\ InOrder(S) \in Seq(S) /\ Len(InOrder(S)) = Cardinality(S)
         /\ \A n \in 1..Cardinality(S) : /\ InOrder(S)[n] \in S
                                         /\ Index(S, InOrder(S)[n]) = n - 1
         /\ \A i \in S : /\ Index(S, i) + 1 \in 1..Cardinality(S)
                         /\ InOrder(S)[Index(S, i) + 1] = i
<1> DEFINE c == Cardinality(S)
           e(n) == CHOOSE i \in S : Index(S, i) = n - 1
           v == InOrder(S)
<1>1. c \in Nat
  BY IndexIs
<1>2. ASSUME NEW n \in 1..c PROVE e(n) \in S /\ Index(S, e(n)) = n - 1
  <2>1. n - 1 \in 0..(c - 1)
    BY <1>1
  <2>2. \E i \in S : Index(S, i) = n - 1
    BY <2>1, IndexIs
  <2> QED
    BY <2>2
<1>3. v = [n \in 1..c |-> e(n)]
  BY Zenon DEF InOrder
<1> HIDE DEF c, e, v
<1>4. v \in [1..c -> S] /\ \A n \in 1..c : v[n] = e(n)
  BY <1>2, <1>3
<1>5. v \in Seq(S) /\ Len(v) = c
  BY <1>1, <1>4
<1>6. ASSUME NEW i \in S PROVE Index(S, i) + 1 \in 1..c /\ v[Index(S, i) + 1] = i
  <2>1. Index(S, i) \in 0..(c - 1)
    BY IndexIs DEF c
  <2>2. Index(S, i) + 1 \in 1..c /\ (Index(S, i) + 1) - 1 = Index(S, i)
    BY <1>1, <2>1
  <2> DEFINE n == Index(S, i) + 1
  <2>3. v[n] \in S /\ Index(S, v[n]) = Index(S, i)
    BY <1>2, <1>4, <2>2
  <2> HIDE DEF n
  <2>4. v[n] = i
    BY <2>3, IndexIs
  <2> QED
    BY <2>2, <2>4 DEF n
<1>7. \A n \in 1..c : v[n] \in S /\ Index(S, v[n]) = n - 1
  BY <1>2, <1>4
<1> QED
  BY <1>5, <1>6, <1>7 DEF c, v

\* Old(m, k) is the id of the entry that has id k after a restart.
Written(m) == InOrder(NewIds(m)) \o InOrder(TriedIds(m))
Old(m, k) == Written(m)[k + 1]

\* The ids of the new entries and of the tried ones.
LEMMA TwoTables ==
  ASSUME NEW m, Fit(m, None, None)
  PROVE  /\ NewIds(m) = Ids(m) \ TriedIds(m) /\ TriedIds(m) \subseteq Ids(m)
         /\ NewIds(m) \subseteq Nat /\ TriedIds(m) \subseteq Nat
         /\ IsFiniteSet(NewIds(m)) /\ IsFiniteSet(TriedIds(m))
         /\ Cardinality(NewIds(m)) = m.nNew /\ Cardinality(TriedIds(m)) = m.nTried
         /\ m.nNew \in Nat /\ m.nTried \in Nat
         /\ \A b \in NewBuckets : m.vvNew[b] \subseteq NewIds(m)
<1>1. Typed(m) /\ Counted(m) /\ Referenced(m, None, None) /\ None \notin Ids(m)
  BY IdsFinite DEF Fit
<1>2. NewIds(m) = Ids(m) \ TriedIds(m) /\ TriedIds(m) \subseteq Ids(m)
  <2>1. ASSUME NEW i \in Ids(m)
        PROVE  m.mapInfo[i].nRefCount # 0 <=> ~m.mapInfo[i].fInTried
    BY <1>1 DEF Referenced
  <2> QED
    BY <2>1 DEF NewIds, TriedIds
<1>3. NewIds(m) \subseteq Ids(m) /\ Ids(m) \subseteq Nat
  BY <1>1, <1>2, IdsFinite
<1>4. IsFiniteSet(NewIds(m)) /\ IsFiniteSet(TriedIds(m))
      /\ Cardinality(NewIds(m)) \in Nat /\ Cardinality(TriedIds(m)) \in Nat
  BY <1>1, <1>2, <1>3, IdsFinite
<1>5. Cardinality(NewIds(m)) = m.nNew /\ Cardinality(TriedIds(m)) = m.nTried
  BY <1>1, <1>2 DEF Counted
<1>6. ASSUME NEW b \in NewBuckets PROVE m.vvNew[b] \subseteq NewIds(m)
  <2>1. m.vvNew[b] \subseteq Ids(m)
    BY <1>1 DEF Typed
  <2>2. \A i \in m.vvNew[b] : i \notin TriedIds(m)
    BY <2>1, TablesApart DEF TriedIds
  <2> QED
    BY <1>2, <2>1, <2>2
<1> QED
  BY <1>2, <1>3, <1>4, <1>5, <1>6

\* What the file says: the entries are numbered again, the new ones first.
LEMMA FileIs ==
  ASSUME NEW m, Fit(m, None, None)
  PROVE  LET f == Serialize(m)
             L == m.nNew + m.nTried
         IN /\ f.nNew = m.nNew /\ Len(f.infos) = L
            /\ DOMAIN f.infos = 1..L
            /\ \A k \in 0..(L - 1) : /\ Old(m, k) \in Ids(m)
                                     /\ f.infos[k + 1] = Info(m.mapInfo[Old(m, k)])
                                     /\ k >= m.nNew <=> Old(m, k) \in TriedIds(m)
            /\ \A j, k \in 0..(L - 1) : Old(m, j) = Old(m, k) => j = k
            /\ \A i \in Ids(m) : \E k \in 0..(L - 1) : Old(m, k) = i
            /\ \A b \in NewBuckets : /\ f.vvNew[b] \subseteq 0..(m.nNew - 1)
                                     /\ \A k \in 0..(L - 1) : k \in f.vvNew[b] <=> Old(m, k) \in m.vvNew[b]
<1> DEFINE f == Serialize(m)
           L == m.nNew + m.nTried
           N == NewIds(m)
           T == TriedIds(m)
           x == InOrder(N)
           y == InOrder(T)
           w == Written(m)
           c == m.nNew
<1>1. /\ N = Ids(m) \ T /\ T \subseteq Ids(m) /\ N \subseteq Nat /\ T \subseteq Nat
      /\ IsFiniteSet(N) /\ IsFiniteSet(T) /\ Cardinality(N) = c /\ Cardinality(T) = m.nTried
      /\ c \in Nat /\ m.nTried \in Nat /\ L \in Nat
      /\ \A b \in NewBuckets : m.vvNew[b] \subseteq N
  BY TwoTables
<1> HIDE DEF N, T
<1>2. /\ x \in Seq(N) /\ Len(x) = c
      /\ \A n \in 1..c : x[n] \in N /\ Index(N, x[n]) = n - 1
      /\ \A i \in N : Index(N, i) + 1 \in 1..c /\ x[Index(N, i) + 1] = i
  <2> DEFINE d == Cardinality(N)
  <2>1. /\ x \in Seq(N) /\ Len(x) = d
        /\ \A n \in 1..d : x[n] \in N /\ Index(N, x[n]) = n - 1
        /\ \A i \in N : Index(N, i) + 1 \in 1..d /\ x[Index(N, i) + 1] = i
    <3>1. N \subseteq Nat /\ IsFiniteSet(N)
      BY <1>1
    <3> QED
      BY <3>1, InOrderIs
  <2>2. d = c
    BY <1>1
  <2> HIDE DEF d, x, c
  <2> QED
    BY <2>1, <2>2
<1>3. /\ y \in Seq(T) /\ Len(y) = m.nTried
      /\ \A n \in 1..m.nTried : y[n] \in T /\ Index(T, y[n]) = n - 1
      /\ \A i \in T : Index(T, i) + 1 \in 1..m.nTried /\ y[Index(T, i) + 1] = i
  <2> DEFINE d == Cardinality(T)
  <2>1. /\ y \in Seq(T) /\ Len(y) = d
        /\ \A n \in 1..d : y[n] \in T /\ Index(T, y[n]) = n - 1
        /\ \A i \in T : Index(T, i) + 1 \in 1..d /\ y[Index(T, i) + 1] = i
    <3>1. T \subseteq Nat /\ IsFiniteSet(T)
      BY <1>1
    <3> QED
      BY <3>1, InOrderIs
  <2>2. d = m.nTried
    BY <1>1
  <2> HIDE DEF d, y
  <2> QED
    BY <2>1, <2>2
<1>4. w = x \o y
  BY DEF Written, N, T
<1>5. f = [infos |-> [n \in 1..Len(w) |-> Info(m.mapInfo[w[n]])], nNew |-> c,
           vvNew |-> [b \in NewBuckets |-> {Index(N, i) : i \in m.vvNew[b]}]]
  BY Zenon DEF Serialize, Written, N
<1> HIDE DEF x, y, w, f
<1>6. /\ Len(w) = L
      /\ \A n \in 1..c : w[n] = x[n]
      /\ \A n \in 1..m.nTried : w[c + n] = y[n]
  <2> DEFINE d == m.nTried
  <2>1. c \in Nat /\ d \in Nat /\ x \in Seq(N) /\ y \in Seq(T) /\ Len(x) = c /\ Len(y) = d
    BY <1>1, <1>2, <1>3
  <2> HIDE DEF c, d
  <2>2. Len(x \o y) = c + d
    BY <2>1
  <2>3. \A n \in 1..c : (x \o y)[n] = x[n]
    BY <2>1
  <2>4. \A n \in 1..d : (x \o y)[c + n] = y[n]
    <3> TAKE n \in 1..d
    <3>1. c + n \in 1..(c + d) /\ c + n > c /\ (c + n) - c = n
      BY <2>1
    <3> QED
      BY <2>1, <3>1
  <2> QED
    BY <1>4, <2>2, <2>3, <2>4 DEF c, d
<1>7. /\ f.infos = [n \in 1..L |-> Info(m.mapInfo[w[n]])] /\ f.nNew = c
      /\ f.vvNew = [b \in NewBuckets |-> {Index(N, i) : i \in m.vvNew[b]}]
  BY <1>5, <1>6
<1>8. Len(f.infos) = L /\ DOMAIN f.infos = 1..L
      /\ \A k \in 0..(L - 1) : f.infos[k + 1] = Info(m.mapInfo[w[k + 1]])
  BY <1>1, <1>7
<1>9. ASSUME NEW k \in 0..(L - 1)
      PROVE  \/ k < c /\ w[k + 1] \in N /\ w[k + 1] = x[k + 1] /\ Index(N, w[k + 1]) = k
             \/ k >= c /\ w[k + 1] \in T /\ w[k + 1] = y[k - c + 1] /\ Index(T, w[k + 1]) = k - c
  <2>1. CASE k < c
    <3>1. k + 1 \in 1..c
      BY <1>1, <2>1
    <3>2. w[k + 1] = x[k + 1] /\ x[k + 1] \in N /\ Index(N, x[k + 1]) = (k + 1) - 1
      BY <1>2, <1>6, <3>1
    <3>3. (k + 1) - 1 = k
      OBVIOUS
    <3> QED
      BY <2>1, <3>2, <3>3
  <2>2. CASE k >= c
    <3> DEFINE n == k - c + 1
    <3>1. n \in 1..m.nTried /\ c + n = k + 1 /\ n - 1 = k - c
      BY <1>1, <2>2
    <3> HIDE DEF n
    <3>2. w[c + n] = y[n] /\ y[n] \in T /\ Index(T, y[n]) = n - 1
      BY <1>3, <1>6, <3>1
    <3> QED
      BY <2>2, <3>1, <3>2 DEF n
  <2> QED
    BY <1>1, <2>1, <2>2
<1>10. ASSUME NEW k \in 0..(L - 1) PROVE w[k + 1] \in Ids(m) /\ (k >= c <=> w[k + 1] \in T)
  <2> DEFINE id == w[k + 1]
  <2>1. k \in Nat /\ c \in Nat
    BY <1>1
  <2>2. (k < c /\ id \in N) \/ (k >= c /\ id \in T)
    BY <1>9
  <2>3. ~(k < c /\ k >= c)
    BY <2>1
  <2> HIDE DEF id
  <2> QED
    BY <1>1, <2>2, <2>3 DEF id
<1>11. ASSUME NEW j \in 0..(L - 1), NEW k \in 0..(L - 1), w[j + 1] = w[k + 1] PROVE j = k
  <2>1. j >= c <=> k >= c
    BY <1>10, <1>11
  <2>2. CASE j >= c
    <3>1. j - c = k - c
      BY <1>1, <1>9, <1>11, <2>1, <2>2
    <3> QED
      BY <1>1, <3>1
  <2>3. CASE ~(j >= c)
    BY <1>1, <1>9, <1>11, <2>1, <2>3
  <2> QED
    BY <2>2, <2>3
<1>12. ASSUME NEW i \in N PROVE Index(N, i) \in 0..(L - 1) /\ w[Index(N, i) + 1] = i
  <2>3. Index(N, i) + 1 \in 1..c
    BY <1>2
  <2>4. Cardinality(N) \in Nat /\ Index(N, i) \in 0..(Cardinality(N) - 1)
    BY <1>1, IndexIs
  <2>5. Index(N, i) \in Nat
    BY <2>4
  <2>1. Index(N, i) + 1 \in 1..c /\ Index(N, i) \in Nat
    BY <2>3, <2>5
  <2>2. Index(N, i) \in 0..(L - 1)
    BY <1>1, <2>1
  <2> QED
    BY <1>2, <1>6, <2>1, <2>2
<1>13. ASSUME NEW i \in Ids(m) PROVE \E k \in 0..(L - 1) : w[k + 1] = i
  <2>1. CASE i \in N
    BY <1>12, <2>1
  <2>2. CASE i \in T
    <3> DEFINE n == Index(T, i) + 1
    <3>1. n \in 1..m.nTried /\ y[n] = i
      BY <1>3, <2>2
    <3> HIDE DEF n
    <3>2. c + n - 1 \in 0..(L - 1) /\ (c + n - 1) + 1 = c + n
      BY <1>1, <3>1
    <3>3. w[(c + n - 1) + 1] = i
      BY <1>6, <3>1, <3>2
    <3> QED
      BY <3>2, <3>3
  <2> QED
    BY <1>1, <2>1, <2>2
<1>14. ASSUME NEW b \in NewBuckets
       PROVE  /\ f.vvNew[b] \subseteq 0..(c - 1)
              /\ \A k \in 0..(L - 1) : k \in f.vvNew[b] <=> w[k + 1] \in m.vvNew[b]
  <2> DEFINE B == m.vvNew[b]
  <2>1. f.vvNew[b] = {Index(N, i) : i \in B} /\ B \subseteq N
    BY <1>1, <1>7
  <2> HIDE DEF B
  <2>2. f.vvNew[b] \subseteq 0..(c - 1)
    <3>1. \A i \in N : Index(N, i) \in 0..(c - 1)
      BY <1>1, IndexIs
    <3> QED
      BY <2>1, <3>1
  <2>3. ASSUME NEW k \in 0..(L - 1), k \in f.vvNew[b] PROVE w[k + 1] \in B
    <3>1. PICK i \in B : k = Index(N, i)
      BY <2>1, <2>3
    <3>2. w[k + 1] = i
      BY <1>12, <2>1, <3>1
    <3> QED
      BY <3>2
  <2>4. ASSUME NEW k \in 0..(L - 1), w[k + 1] \in B PROVE k \in f.vvNew[b]
    <3>1. w[k + 1] \in N
      BY <2>1, <2>4
    <3>2. Index(N, w[k + 1]) = k
      BY <1>1, <1>9, <3>1
    <3> QED
      BY <2>1, <2>4, <3>2
  <2> QED
    BY <2>2, <2>3, <2>4 DEF B
<1> QED
  BY <1>7, <1>8, <1>10, <1>11, <1>13, <1>14 DEF Old, w, T, f

\* r is m after it was saved and loaded.
Restarted(m, r) ==
  /\ Shape(r)
  /\ r.mapInfo = [k \in 0..((m.nNew + m.nTried) - 1) |->
       [addr |-> m.mapInfo[Old(m, k)].addr, source |-> m.mapInfo[Old(m, k)].source,
        nLastSuccess |-> m.mapInfo[Old(m, k)].nLastSuccess,
        nRefCount |-> Cardinality(InNew(r, k)),
        fInTried |-> k >= m.nNew, nRandomPos |-> k + 1]]
  /\ r.mapAddr \in [DOMAIN m.mapAddr -> 0..((m.nNew + m.nTried) - 1)]
  /\ \A a \in DOMAIN m.mapAddr : Old(m, r.mapAddr[a]) = m.mapAddr[a]
  /\ r.vRandom = [n \in 1..(m.nNew + m.nTried) |-> n - 1]
  /\ r.vvTried = [b \in TriedBuckets |->
       InOrder({k \in 0..((m.nNew + m.nTried) - 1) :
                  k >= m.nNew /\ TriedBucket[m.mapInfo[Old(m, k)].addr] = b})]
  /\ r.vvNew \in [NewBuckets -> SUBSET (0..(m.nNew - 1))]
  /\ \A b \in NewBuckets : \A k \in 0..((m.nNew + m.nTried) - 1) : k \in r.vvNew[b] <=> Old(m, k) \in m.vvNew[b]
  /\ r.nTried = m.nTried /\ r.nNew = m.nNew /\ r.nIdCount = m.nNew + m.nTried

\* What a saved and loaded address manager is.
LEMMA RestartIs ==
  ASSUME NEW m, Fit(m, None, None)
  PROVE  Restarted(m, Unserialize(Serialize(m)))
<1> DEFINE f == Serialize(m)
           L == m.nNew + m.nTried
           D == 0..(L - 1)
           r == Unserialize(f)
           e(k) == m.mapInfo[Old(m, k)]
           S(b) == {k \in D : k >= m.nNew /\ TriedBucket[m.mapInfo[Old(m, k)].addr] = b}
           I(k) == [addr |-> f.infos[k + 1].addr, source |-> f.infos[k + 1].source,
                    nLastSuccess |-> f.infos[k + 1].nLastSuccess,
                    nRefCount |-> Cardinality({b \in NewBuckets : k \in f.vvNew[b]}),
                    fInTried |-> k >= f.nNew, nRandomPos |-> k + 1]
<1>1. /\ f.nNew = m.nNew /\ Len(f.infos) = L /\ DOMAIN f.infos = 1..L
      /\ \A k \in D : /\ Old(m, k) \in Ids(m) /\ f.infos[k + 1] = Info(e(k))
      /\ \A i \in Ids(m) : \E k \in D : Old(m, k) = i
      /\ \A b \in NewBuckets : f.vvNew[b] \subseteq 0..(m.nNew - 1)
      /\ \A b \in NewBuckets : \A k \in D : k \in f.vvNew[b] <=> Old(m, k) \in m.vvNew[b]
  BY Zenon, FileIs
<1>2. f.vvNew = [b \in NewBuckets |-> f.vvNew[b]]
  <2>1. f.vvNew = [b \in NewBuckets |-> {Index(NewIds(m), i) : i \in m.vvNew[b]}]
    BY Zenon DEF Serialize
  <2> HIDE DEF f
  <2> QED
    BY <2>1
<1>3. m.nNew \in Nat /\ m.nTried \in Nat /\ L \in Nat /\ L - m.nNew = m.nTried
  <2>1. m.nNew \in Nat /\ m.nTried \in Nat
    BY TwoTables
  <2> QED
    BY <2>1
<1> HIDE DEF f
<1>4. \A k \in D : /\ f.infos[k + 1].addr = e(k).addr /\ f.infos[k + 1].source = e(k).source
                   /\ f.infos[k + 1].nLastSuccess = e(k).nLastSuccess
  <2> TAKE k \in D
  <2>1. f.infos[k + 1] = Info(e(k))
    BY <1>1
  <2> HIDE DEF e, D, L
  <2> QED
    BY <2>1 DEF Info
<1>5. r = [mapInfo |-> [k \in D |-> I(k)],
           mapAddr |-> [a \in {x.addr : x \in ToSet(f.infos)} |->
                     CHOOSE k \in D : f.infos[k + 1].addr = a],
           vRandom |-> [n \in 1..L |-> n - 1],
           vvTried |-> [b \in TriedBuckets |->
              InOrder({k \in D : k >= f.nNew /\ TriedBucket[f.infos[k + 1].addr] = b})],
           vvNew |-> f.vvNew,
           nTried |-> L - f.nNew, nNew |-> f.nNew, nIdCount |-> L]
  <2>1. Len(f.infos) = L
    BY <1>1
  <2> HIDE DEF L
  <2> QED
    BY <2>1 DEF Unserialize, NewTable
<1> HIDE DEF r
<1>6. /\ Shape(r) /\ r.mapInfo = [k \in D |-> I(k)] /\ r.vRandom = [n \in 1..L |-> n - 1]
      /\ r.vvNew = f.vvNew /\ r.nNew = m.nNew /\ r.nIdCount = L /\ r.nTried = L - f.nNew
      /\ r.mapAddr = [a \in {x.addr : x \in ToSet(f.infos)} |->
                        CHOOSE k \in D : f.infos[k + 1].addr = a]
      /\ r.vvTried = [b \in TriedBuckets |->
              InOrder({k \in D : k >= f.nNew /\ TriedBucket[f.infos[k + 1].addr] = b})]
  <2>1. Shape(r)
    BY Zenon, <1>5 DEF Shape
  <2> HIDE DEF D, L, I
  <2> QED
    BY <1>1, <1>5, <2>1
<1>7. r.mapInfo = [k \in D |->
       [addr |-> e(k).addr, source |-> e(k).source, nLastSuccess |-> e(k).nLastSuccess,
        nRefCount |-> Cardinality(InNew(r, k)), fInTried |-> k >= m.nNew, nRandomPos |-> k + 1]]
  <2>1. \A k : InNew(r, k) = {b \in NewBuckets : k \in f.vvNew[b]}
    BY <1>6 DEF InNew
  <2>2. ASSUME NEW k \in D
        PROVE  I(k) = [addr |-> e(k).addr, source |-> e(k).source, nLastSuccess |-> e(k).nLastSuccess,
                       nRefCount |-> Cardinality(InNew(r, k)), fInTried |-> k >= m.nNew, nRandomPos |-> k + 1]
    BY <1>1, <1>4, <2>1
  <2> HIDE DEF D, I
  <2> QED
    BY <1>6, <2>2
<1>8. r.mapAddr \in [DOMAIN m.mapAddr -> D]
      /\ \A a \in DOMAIN m.mapAddr : Old(m, r.mapAddr[a]) = m.mapAddr[a]
  <2>1. Named(m) /\ \A a \in DOMAIN m.mapAddr : m.mapAddr[a] \in Ids(m)
    BY DEF Fit, Typed
  <2>2. \A k \in D : k + 1 \in 1..L
    BY <1>3
  <2>3. \A n \in 1..L : n - 1 \in D /\ (n - 1) + 1 = n
    BY <1>3
  <2>4. {x.addr : x \in ToSet(f.infos)} = {f.infos[n].addr : n \in 1..L}
    BY <1>1 DEF ToSet
  <2> HIDE DEF D, L
  <2>5. {f.infos[n].addr : n \in 1..L} \subseteq DOMAIN m.mapAddr
    <3>1. ASSUME NEW n \in 1..L PROVE f.infos[n].addr \in DOMAIN m.mapAddr
      <4> DEFINE k == n - 1
      <4>1. k \in D /\ k + 1 = n
        BY <2>3
      <4> HIDE DEF k
      <4>2. f.infos[k + 1].addr = e(k).addr /\ Old(m, k) \in Ids(m)
        BY <1>1, <1>4, <4>1
      <4> QED
        BY <2>1, <4>1, <4>2 DEF Named
    <3> QED
      BY <3>1
  <2>6. ASSUME NEW a \in DOMAIN m.mapAddr PROVE \E k \in D : f.infos[k + 1].addr = a
    <3>1. PICK k \in D : Old(m, k) = m.mapAddr[a]
      BY <1>1, <2>1
    <3>2. f.infos[k + 1].addr = a
      BY <1>4, <2>1, <3>1 DEF Named
    <3> QED
      BY <3>2
  <2>7. DOMAIN m.mapAddr \subseteq {f.infos[n].addr : n \in 1..L}
    BY <2>2, <2>6
  <2>8. {x.addr : x \in ToSet(f.infos)} = DOMAIN m.mapAddr
    BY <2>4, <2>5, <2>7
  <2>9. r.mapAddr = [a \in DOMAIN m.mapAddr |-> CHOOSE k \in D : f.infos[k + 1].addr = a]
    BY <1>6, <2>8
  <2>10. ASSUME NEW a \in DOMAIN m.mapAddr
         PROVE  r.mapAddr[a] \in D /\ f.infos[r.mapAddr[a] + 1].addr = a
    BY <2>6, <2>9
  <2>11. ASSUME NEW a \in DOMAIN m.mapAddr PROVE Old(m, r.mapAddr[a]) = m.mapAddr[a]
    <3> DEFINE k == r.mapAddr[a]
    <3>1. k \in D /\ f.infos[k + 1].addr = a
      BY <2>10
    <3> HIDE DEF k
    <3>2. e(k).addr = a /\ Old(m, k) \in Ids(m)
      BY <1>1, <1>4, <3>1
    <3>3. m.mapAddr[a] = Old(m, k)
      BY <2>1, <3>2 DEF Named
    <3> QED
      BY <3>3 DEF k
  <2> QED
    BY <2>9, <2>10, <2>11
<1>9. r.vvTried = [b \in TriedBuckets |-> InOrder(S(b))]
  <2>1. ASSUME NEW b \in TriedBuckets
        PROVE  {k \in D : k >= f.nNew /\ TriedBucket[f.infos[k + 1].addr] = b} = S(b)
    BY <1>1, <1>4
  <2> HIDE DEF S, D
  <2> QED
    BY <1>6, <2>1
<1>10. /\ r.vvNew \in [NewBuckets -> SUBSET (0..(m.nNew - 1))]
       /\ \A b \in NewBuckets : \A k \in D : k \in r.vvNew[b] <=> Old(m, k) \in m.vvNew[b]
  <2>1. f.vvNew \in [NewBuckets -> SUBSET (0..(m.nNew - 1))]
    BY <1>1, <1>2
  <2> QED
    BY <1>1, <1>6, <2>1
<1>11. r.nTried = m.nTried /\ r.nNew = m.nNew /\ r.nIdCount = L
  <2>1. r.nTried = L - f.nNew /\ f.nNew = m.nNew
    BY <1>1, <1>6
  <2> QED
    BY <1>3, <1>6, <2>1
<1>12. Shape(r) /\ r.vRandom = [n \in 1..L |-> n - 1]
  BY <1>6
<1>13. Restarted(m, r)
  BY <1>7, <1>8, <1>9, <1>10, <1>11, <1>12, Zenon DEF Restarted
<1> QED
  BY <1>13 DEF r, f

\* The indexes that are counted again agree with the file.
LEMMA RestartFit ==
  ASSUME NEW m, NEW r, Fit(m, None, None), Restarted(m, r)
  PROVE  /\ Fit(r, None, None)
         /\ DOMAIN r.mapAddr = DOMAIN m.mapAddr
         /\ \A a \in DOMAIN m.mapAddr : Where(r, a) = Where(m, a)
<1> DEFINE c == m.nNew
           L == m.nNew + m.nTried
           D == 0..(L - 1)
           o(k) == Old(m, k)
           e(k) == m.mapInfo[o(k)]
           S(b) == {k \in D : k >= c /\ TriedBucket[e(k).addr] = b}
<1>1. Typed(m) /\ Named(m) /\ Counted(m) /\ Referenced(m, None, None) /\ NewFits(m) /\ TriedFits(m)
      /\ None \notin Ids(m)
  BY IdsFinite DEF Fit
<1>2. c \in Nat /\ m.nTried \in Nat /\ L \in Nat /\ L - c = m.nTried
  <2>1. c \in Nat /\ m.nTried \in Nat
    BY TwoTables
  <2> QED
    BY <2>1
<1>3. /\ \A k \in D : o(k) \in Ids(m) /\ (k >= c <=> o(k) \in TriedIds(m))
      /\ \A j, k \in D : o(j) = o(k) => j = k
      /\ \A i \in Ids(m) : \E k \in D : o(k) = i
  BY Zenon, FileIs
<1>4. /\ Shape(r)
      /\ r.mapInfo = [k \in D |->
           [addr |-> e(k).addr, source |-> e(k).source, nLastSuccess |-> e(k).nLastSuccess,
            nRefCount |-> Cardinality(InNew(r, k)), fInTried |-> k >= c, nRandomPos |-> k + 1]]
      /\ r.mapAddr \in [DOMAIN m.mapAddr -> D]
      /\ \A a \in DOMAIN m.mapAddr : o(r.mapAddr[a]) = m.mapAddr[a]
      /\ r.vRandom = [n \in 1..L |-> n - 1]
      /\ r.vvTried = [b \in TriedBuckets |-> InOrder(S(b))]
      /\ r.vvNew \in [NewBuckets -> SUBSET (0..(c - 1))]
      /\ \A b \in NewBuckets : \A k \in D : k \in r.vvNew[b] <=> o(k) \in m.vvNew[b]
      /\ r.nTried = m.nTried /\ r.nNew = c /\ r.nIdCount = L
  BY Zenon DEF Restarted
<1>5. Ids(r) = D /\ IsFiniteSet(D) /\ D \subseteq Nat
  <2>1. IsFiniteSet(0..(L - 1))
    BY <1>2, FS_Interval
  <2>2. 0..(L - 1) \subseteq Nat
    BY <1>2
  <2> QED
    BY <1>4, <2>1, <2>2 DEF Ids
<1>6. ASSUME NEW k \in D
      PROVE  /\ r.mapInfo[k].addr = e(k).addr /\ r.mapInfo[k].source = e(k).source
             /\ r.mapInfo[k].nLastSuccess = e(k).nLastSuccess
             /\ r.mapInfo[k].nRefCount = Cardinality(InNew(r, k))
             /\ r.mapInfo[k].fInTried = (k >= c) /\ r.mapInfo[k].nRandomPos = k + 1
  <2> DEFINE q == r.mapInfo[k]
  <2>1. q = [addr |-> e(k).addr, source |-> e(k).source, nLastSuccess |-> e(k).nLastSuccess,
             nRefCount |-> Cardinality(InNew(r, k)), fInTried |-> k >= c, nRandomPos |-> k + 1]
    <3> HIDE DEF D, e, c
    <3> QED
      BY <1>4
  <2> DEFINE z == k >= c
             n == Cardinality(InNew(r, k))
  <2>2. q = [addr |-> e(k).addr, source |-> e(k).source, nLastSuccess |-> e(k).nLastSuccess,
             nRefCount |-> n, fInTried |-> z, nRandomPos |-> k + 1]
    <3> HIDE DEF q, D, e, c
    <3> QED
      BY <2>1
  <2> HIDE DEF q, D, e, z, n
  <2>3. /\ q.addr = e(k).addr /\ q.source = e(k).source /\ q.nLastSuccess = e(k).nLastSuccess
        /\ q.nRefCount = n /\ q.fInTried = z /\ q.nRandomPos = k + 1
    BY <2>2
  <2> QED
    BY <2>3 DEF q, z, n
<1>7. ASSUME NEW k \in D PROVE e(k) \in Entry /\ (e(k).fInTried <=> k >= c)
  <2>1. o(k) \in Ids(m) /\ (k >= c <=> o(k) \in TriedIds(m))
    BY <1>3
  <2> HIDE DEF o, c, D
  <2> QED
    BY <1>1, <2>1 DEF Typed, TriedIds
<1>8. ASSUME NEW k \in D PROVE InNew(r, k) = InNew(m, o(k))
  <2> HIDE DEF o, D
  <2> QED
    BY <1>4 DEF InNew
<1>9. ASSUME NEW k \in D PROVE r.mapInfo[k].nRefCount = e(k).nRefCount
  <2>1. o(k) \in Ids(m) /\ o(k) # None
    BY <1>1, <1>3
  <2>2. e(k).nRefCount = Cardinality(InNew(m, o(k))) + 0
    <3> HIDE DEF o
    <3> QED
      BY <1>1, <2>1 DEF Referenced
  <2>3. Cardinality(InNew(m, o(k))) \in Nat
    BY InNewFinite
  <2> QED
    BY <1>6, <1>8, <2>2, <2>3
<1> HIDE DEF o
<1>10. ASSUME NEW b PROVE S(b) \subseteq Nat /\ IsFiniteSet(S(b)) /\ S(b) \subseteq D
  <2>1. S(b) \in SUBSET D
    OBVIOUS
  <2> HIDE DEF S, D
  <2> QED
    BY <1>5, <2>1, FS_Subset, Zenon
<1>11. ASSUME NEW b
       PROVE  LET v == InOrder(S(b)) IN
              /\ v \in Seq(D) /\ Len(v) = Cardinality(S(b)) /\ Len(v) \in Nat
              /\ \A n \in 1..Len(v) : v[n] \in S(b) /\ Index(S(b), v[n]) = n - 1
              /\ \A k \in S(b) : Index(S(b), k) + 1 \in 1..Len(v) /\ v[Index(S(b), k) + 1] = k
  <2> DEFINE B == S(b)
             v == InOrder(B)
  <2>1. B \subseteq Nat /\ IsFiniteSet(B) /\ B \subseteq D
    BY <1>10
  <2> HIDE DEF B, D
  <2>2. /\ v \in Seq(B) /\ Len(v) = Cardinality(B)
        /\ \A n \in 1..Cardinality(B) : v[n] \in B /\ Index(B, v[n]) = n - 1
        /\ \A k \in B : Index(B, k) + 1 \in 1..Cardinality(B) /\ v[Index(B, k) + 1] = k
    BY <2>1, InOrderIs
  <2> HIDE DEF v
  <2>3. v \in Seq(D) /\ Len(v) \in Nat
    <3>1. v \in Seq(B)
      BY <2>2
    <3>2. v \in [1..Len(v) -> B] /\ Len(v) \in Nat
      BY <3>1
    <3>3. v \in [1..Len(v) -> D]
      BY <2>1, <3>2
    <3> QED
      BY <3>2, <3>3
  <2>4. /\ v \in Seq(D) /\ Len(v) = Cardinality(B) /\ Len(v) \in Nat
        /\ \A n \in 1..Len(v) : v[n] \in B /\ Index(B, v[n]) = n - 1
        /\ \A k \in B : Index(B, k) + 1 \in 1..Len(v) /\ v[Index(B, k) + 1] = k
    BY <2>2, <2>3
  <2> QED
    BY <2>4, Zenon DEF B, v
<1>12. Typed(r)
  <2>1. r.mapInfo \in [Ids(r) -> Entry]
    <3>1. ASSUME NEW k \in D PROVE r.mapInfo[k] \in Entry
      <4>1. Cardinality(InNew(r, k)) \in Nat /\ k + 1 \in Nat /\ (k >= c) \in BOOLEAN
        BY <1>5, InNewFinite
      <4>2. e(k).addr \in Address /\ e(k).source \in Source /\ e(k).nLastSuccess \in Nat
        BY <1>7 DEF Entry
      <4>3. r.mapInfo[k] =
              [addr |-> e(k).addr, source |-> e(k).source, nLastSuccess |-> e(k).nLastSuccess,
               nRefCount |-> Cardinality(InNew(r, k)), fInTried |-> k >= c, nRandomPos |-> k + 1]
        <5> HIDE DEF D, e, c
        <5> QED
          BY <1>4
      <4> DEFINE z == k >= c
                 n == Cardinality(InNew(r, k))
      <4>4. z \in BOOLEAN /\ n \in Nat
        BY <4>1
      <4>5. r.mapInfo[k] =
              [addr |-> e(k).addr, source |-> e(k).source, nLastSuccess |-> e(k).nLastSuccess,
               nRefCount |-> n, fInTried |-> z, nRandomPos |-> k + 1]
        <5> HIDE DEF D, e, c
        <5> QED
          BY <4>3
      <4> HIDE DEF e, c, D, z, n
      <4> QED
        BY <4>1, <4>2, <4>4, <4>5 DEF Entry
    <3> HIDE DEF D, e, c
    <3>2. r.mapInfo \in [D -> Entry]
      BY <1>4, <3>1
    <3> QED
      BY <1>5, <3>2
  <2>2. r.nIdCount \in Nat /\ Ids(r) \subseteq 0..(r.nIdCount - 1)
    BY <1>2, <1>4, <1>5
  <2>3. r.mapAddr \in [DOMAIN r.mapAddr -> Ids(r)]
    <3> HIDE DEF D
    <3> QED
      BY <1>4, <1>5
  <2>4. r.vRandom \in Seq(Ids(r))
    <3>1. \A n \in 1..L : n - 1 \in D
      BY <1>2
    <3> HIDE DEF D, L
    <3>2. r.vRandom \in [1..L -> D]
      BY <1>4, <3>1
    <3> QED
      BY <1>2, <1>5, <3>2
  <2>5. r.vvTried \in [TriedBuckets -> Seq(Ids(r))]
    <3>1. \A b \in TriedBuckets : InOrder(S(b)) \in Seq(D)
      BY <1>11
    <3> HIDE DEF S, D
    <3> QED
      BY <1>4, <1>5, <3>1
  <2>6. r.vvNew \in [NewBuckets -> SUBSET Ids(r)]
    <3>1. 0..(c - 1) \subseteq D
      BY <1>2
    <3>2. \A b \in NewBuckets : r.vvNew[b] \in SUBSET D
      BY <1>4, <3>1
    <3> HIDE DEF D
    <3> QED
      BY <1>4, <1>5, <3>2
  <2>7. r.nTried \in Int /\ r.nNew \in Int
    BY <1>2, <1>4
  <2> QED
    BY <1>4, <2>1, <2>2, <2>3, <2>4, <2>5, <2>6, <2>7 DEF Typed
<1>13. Named(r)
  <2>1. ASSUME NEW k \in D
        PROVE  r.mapInfo[k].addr \in DOMAIN r.mapAddr /\ r.mapAddr[r.mapInfo[k].addr] = k
    <3> DEFINE a == e(k).addr
    <3>1. r.mapInfo[k].addr = a /\ o(k) \in Ids(m)
      BY <1>3, <1>6
    <3>2. a \in DOMAIN m.mapAddr /\ m.mapAddr[a] = o(k)
      BY <1>1, <3>1 DEF Named
    <3> HIDE DEF a, D
    <3>3. r.mapAddr[a] \in D /\ o(r.mapAddr[a]) = o(k)
      BY <1>4, <3>2
    <3>4. r.mapAddr[a] = k
      BY <1>3, <3>3
    <3> QED
      BY <1>4, <3>1, <3>2, <3>4
  <2>2. ASSUME NEW a \in DOMAIN r.mapAddr PROVE r.mapInfo[r.mapAddr[a]].addr = a
    <3> DEFINE k == r.mapAddr[a]
    <3>1. a \in DOMAIN m.mapAddr
      BY <1>4
    <3>2. k \in D /\ o(k) = m.mapAddr[a]
      BY <1>4, <3>1
    <3> HIDE DEF k, D
    <3>3. r.mapInfo[k].addr = m.mapInfo[m.mapAddr[a]].addr
      BY <1>6, <3>2
    <3>4. m.mapInfo[m.mapAddr[a]].addr = a
      BY <1>1, <3>1 DEF Named
    <3> QED
      BY <3>3, <3>4 DEF k
  <2> HIDE DEF D
  <2> QED
    BY <1>5, <2>1, <2>2 DEF Named
<1>14. Ordered(r)
  <2>1. \A n \in 1..L : r.vRandom[n] = n - 1 /\ n - 1 \in D /\ (n - 1) + 1 = n
    BY <1>2, <1>4
  <2>2. Len(r.vRandom) = L
    BY <1>2, <1>4
  <2>3. \A k \in D : k + 1 \in 1..L /\ (k + 1) - 1 = k
    BY <1>2
  <2> HIDE DEF D, L
  <2>4. \A k \in D : r.mapInfo[k].nRandomPos = k + 1
    BY <1>6
  <2>5. \A k \in D : r.mapInfo[k].nRandomPos \in 1..L /\ r.vRandom[r.mapInfo[k].nRandomPos] = k
    BY <2>1, <2>3, <2>4
  <2>6. \A n \in 1..L : r.mapInfo[r.vRandom[n]].nRandomPos = n
    <3> TAKE n \in 1..L
    <3>1. r.vRandom[n] = n - 1 /\ n - 1 \in D /\ (n - 1) + 1 = n
      BY <2>1
    <3> QED
      BY <2>4, <3>1
  <2> QED
    BY <1>5, <2>2, <2>5, <2>6 DEF Ordered
<1>15. TriedIds(r) = c..(L - 1) /\ Ids(r) \ TriedIds(r) = 0..(c - 1)
  <2>1. \A k \in D : r.mapInfo[k].fInTried <=> k >= c
    BY <1>6
  <2>2. TriedIds(r) = {k \in D : k >= c}
    <3> HIDE DEF D, c
    <3> QED
      BY <1>5, <2>1 DEF TriedIds
  <2> QED
    BY <1>2, <1>5, <2>2
<1>16. Counted(r)
  <2>1. Cardinality(c..(L - 1)) = m.nTried
    <3> DEFINE d == L - 1
    <3>2. c \in Int /\ d \in Int
      BY <1>2
    <3> HIDE DEF d
    <3>3. Cardinality(c..d) = IF c > d THEN 0 ELSE d - c + 1
      BY <3>2, FS_Interval
    <3>1. Cardinality(c..(L - 1)) = IF c > L - 1 THEN 0 ELSE (L - 1) - c + 1
      BY <3>3 DEF d
    <3> QED
      BY <1>2, <3>1
  <2>2. Cardinality(0..(c - 1)) = c
    <3> DEFINE d == c - 1
    <3>2. 0 \in Int /\ d \in Int
      BY <1>2
    <3> HIDE DEF d
    <3>3. Cardinality(0..d) = IF 0 > d THEN 0 ELSE d - 0 + 1
      BY <3>2, FS_Interval
    <3>1. Cardinality(0..(c - 1)) = IF 0 > c - 1 THEN 0 ELSE (c - 1) - 0 + 1
      BY <3>3 DEF d
    <3> QED
      BY <1>2, <3>1
  <2>3. Len(r.vRandom) = r.nTried + r.nNew
    <3>1. Len(r.vRandom) = L
      BY <1>2, <1>4
    <3>2. r.nTried = m.nTried /\ r.nNew = c
      BY <1>4
    <3> QED
      BY <1>2, <3>1, <3>2
  <2> HIDE DEF L
  <2> QED
    BY <1>4, <1>15, <2>1, <2>2, <2>3 DEF Counted
<1>17. Referenced(r, None, None)
  <2>1. ASSUME NEW k \in Ids(r)
        PROVE  /\ r.mapInfo[k].nRefCount = Cardinality(InNew(r, k)) + (IF k = None THEN 1 ELSE 0)
               /\ r.mapInfo[k].nRefCount <= ADDRMAN_NEW_BUCKETS_PER_ADDRESS
               /\ IF r.mapInfo[k].fInTried
                  THEN r.mapInfo[k].nRefCount = 0 /\ r.mapInfo[k].nLastSuccess # 0
                  ELSE k # None => r.mapInfo[k].nRefCount # 0
    <3>1. k \in D /\ k # None /\ o(k) \in Ids(m) /\ o(k) # None
      BY <1>1, <1>3, <1>5 DEF None
    <3>2. r.mapInfo[k].nRefCount = e(k).nRefCount /\ r.mapInfo[k].nLastSuccess = e(k).nLastSuccess
          /\ (r.mapInfo[k].fInTried <=> e(k).fInTried)
      BY <1>6, <1>7, <1>9, <3>1
    <3>3. /\ e(k).nRefCount <= ADDRMAN_NEW_BUCKETS_PER_ADDRESS
          /\ IF e(k).fInTried THEN e(k).nRefCount = 0 /\ e(k).nLastSuccess # 0
             ELSE e(k).nRefCount # 0
      BY <1>1, <3>1 DEF Referenced
    <3>4. r.mapInfo[k].nRefCount = Cardinality(InNew(r, k)) /\ Cardinality(InNew(r, k)) \in Nat
      BY <1>6, <3>1, InNewFinite
    <3> HIDE DEF e
    <3> QED
      BY <3>1, <3>2, <3>3, <3>4
  <2> QED
    BY <2>1 DEF Referenced
<1>18. NewFits(r)
  <2> SUFFICES ASSUME NEW b \in NewBuckets
               PROVE  Cardinality(r.vvNew[b]) <= ADDRMAN_NEW_BUCKET_SIZE
    BY DEF NewFits
  <2> DEFINE A == r.vvNew[b]
             B == m.vvNew[b]
             g == [k \in A |-> o(k)]
  <2>1. A \subseteq D
    BY <1>2, <1>4
  <2>2. B \subseteq Ids(m) /\ Cardinality(B) <= ADDRMAN_NEW_BUCKET_SIZE
    BY <1>1 DEF Typed, NewFits
  <2>3. \A k \in A : o(k) \in B
    <3> HIDE DEF D
    <3> QED
      BY <1>4, <2>1
  <2>4. \A j, k \in A : o(j) = o(k) => j = k
    <3> HIDE DEF D, A
    <3> QED
      BY <1>3, <2>1
  <2>5. IsFiniteSet(A) /\ IsFiniteSet(B) /\ Cardinality(A) \in Nat /\ Cardinality(B) \in Nat
    <3>1. IsFiniteSet(B) /\ Cardinality(B) \in Nat
      BY <1>1, <2>2, IdsFinite
    <3>2. A \in SUBSET D
      BY <2>1
    <3> HIDE DEF A, B, D
    <3> QED
      BY <1>5, <3>1, <3>2, FS_Subset, FS_CardinalityType
  <2> HIDE DEF A, B
  <2>6. g \in Injection(A, B)
    BY <2>3, <2>4 DEF Injection, IsInjective
  <2> HIDE DEF g
  <2>7. Cardinality(A) <= Cardinality(B)
    BY <2>5, <2>6, FS_Injection
  <2>8. ADDRMAN_NEW_BUCKET_SIZE \in Nat
    BY AddrManAssumption
  <2> QED
    BY <2>2, <2>5, <2>7, <2>8 DEF A, B
<1>19. ASSUME NEW b \in TriedBuckets PROVE Cardinality(S(b)) <= ADDRMAN_TRIED_BUCKET_SIZE
  <2> DEFINE A == S(b)
             u == m.vvTried[b]
             g == [k \in A |-> CHOOSE n \in 1..Len(u) : u[n] = o(k)]
  <2>1. u \in Seq(Ids(m)) /\ Len(u) <= ADDRMAN_TRIED_BUCKET_SIZE
    BY <1>1 DEF Typed, TriedFits
  <2>2. ASSUME NEW k \in A PROVE \E n \in 1..Len(u) : u[n] = o(k)
    <3>1. o(k) \in Ids(m) /\ e(k).fInTried /\ TriedBucket[e(k).addr] = b
      BY <1>3, <1>7
    <3> QED
      BY <1>1, <3>1 DEF TriedFits
  <2>3. \A j, k \in A : o(j) = o(k) => j = k
    BY <1>3
  <2>4. IsFiniteSet(A) /\ Cardinality(A) \in Nat
    <3>1. IsFiniteSet(A)
      BY <1>10
    <3> HIDE DEF A
    <3> QED
      BY <3>1, FS_CardinalityType
  <2> HIDE DEF A, u
  <2>5. \A k \in A : g[k] \in 1..Len(u) /\ u[g[k]] = o(k)
    BY <2>2
  <2>6. g \in [A -> 1..Len(u)]
    BY <2>2
  <2> HIDE DEF g
  <2>7. g \in Injection(A, 1..Len(u))
    <3>1. \A j, k \in A : g[j] = g[k] => j = k
      BY <2>3, <2>5
    <3> QED
      BY <2>6, <3>1 DEF Injection, IsInjective
  <2>8. Len(u) \in Nat
    BY <2>1
  <2>9. IsFiniteSet(1..Len(u)) /\ Cardinality(1..Len(u)) = Len(u)
    <3>1. IsFiniteSet(1..Len(u)) /\ Cardinality(1..Len(u)) = IF 1 > Len(u) THEN 0 ELSE Len(u) - 1 + 1
      BY <2>8, FS_Interval
    <3> QED
      BY <2>8, <3>1
  <2>10. Cardinality(A) <= Len(u)
    BY <2>7, <2>9, FS_Injection
  <2>11. ADDRMAN_TRIED_BUCKET_SIZE \in Nat
    BY AddrManAssumption
  <2> QED
    BY <2>1, <2>4, <2>8, <2>10, <2>11 DEF A

<1>20. TriedFits(r)
  <2>1. ASSUME NEW b \in TriedBuckets
        PROVE  /\ Len(r.vvTried[b]) <= ADDRMAN_TRIED_BUCKET_SIZE
               /\ \A n \in 1..Len(r.vvTried[b]) :
                    /\ r.mapInfo[r.vvTried[b][n]].fInTried
                    /\ TriedBucket[r.mapInfo[r.vvTried[b][n]].addr] = b
               /\ \A n, k \in 1..Len(r.vvTried[b]) : r.vvTried[b][n] = r.vvTried[b][k] => n = k
    <3> DEFINE v == r.vvTried[b]
               B == S(b)
    <3>1. v = InOrder(B)
      <4> HIDE DEF B
      <4>1. r.vvTried = [x \in TriedBuckets |-> InOrder(S(x))]
        BY <1>4, Zenon
      <4> QED
        BY <4>1 DEF B
    <3>2. Len(v) = Cardinality(B) /\ Len(v) \in Nat
          /\ \A n \in 1..Len(v) : v[n] \in B /\ Index(B, v[n]) = n - 1
      <4> DEFINE y == InOrder(B)
      <4> HIDE DEF v, S, D, e
      <4>1. Len(y) = Cardinality(B) /\ Len(y) \in Nat
            /\ \A n \in 1..Len(y) : y[n] \in B /\ Index(B, y[n]) = n - 1
        BY <1>11, Zenon
      <4> HIDE DEF y, B
      <4>2. v = y
        BY <3>1, Zenon DEF y
      <4> QED
        BY <4>1, <4>2, Zenon
    <3>3. Len(v) <= ADDRMAN_TRIED_BUCKET_SIZE
      BY <1>19, <3>2
    <3>4. ASSUME NEW n \in 1..Len(v) PROVE r.mapInfo[v[n]].fInTried /\ TriedBucket[r.mapInfo[v[n]].addr] = b
      <4> DEFINE k == v[n]
      <4>1. k \in B
        BY <3>2
      <4> HIDE DEF k
      <4>2. k \in D /\ k >= c /\ TriedBucket[e(k).addr] = b
        BY <4>1
      <4>3. r.mapInfo[k].fInTried /\ TriedBucket[r.mapInfo[k].addr] = b
        <5> HIDE DEF e, D, c
        <5> QED
          BY <1>6, <4>2
      <4> QED
        BY <4>3 DEF k
    <3>5. ASSUME NEW n \in 1..Len(v), NEW k \in 1..Len(v), v[n] = v[k] PROVE n = k
      <4> HIDE DEF v, B
      <4>1. n - 1 = k - 1 /\ n \in Nat /\ k \in Nat
        BY <3>2, <3>5
      <4> QED
        BY <4>1
    <3> HIDE DEF B
    <3> QED
      BY <3>3, <3>4, <3>5 DEF v
  <2>2. ASSUME NEW i \in Ids(r), r.mapInfo[i].fInTried
        PROVE  LET b == TriedBucket[r.mapInfo[i].addr] IN
               \E n \in 1..Len(r.vvTried[b]) : r.vvTried[b][n] = i
    <3> DEFINE b == TriedBucket[r.mapInfo[i].addr]
    <3>1. i \in D /\ i >= c /\ r.mapInfo[i].addr = e(i).addr
      BY <1>5, <1>6, <2>2
    <3>2. e(i).addr \in Address
      BY <1>7, <3>1 DEF Entry
    <3>3. b \in TriedBuckets
      <4> HIDE DEF e
      <4> QED
        BY <3>1, <3>2 DEF TriedBuckets
    <3>4. i \in S(b)
      BY <3>1
    <3> HIDE DEF b, D
    <3>5. r.vvTried[b] = InOrder(S(b))
      <4> HIDE DEF S
      <4> QED
        BY <1>4, <3>3
    <3> DEFINE v == r.vvTried[b]
               n == Index(S(b), i) + 1
    <3>6. n \in 1..Len(v) /\ v[n] = i
      <4> HIDE DEF S
      <4> QED
        BY <1>11, <3>4, <3>5
    <3> HIDE DEF n
    <3> QED
      BY <3>6 DEF b
  <2> QED
    BY <2>1, <2>2 DEF TriedFits
<1>21. Fit(r, None, None)
  BY <1>12, <1>13, <1>14, <1>16, <1>17, <1>18, <1>20 DEF Fit
<1>22. DOMAIN r.mapAddr = DOMAIN m.mapAddr
  BY <1>4
<1>23. ASSUME NEW a \in DOMAIN m.mapAddr PROVE Where(r, a) = Where(m, a)
  <2> DEFINE k == r.mapAddr[a]
             i == m.mapAddr[a]
  <2>1. k \in D /\ o(k) = i /\ i \in Ids(m)
    <3>1. k \in D /\ o(k) = i
      <4> HIDE DEF D
      <4> QED
        BY <1>4
    <3> QED
      BY <1>1, <3>1 DEF Typed
  <2> HIDE DEF k, i, D
  <2>2. r.mapInfo[k].nLastSuccess = m.mapInfo[i].nLastSuccess
    BY <1>6, <2>1
  <2>3. r.mapInfo[k].fInTried = m.mapInfo[i].fInTried
    <3>1. r.mapInfo[k].fInTried = (k >= c) /\ (m.mapInfo[i].fInTried <=> k >= c)
      BY <1>6, <1>7, <2>1
    <3>2. m.mapInfo[i] \in Entry
      BY <1>1, <2>1 DEF Typed
    <3>3. m.mapInfo[i].fInTried \in BOOLEAN
      BY <3>2 DEF Entry
    <3> DEFINE p == m.mapInfo[i].fInTried
               q == k >= c
    <3>4. (p <=> q) /\ p \in BOOLEAN /\ q \in BOOLEAN
      BY <3>1, <3>3
    <3>5. p = q
      <4> HIDE DEF p, q
      <4> QED
        BY <3>4
    <3> QED
      BY <3>1, <3>5
  <2>4. {b \in NewBuckets : k \in r.vvNew[b]} = {b \in NewBuckets : i \in m.vvNew[b]}
    BY <1>4, <2>1
  <2>5. Where(r, a) = [tried |-> r.mapInfo[k].fInTried, last |-> r.mapInfo[k].nLastSuccess,
                       new |-> {b \in NewBuckets : k \in r.vvNew[b]}]
    BY DEF Where, k
  <2>6. Where(m, a) = [tried |-> m.mapInfo[i].fInTried, last |-> m.mapInfo[i].nLastSuccess,
                       new |-> {b \in NewBuckets : i \in m.vvNew[b]}]
    BY DEF Where, i
  <2> QED
    BY <2>2, <2>3, <2>4, <2>5, <2>6
<1> QED
  BY <1>21, <1>22, <1>23

\* A restart keeps the tables.
LEMMA RestartStep ==
  ASSUME TablesInv, Restart
  PROVE  /\ TablesInv' /\ TriedKept
         /\ DOMAIN am'.mapAddr = DOMAIN am.mapAddr
         /\ \A a \in DOMAIN am.mapAddr : Where(am', a) = Where(am, a)
<1> DEFINE r == Unserialize(Serialize(am))
<1>1. Fit(am, None, None) /\ nGood \in Nat
  BY DEF TablesInv
<1>2. am' = r /\ nGood' = nGood
  BY DEF Restart
<1>3. Restarted(am, r)
  BY <1>1, RestartIs
<1> HIDE DEF r
<1>4. /\ Fit(r, None, None)
      /\ DOMAIN r.mapAddr = DOMAIN am.mapAddr
      /\ \A a \in DOMAIN am.mapAddr : Where(r, a) = Where(am, a)
  BY <1>1, <1>3, RestartFit
<1>5. TablesInv'
  BY <1>1, <1>2, <1>4 DEF TablesInv
<1>6. TriedKept
  <2>1. Named(am)
    BY <1>1 DEF Fit
  <2> QED
    BY <1>2, <1>4, <2>1 DEF TriedKept, Named, TriedIds
<1> QED
  BY <1>2, <1>4, <1>5, <1>6

-----------------------------------------------------------------------------
(* Addresses: The theorems *)

\* Every step keeps the invariant, and forgets no tried address.
LEMMA NextFit == TablesInv /\ [AddrManNext]_addrManVars => TablesInv' /\ (am' = am \/ TriedKept)
<1> SUFFICES ASSUME TablesInv, [AddrManNext]_addrManVars PROVE TablesInv' /\ (am' = am \/ TriedKept)
  OBVIOUS
<1>1. ASSUME NEW a \in Address, NEW s \in Source, Add(a, s) PROVE TablesInv' /\ TriedKept
  BY <1>1, AddFit
<1>2. ASSUME NEW a \in Address, Good(a) PROVE TablesInv' /\ TriedKept
  BY <1>2, GoodFit
<1>3. CASE GetAddr
  BY <1>3, GetAddrFit
<1>4. CASE Restart
  BY <1>4, RestartStep
<1>5. CASE UNCHANGED addrManVars
  BY <1>5 DEF addrManVars, TablesInv
<1> QED
  BY <1>1, <1>2, <1>3, <1>4, <1>5 DEF AddrManNext

\* A step that changes nothing forgets nothing either.
LEMMA KeptWhere == TablesInv /\ [AddrManNext]_addrManVars => TriedKept
<1> SUFFICES ASSUME TablesInv, [AddrManNext]_addrManVars PROVE TriedKept
  OBVIOUS
<1>1. CASE am' = am
  <2>1. Named(am)
    BY DEF TablesInv, Fit
  <2> QED
    BY <1>1, <2>1 DEF TriedKept, Named, TriedIds
<1> QED
  BY <1>1, NextFit

\* In every reachable state the two tables, the counters, the entries, mapAddr and
\* vRandom agree and no bucket is overfull: the full invariant of Check_().
THEOREM TablesFit == AddrManSpec => []TablesInv
<1>1. AddrManInit => TablesInv
  BY InitFit
<1>2. TablesInv /\ [AddrManNext]_addrManVars => TablesInv'
  BY NextFit
<1> QED
  BY <1>1, <1>2, PTL DEF AddrManSpec

\* Whatever addresses are heard, tried, evicted, given away and reloaded, Check_()
\* finds nothing wrong.
THEOREM AlwaysConsistent == AddrManSpec => []Consistent
<1>1. TablesInv => Consistent
  BY FitImplies DEF TablesInv
<1> QED
  BY <1>1, TablesFit, PTL

\* No step forgets an address that was tried: Good_ and MakeTried only move it.
THEOREM TriedStays == AddrManSpec => TriedNeverForgotten
<1>1. TablesInv /\ [AddrManNext]_addrManVars => [\A i \in TriedIds(am) : am.mapInfo[i].addr \in DOMAIN am'.mapAddr]_addrManVars
  BY KeptWhere DEF TriedKept
<1> QED
  BY <1>1, TablesFit, PTL DEF AddrManSpec, TriedNeverForgotten

\* A save and a load of peers.dat keep every address, its table and its buckets.
THEOREM RestartSafe == AddrManSpec => RestartKeepsTables
<1>1. TablesInv /\ [AddrManNext]_addrManVars =>
        [Restart => /\ DOMAIN am'.mapAddr = DOMAIN am.mapAddr
                    /\ \A a \in DOMAIN am.mapAddr : Where(am', a) = Where(am, a)]_addrManVars
  BY RestartStep
<1> QED
  BY <1>1, TablesFit, PTL DEF AddrManSpec, RestartKeepsTables

=============================================================================
