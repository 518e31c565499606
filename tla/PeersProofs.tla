---------------------------- MODULE PeersProofs -----------------------------
(***************************************************************************)
(* While every address is tried by one thread alone, the reference counts  *)
(* protect every node: the socket thread, the message thread and an opener *)
(* that has not marked its node yet never hold a deleted one.  The         *)
(* condition is needed: ConnectNode takes its reference without a lock,    *)
(* and two threads on one address may lose a count.  The outbound slots    *)
(* are counted without that condition.                                     *)
(***************************************************************************)
EXTENDS Peers, FiniteSetTheorems, TLAPS

One(b) == IF b THEN 1 ELSE 0

Making == {"push", "grant", "move", "flag"}

\* The maker's reference: while the node is in vNodes, or its opener has not
\* marked it.
Base(p) == p \in vNodes \/ \E o \in Opener : pc[o] \in Making /\ pnode[o] = p

Lists ==
    /\ vNodes \subseteq heap /\ vNodesDisconnected \subseteq heap
    /\ vNodes \cap vNodesDisconnected = {}
    /\ copyS \subseteq heap /\ copyM \subseteq heap
    /\ pcS \notin {"service", "release"} => copyS = {}
    /\ pcM = "copy" => copyM = {}
    /\ pcM = "start" => pnodeNewSync \in Ptr

\* What is known of an opener and its node.
OpenerOK(o) ==
    /\ pc[o] # "idle" => addrConnect[o] \in Target[o]
    /\ pc[o] \notin {"load", "store", "post", "clear"}
    /\ pc[o] \in {"find", "connect", "push"} => \A p \in vNodes : node[p].addr # addrConnect[o]
    /\ pc[o] \in Making \cup {"oneshot"} => pnode[o] \in Ptr
    /\ pc[o] \in Making => /\ pnode[o] \in heap
                           /\ ~ node[pnode[o]].fNetworkNode /\ ~ node[pnode[o]].fInbound
                           /\ node[pnode[o]].addr = addrConnect[o]
    /\ pc[o] = "push" => pnode[o] \notin vNodes \cup vNodesDisconnected \cup copyS \cup copyM
    /\ pc[o] \in {"push", "grant", "move"} => node[pnode[o]].grantOutbound = "none"

Openers == \A o \in Opener : OpenerOK(o)

Unshared ==
    \A o1 \in Opener : \A o2 \in Opener :
        o1 # o2 /\ pc[o1] \in Making /\ pc[o2] \in Making => pnode[o1] # pnode[o2]

\* Every reference is counted.
RefsCover ==
    \A p \in heap : node[p].nRefCount >= One(Base(p)) + One(p \in copyS) + One(p \in copyM)

\* No slot is posted twice.
Single == nTwice = 0 /\ \A p \in Ptr : node[p].grantOutbound # "posted"

IInv == TypeOK /\ Lists /\ Openers /\ Unshared /\ RefsCover /\ Single

\* The number of slots some nodes hold.
LEMMA GrantsType == ASSUME NEW S \in SUBSET Ptr PROVE Grants(S) \in Nat
BY PeersAssumption, FS_Subset, FS_CardinalityType DEF Grants

\* While no slot is posted twice, a Release of the socket thread does not do so.
LEMMA ReleaseOnce ==
    ASSUME TypeOK, Single, NEW S \in SUBSET Ptr, ReleaseGrants(S)
    PROVE  semOutbound' \in Nat /\ nTwice' = 0
<1>1. {p \in S : fHaveGrant(p)} = S \cap Held
    BY DEF fHaveGrant, Held, TypeOK, CNode, Single
<1>2. Grants(S) \in Nat /\ Grants(S) = Cardinality(S \cap Held)
    BY <1>1, GrantsType DEF Grants
<1> QED BY <1>2 DEF ReleaseGrants, Post, TypeOK, Single

\* A new CNode is one.
LEMMA NewNodeType == ASSUME NEW a \in Addr, NEW b \in BOOLEAN PROVE NewNode(a, b) \in CNode
BY DEF NewNode, CNode

\* The invariant holds before any node exists.
LEMMA InitHolds == Init => IInv
<1> SUFFICES ASSUME Init PROVE IInv
    OBVIOUS
<1>1. TypeOK
  <2>1. Freed \in CNode
      BY NewNodeType DEF Freed, Addr
  <2> QED BY <2>1, PeersAssumption DEF Init, TypeOK, CNode, Addr
<1>2. Lists /\ Openers /\ Unshared /\ RefsCover /\ Single
    BY DEF Init, Lists, Openers, OpenerOK, Unshared, RefsCover, Making, Single, Freed, NewNode
<1> QED BY <1>1, <1>2 DEF IInv

\* AddRef and Release change nothing but the counts.
LEMMA CountedNode ==
    ASSUME TypeOK, NEW S \in SUBSET Ptr, NEW d \in {1, -1},
           d = -1 => \A p \in S : node[p].nRefCount > 0
    PROVE  /\ Counted(S, d) \in [Ptr -> CNode]
           /\ \A p \in Ptr :
                /\ Counted(S, d)[p].addr = node[p].addr
                /\ Counted(S, d)[p].fInbound = node[p].fInbound
                /\ Counted(S, d)[p].fNetworkNode = node[p].fNetworkNode
                /\ Counted(S, d)[p].grantOutbound = node[p].grantOutbound
                /\ Counted(S, d)[p].nRefCount =
                     IF p \in S THEN node[p].nRefCount + d ELSE node[p].nRefCount
BY DEF Counted, TypeOK, CNode

\* Closing sockets leaves addresses, kinds and counts alone.
LEMMA ClosedNode ==
    ASSUME TypeOK, NEW S \in SUBSET Ptr
    PROVE  /\ Closed(S) \in [Ptr -> CNode]
           /\ \A p \in Ptr :
                /\ Closed(S)[p].addr = node[p].addr
                /\ Closed(S)[p].fInbound = node[p].fInbound
                /\ Closed(S)[p].fNetworkNode = node[p].fNetworkNode
                /\ Closed(S)[p].grantOutbound = node[p].grantOutbound
                /\ Closed(S)[p].nRefCount = node[p].nRefCount
<1>1. ASSUME NEW p \in Ptr
      PROVE  /\ Closed(S)[p] \in CNode
             /\ Closed(S)[p].addr = node[p].addr
             /\ Closed(S)[p].fInbound = node[p].fInbound
             /\ Closed(S)[p].fNetworkNode = node[p].fNetworkNode
             /\ Closed(S)[p].grantOutbound = node[p].grantOutbound
             /\ Closed(S)[p].nRefCount = node[p].nRefCount
  <2>1. node[p] \in CNode
      BY DEF TypeOK
  <2>2. CASE p \in S
    <3>1. Closed(S)[p] = [node[p] EXCEPT !.fDisconnect = TRUE]
        BY <2>2 DEF Closed
    <3> QED BY <2>1, <3>1 DEF CNode
  <2>3. CASE p \notin S
    <3>1. Closed(S)[p] = node[p]
        BY <2>3 DEF Closed
    <3> QED BY <2>1, <3>1
  <2> QED BY <2>2, <2>3
<1>2. Closed(S) = [p \in Ptr |-> Closed(S)[p]]
    BY DEF Closed
<1> QED BY <1>1, <1>2

\* A disconnected node keeps its address and kind.
LEMMA DisconnectedNode ==
    ASSUME NEW n \in CNode, n.nRefCount > 0
    PROVE  /\ Disconnected(n) \in CNode
           /\ Disconnected(n).addr = n.addr
           /\ Disconnected(n).fInbound = n.fInbound
           /\ Disconnected(n).fNetworkNode = n.fNetworkNode
           /\ Disconnected(n).grantOutbound = "none"
           /\ Disconnected(n).nRefCount =
                IF n.fNetworkNode \/ n.fInbound THEN n.nRefCount - 1 ELSE n.nRefCount
<1> DEFINE k == IF n.fNetworkNode \/ n.fInbound THEN n.nRefCount - 1 ELSE n.nRefCount
<1>1. k \in Nat
    BY DEF CNode
<1>2. Disconnected(n) = [n EXCEPT !.grantOutbound = "none", !.fDisconnect = TRUE, !.nRefCount = k]
    BY DEF Disconnected
<1> HIDE DEF k
<1>3. Disconnected(n) = [addr |-> n.addr, fInbound |-> n.fInbound, fNetworkNode |-> n.fNetworkNode,
                         fOneShot |-> n.fOneShot, fDisconnect |-> TRUE, sync |-> n.sync,
                         grantOutbound |-> "none", nRefCount |-> k]
    BY <1>2 DEF CNode
<1>4. /\ Disconnected(n) \in CNode /\ Disconnected(n).nRefCount = k
      /\ Disconnected(n).addr = n.addr /\ Disconnected(n).fInbound = n.fInbound
      /\ Disconnected(n).fNetworkNode = n.fNetworkNode /\ Disconnected(n).grantOutbound = "none"
    BY <1>1, <1>3 DEF CNode
<1> QED BY <1>4 DEF k

\* A step that keeps the lists, the copies and the openers, and of the nodes the
\* address, the kind and the count, keeps the invariant but for the types.
LEMMA SameShape ==
    ASSUME IInv, TypeOK',
           UNCHANGED <<heap, lists, nTwice, copyS, copyM, openerVars>>,
           \A p \in Ptr : /\ node'[p].addr = node[p].addr
                          /\ node'[p].fInbound = node[p].fInbound
                          /\ node'[p].fNetworkNode = node[p].fNetworkNode
                          /\ node'[p].grantOutbound = node[p].grantOutbound
                          /\ node'[p].nRefCount = node[p].nRefCount,
           pcS' \notin {"service", "release"} => copyS = {},
           pcM' = "copy" => copyM = {},
           pcM' = "start" => pnodeNewSync' \in Ptr
    PROVE  IInv'
<1>1. Lists'
    BY DEF IInv, Lists, lists
<1>2. Openers'
    BY DEF IInv, Openers, OpenerOK, Making, lists, openerVars, TypeOK, Lists
<1>3. Unshared'
    BY DEF IInv, Unshared, openerVars
<1>4. RefsCover'
    BY DEF IInv, RefsCover, Base, One, lists, openerVars, TypeOK
<1>5. Single'
    BY DEF IInv, Single
<1> QED BY <1>1, <1>2, <1>3, <1>4, <1>5 DEF IInv

\* The steps of the socket thread.
LEMMA SocketStep == ASSUME IInv, Apart, ThreadSocketHandler PROVE IInv'
<1> USE DEF IInv
<1>1. CASE DisconnectNodes
  <2> DEFINE gone == {p \in vNodes : node[p].fDisconnect \/ node[p].nRefCount <= 0}
  <2>1. gone \subseteq vNodes /\ gone \subseteq Ptr
      BY DEF TypeOK
  <2>2. \A p \in gone : node[p].nRefCount > 0
      BY DEF RefsCover, Lists, Base, One, TypeOK, CNode
  <2>3. \A p \in Ptr : /\ node'[p] \in CNode
                      /\ node'[p].addr = node[p].addr
                      /\ node'[p].fInbound = node[p].fInbound
                      /\ node'[p].fNetworkNode = node[p].fNetworkNode
                      /\ (p \in gone => node'[p].grantOutbound = "none")
                      /\ (p \notin gone => node'[p].grantOutbound = node[p].grantOutbound)
                      /\ node'[p].nRefCount =
                           IF p \in gone /\ (node[p].fNetworkNode \/ node[p].fInbound)
                           THEN node[p].nRefCount - 1 ELSE node[p].nRefCount
      BY <1>1, <2>1, <2>2, DisconnectedNode DEF DisconnectNodes, TypeOK
  <2>4. TypeOK'
    <3>1. node' \in [Ptr -> CNode]
        BY <1>1, <2>3 DEF DisconnectNodes
    <3>2. semOutbound' \in Nat /\ nTwice' \in 0..MaxTwice
        BY <1>1, <2>1, ReleaseOnce, PeersAssumption DEF DisconnectNodes
    <3> QED BY <1>1, <2>1, <3>1, <3>2 DEF DisconnectNodes, TypeOK, SyncUnless, messageVars, openerVars
  <2>5. Lists'
      BY <1>1, <2>1 DEF DisconnectNodes, Lists, messageVars
  <2>6. Openers'
      BY <1>1, <2>1, <2>3 DEF DisconnectNodes, Openers, OpenerOK, Making, Lists, TypeOK, messageVars, openerVars
  <2>7. Unshared'
      BY <1>1 DEF DisconnectNodes, Unshared, openerVars
  <2>8. RefsCover'
    <3> SUFFICES ASSUME NEW p \in heap
                 PROVE  node'[p].nRefCount >= One(Base(p)') + One(p \in copyS') + One(p \in copyM')
        BY <1>1 DEF DisconnectNodes, RefsCover
    <3>1. node[p].nRefCount >= One(Base(p)) + One(p \in copyS) + One(p \in copyM)
        BY DEF RefsCover
    <3>2. copyS' = copyS /\ copyM' = copyM
        BY <1>1 DEF DisconnectNodes, messageVars
    <3>3. CASE p \in gone /\ (node[p].fNetworkNode \/ node[p].fInbound)
      <4>1. Base(p) /\ ~ Base(p)'
          BY <1>1, <2>1, <3>3 DEF DisconnectNodes, Base, Openers, OpenerOK, openerVars
      <4> QED BY <2>3, <3>1, <3>2, <3>3, <4>1 DEF One, TypeOK, CNode
    <3>4. CASE ~ (p \in gone /\ (node[p].fNetworkNode \/ node[p].fInbound))
      <4>1. Base(p)' => Base(p)
          BY <1>1 DEF DisconnectNodes, Base, openerVars
      <4> QED BY <2>3, <3>1, <3>2, <3>4, <4>1 DEF One, TypeOK, CNode
    <3> QED BY <3>3, <3>4
  <2>9. Single'
      BY <1>1, <2>1, <2>3, ReleaseOnce DEF DisconnectNodes, Single
  <2> QED BY <2>4, <2>5, <2>6, <2>7, <2>8, <2>9
<1>2. CASE DeleteNodes
  <2> DEFINE unused == {p \in vNodesDisconnected : node[p].nRefCount <= 0}
  <2>1. /\ unused \subseteq vNodesDisconnected /\ unused \subseteq Ptr
        /\ \A p \in unused : ~ Base(p) /\ p \notin copyS /\ p \notin copyM
      BY DEF RefsCover, Lists, One, TypeOK, CNode
  <2>2. \A p \in Ptr : node'[p] \in CNode /\ (p \notin unused => node'[p] = node[p])
      BY <1>2, NewNodeType DEF DeleteNodes, Freed, TypeOK, Addr
  <2>3. TypeOK'
    <3>1. node' \in [Ptr -> CNode]
        BY <1>2, <2>2 DEF DeleteNodes
    <3>2. semOutbound' \in Nat /\ nTwice' \in 0..MaxTwice
        BY <1>2, <2>1, ReleaseOnce, PeersAssumption DEF DeleteNodes
    <3> QED BY <1>2, <2>1, <3>1, <3>2 DEF DeleteNodes, TypeOK, messageVars, openerVars
  <2>4. Lists'
      BY <1>2, <2>1 DEF DeleteNodes, Lists, Base, messageVars
  <2>5. Openers'
      BY <1>2, <2>1, <2>2 DEF DeleteNodes, Openers, OpenerOK, Making, Lists, Base, TypeOK, messageVars, openerVars
  <2>6. Unshared'
      BY <1>2 DEF DeleteNodes, Unshared, openerVars
  <2>7. RefsCover'
      BY <1>2, <2>1, <2>2 DEF DeleteNodes, RefsCover, Base, TypeOK, messageVars, openerVars
  <2>8. Single'
      BY <1>2, <2>1, ReleaseOnce DEF DeleteNodes, Single, Freed, NewNode
  <2> QED BY <2>3, <2>4, <2>5, <2>6, <2>7, <2>8
<1>3. CASE AcceptConnections
  <2>1. CASE UNCHANGED <<heap, node, vNodes>>
    <3>1. TypeOK'
        BY <1>3, <2>1 DEF AcceptConnections, TypeOK, slots, messageVars, openerVars
    <3> QED BY <1>3, <2>1, <3>1, SameShape DEF AcceptConnections, Lists, lists, slots, messageVars
  <2>2. ASSUME NEW p \in Ptr \ heap, NEW a \in InAddr,
               heap' = heap \cup {p}, node' = [node EXCEPT ![p] = NewNode(a, TRUE)],
               vNodes' = vNodes \cup {p}
        PROVE  IInv'
    <3>1. NewNode(a, TRUE) \in CNode /\ NewNode(a, TRUE).addr = a /\ NewNode(a, TRUE).nRefCount = 1
        BY <2>2, NewNodeType DEF Addr, NewNode
    <3>2. TypeOK'
        BY <1>3, <2>2, <3>1 DEF AcceptConnections, TypeOK, slots, messageVars, openerVars
    <3>3. Lists'
        BY <1>3, <2>2 DEF AcceptConnections, Lists, messageVars
    <3>0. /\ node'[p] = NewNode(a, TRUE) /\ \A q \in Ptr : q # p => node'[q] = node[q]
          /\ UNCHANGED <<vNodesDisconnected, copyS, copyM, pc, pnode, addrConnect>>
        BY <1>3, <2>2 DEF AcceptConnections, TypeOK, slots, messageVars, openerVars
    <3>4. Openers'
      <4> SUFFICES ASSUME NEW o \in Opener PROVE OpenerOK(o)'
          BY DEF Openers
      <4>1. pc[o] # "idle" => addrConnect[o] # a
          BY <2>2 DEF Openers, OpenerOK, Apart
      <4>2. pc[o] \in Making => pnode[o] # p
          BY <2>2 DEF Openers, OpenerOK
      <4>3. pc[o] \in {"find", "connect", "push"} =>
              \A q \in vNodes' : node'[q].addr # addrConnect[o]
        <5> SUFFICES ASSUME pc[o] \in {"find", "connect", "push"}, NEW q \in vNodes'
                     PROVE  node'[q].addr # addrConnect[o]
            OBVIOUS
        <5>1. CASE q = p
            BY <3>0, <3>1, <4>1, <5>1
        <5>2. CASE q # p
            BY <2>2, <3>0, <5>2 DEF Openers, OpenerOK, TypeOK
        <5> QED BY <5>1, <5>2
      <4>4. pc[o] \in Making => node'[pnode[o]] = node[pnode[o]]
          BY <3>0, <4>2 DEF Openers, OpenerOK
      <4>5. pc[o] = "push" => pnode[o] # p
          BY <4>2 DEF Making
      <4>6. OpenerOK(o) /\ pc'[o] = pc[o] /\ pnode'[o] = pnode[o] /\ addrConnect'[o] = addrConnect[o]
          BY <3>0 DEF Openers
      <4>7. pc[o] \in Making =>
              /\ pnode[o] \in heap'
              /\ ~ node'[pnode[o]].fNetworkNode /\ ~ node'[pnode[o]].fInbound
              /\ node'[pnode[o]].addr = addrConnect[o]
              /\ node'[pnode[o]].grantOutbound = node[pnode[o]].grantOutbound
          BY <2>2, <4>4, <4>6 DEF OpenerOK
      <4>8. pc[o] = "push" =>
              pnode[o] \notin vNodes' \cup vNodesDisconnected' \cup copyS' \cup copyM'
          BY <2>2, <3>0, <4>5, <4>6 DEF OpenerOK
      <4> QED BY <4>3, <4>6, <4>7, <4>8 DEF OpenerOK, Making
    <3>5. Unshared'
        BY <1>3 DEF AcceptConnections, Unshared, openerVars
    <3>6. p \notin copyS' /\ p \notin copyM'
        BY <1>3, <2>2 DEF AcceptConnections, Lists, messageVars
    <3>7. RefsCover'
      <4> SUFFICES ASSUME NEW q \in heap'
                   PROVE  node'[q].nRefCount >= One(Base(q)') + One(q \in copyS') + One(q \in copyM')
          BY DEF RefsCover
      <4>1. CASE q = p
        <5>1. node'[q].nRefCount = 1 /\ One(q \in copyS') = 0 /\ One(q \in copyM') = 0
            BY <3>0, <3>1, <3>6, <4>1 DEF One
        <5>2. One(Base(q)') \in {0, 1}
            BY DEF One
        <5> QED BY <5>1, <5>2
      <4>2. CASE q # p
        <5>1. q \in heap /\ (Base(q)' <=> Base(q))
            BY <2>2, <3>0, <4>2 DEF Base
        <5> QED BY <3>0, <4>2, <5>1 DEF RefsCover, TypeOK, One
      <4> QED BY <4>1, <4>2
    <3>8. Single'
        BY <1>3, <2>2, <3>0 DEF AcceptConnections, Single, NewNode, slots
    <3> QED BY <3>2, <3>3, <3>4, <3>5, <3>7, <3>8
  <2> QED BY <1>3, <2>1, <2>2 DEF AcceptConnections
<1>4. CASE CopyForSocket
  <2>1. copyS = {} /\ copyS' = vNodes /\ node' = Counted(vNodes, 1)
      BY <1>4 DEF CopyForSocket, Lists
  <2>2. TypeOK'
      BY <1>4, <2>1, CountedNode DEF CopyForSocket, TypeOK, lists, slots, messageVars, openerVars
  <2>3. Lists'
      BY <1>4, <2>1 DEF CopyForSocket, Lists, lists, messageVars
  <2>4. Openers'
      BY <1>4, <2>1, CountedNode DEF CopyForSocket, Openers, OpenerOK, Making, Lists, TypeOK, lists, slots, messageVars, openerVars
  <2>5. Unshared'
      BY <1>4 DEF CopyForSocket, Unshared, openerVars
  <2>6. RefsCover'
      BY <1>4, <2>1, CountedNode DEF CopyForSocket, RefsCover, Base, One, TypeOK, CNode, lists, slots, messageVars, openerVars
  <2>8. Single'
      BY <1>4, <2>1, CountedNode DEF CopyForSocket, Single, slots, TypeOK
  <2> QED BY <2>2, <2>3, <2>4, <2>5, <2>6, <2>8
<1>5. CASE ServiceSockets
  <2>1. PICK error \in SUBSET copyS, idle \in SUBSET copyS :
          node' = Closed(error \cup idle) /\ pnodeSync' = SyncUnless(error)
      BY <1>5 DEF ServiceSockets
  <2>2. error \cup idle \in SUBSET Ptr
      BY DEF TypeOK
  <2>3. TypeOK'
      BY <1>5, <2>1, <2>2, ClosedNode DEF ServiceSockets, TypeOK, SyncUnless, lists, slots, messageVars, openerVars
  <2> QED BY <1>5, <2>1, <2>2, <2>3, ClosedNode, SameShape DEF ServiceSockets, Lists, slots, messageVars
<1>6. CASE ReleaseFromSocket
  <2>1. copyS' = {} /\ node' = Counted(copyS, -1)
      BY <1>6 DEF ReleaseFromSocket
  <2>2. copyS \in SUBSET Ptr /\ \A p \in copyS : node[p].nRefCount > 0
      BY DEF RefsCover, Lists, One, TypeOK, CNode
  <2>3. TypeOK'
      BY <1>6, <2>1, <2>2, CountedNode DEF ReleaseFromSocket, TypeOK, lists, slots, messageVars, openerVars
  <2>4. Lists'
      BY <1>6, <2>1 DEF ReleaseFromSocket, Lists, lists, messageVars
  <2>5. Openers'
      BY <1>6, <2>1, <2>2, CountedNode DEF ReleaseFromSocket, Openers, OpenerOK, Making, Lists, TypeOK, lists, slots, messageVars, openerVars
  <2>6. Unshared'
      BY <1>6 DEF ReleaseFromSocket, Unshared, openerVars
  <2>7. RefsCover'
      BY <1>6, <2>1, <2>2, CountedNode DEF ReleaseFromSocket, RefsCover, Base, One, TypeOK, CNode, lists, slots, messageVars, openerVars
  <2>8. Single'
      BY <1>6, <2>1, <2>2, CountedNode DEF ReleaseFromSocket, Single, slots, TypeOK
  <2> QED BY <2>3, <2>4, <2>5, <2>6, <2>7, <2>8
<1> QED BY <1>1, <1>2, <1>3, <1>4, <1>5, <1>6 DEF ThreadSocketHandler

\* The steps of the message thread.
LEMMA MessageStep == ASSUME IInv, ThreadMessageHandler PROVE IInv'
<1> USE DEF IInv
<1>1. CASE CopyForMessages
  <2>1. copyM = {} /\ copyM' = vNodes /\ node' = Counted(vNodes, 1)
      BY <1>1 DEF CopyForMessages, Lists
  <2>2. TypeOK'
      BY <1>1, <2>1, CountedNode DEF CopyForMessages, TypeOK, lists, slots, socketVars, openerVars
  <2>3. Lists'
      BY <1>1, <2>1 DEF CopyForMessages, Lists, lists, socketVars
  <2>4. Openers'
      BY <1>1, <2>1, CountedNode DEF CopyForMessages, Openers, OpenerOK, Making, Lists, TypeOK, lists, slots, socketVars, openerVars
  <2>5. Unshared'
      BY <1>1 DEF CopyForMessages, Unshared, openerVars
  <2>6. RefsCover'
      BY <1>1, <2>1, CountedNode DEF CopyForMessages, RefsCover, Base, One, TypeOK, CNode, lists, slots, socketVars, openerVars
  <2>8. Single'
      BY <1>1, <2>1, CountedNode DEF CopyForMessages, Single, slots, TypeOK
  <2> QED BY <2>2, <2>3, <2>4, <2>5, <2>6, <2>8
<1>2. CASE ChooseSyncNode
  <2>1. TypeOK' /\ (pcM' = "start" => pnodeNewSync' \in Ptr) /\ pcM' # "copy"
      BY <1>2 DEF ChooseSyncNode, TypeOK, lists, slots, socketVars, openerVars
  <2> QED BY <1>2, <2>1, SameShape DEF ChooseSyncNode, Lists, slots, socketVars
<1>3. CASE StartSync
  <2>1. pnodeNewSync \in Ptr
      BY <1>3 DEF StartSync, Lists
  <2>2. \A p \in Ptr : /\ node'[p] \in CNode
                      /\ node'[p].addr = node[p].addr
                      /\ node'[p].fInbound = node[p].fInbound
                      /\ node'[p].fNetworkNode = node[p].fNetworkNode
                      /\ node'[p].grantOutbound = node[p].grantOutbound
                      /\ node'[p].nRefCount = node[p].nRefCount
      BY <1>3, <2>1 DEF StartSync, TypeOK, CNode
  <2>3. TypeOK'
      BY <1>3, <2>1, <2>2 DEF StartSync, TypeOK, lists, slots, socketVars, openerVars
  <2> QED BY <1>3, <2>2, <2>3, SameShape DEF StartSync, Lists, slots, socketVars
<1>4. CASE ProcessAndSend
  <2>0. \A p \in Ptr : /\ node'[p] \in CNode
                      /\ node'[p].addr = node[p].addr
                      /\ node'[p].fInbound = node[p].fInbound
                      /\ node'[p].fNetworkNode = node[p].fNetworkNode
                      /\ node'[p].grantOutbound = node[p].grantOutbound
                      /\ node'[p].nRefCount = node[p].nRefCount
    <3> SUFFICES ASSUME NEW p \in Ptr
                 PROVE  /\ node'[p] \in CNode
                        /\ node'[p].addr = node[p].addr
                        /\ node'[p].fInbound = node[p].fInbound
                        /\ node'[p].fNetworkNode = node[p].fNetworkNode
                        /\ node'[p].grantOutbound = node[p].grantOutbound
                        /\ node'[p].nRefCount = node[p].nRefCount
        OBVIOUS
    <3> DEFINE open == {q \in copyM : ~ node[q].fDisconnect}
    <3>1. \/ node'[p] = Closed(open)[p]
          \/ node'[p] = [node[p] EXCEPT !.sync = "asked"]
          \/ node'[p] = node[p]
        BY <1>4 DEF ProcessAndSend
    <3>2. open \in SUBSET Ptr /\ node[p] \in CNode
        BY DEF TypeOK
    <3>3. CASE node'[p] = Closed(open)[p]
        BY <3>2, <3>3, ClosedNode
    <3>4. CASE node'[p] = [node[p] EXCEPT !.sync = "asked"]
        BY <3>2, <3>4 DEF CNode
    <3>5. CASE node'[p] = node[p]
        BY <3>2, <3>5
    <3> QED BY <3>1, <3>3, <3>4, <3>5
  <2>1. node' \in [Ptr -> CNode] /\ pnodeSync' \in {pnodeSync, NULL}
      BY <1>4, <2>0 DEF ProcessAndSend, SyncUnless
  <2>2. TypeOK'
      BY <1>4, <2>1 DEF ProcessAndSend, TypeOK, lists, slots, socketVars, openerVars
  <2> QED BY <1>4, <2>0, <2>2, SameShape DEF ProcessAndSend, Lists, slots, socketVars
<1>5. CASE ReleaseFromMessages
  <2>1. copyM' = {} /\ node' = Counted(copyM, -1)
      BY <1>5 DEF ReleaseFromMessages
  <2>2. copyM \in SUBSET Ptr /\ \A p \in copyM : node[p].nRefCount > 0
      BY DEF RefsCover, Lists, One, TypeOK, CNode
  <2>3. TypeOK'
      BY <1>5, <2>1, <2>2, CountedNode DEF ReleaseFromMessages, TypeOK, lists, slots, socketVars, openerVars
  <2>4. Lists'
      BY <1>5, <2>1 DEF ReleaseFromMessages, Lists, lists, socketVars
  <2>5. Openers'
      BY <1>5, <2>1, <2>2, CountedNode DEF ReleaseFromMessages, Openers, OpenerOK, Making, Lists, TypeOK, lists, slots, socketVars, openerVars
  <2>6. Unshared'
      BY <1>5 DEF ReleaseFromMessages, Unshared, openerVars
  <2>7. RefsCover'
      BY <1>5, <2>1, <2>2, CountedNode DEF ReleaseFromMessages, RefsCover, Base, One, TypeOK, CNode, lists, slots, socketVars, openerVars
  <2>8. Single'
      BY <1>5, <2>1, <2>2, CountedNode DEF ReleaseFromMessages, Single, slots, TypeOK
  <2> QED BY <2>3, <2>4, <2>5, <2>6, <2>7, <2>8
<1> QED BY <1>1, <1>2, <1>3, <1>4, <1>5 DEF ThreadMessageHandler

\* A step of opener o that adds no node to vNodes and takes on no new one.
LEMMA QuietOpener ==
    ASSUME IInv, NEW o \in Opener, TypeOK', OpenerOK(o)',
           UNCHANGED <<heap, lists, nTwice, socketVars, messageVars>>,
           \A x \in Opener : x # o => /\ pc'[x] = pc[x] /\ pnode'[x] = pnode[x]
                                     /\ addrConnect'[x] = addrConnect[x],
           pc'[o] \in Making => pc[o] \in Making /\ pnode'[o] = pnode[o],
           \A p \in Ptr : /\ node'[p].addr = node[p].addr
                          /\ node'[p].fInbound = node[p].fInbound
                          /\ node'[p].nRefCount = node[p].nRefCount
                          /\ node'[p].grantOutbound # "posted"
                          /\ \/ /\ node'[p].fNetworkNode = node[p].fNetworkNode
                                /\ node'[p].grantOutbound = node[p].grantOutbound
                             \/ pc[o] \in Making /\ p = pnode[o]
    PROVE  IInv'
<1> USE DEF IInv
<1>1. Lists'
    BY DEF Lists, lists, socketVars, messageVars
<1>2. Openers'
  <2> SUFFICES ASSUME NEW x \in Opener, x # o PROVE OpenerOK(x)'
      BY DEF Openers
  <2>1. OpenerOK(x) /\ pc'[x] = pc[x] /\ pnode'[x] = pnode[x] /\ addrConnect'[x] = addrConnect[x]
      BY DEF Openers
  <2>2. \A p \in vNodes' : node'[p].addr = node[p].addr
      BY DEF lists, TypeOK
  <2>3. pc[x] \in Making => /\ node'[pnode[x]].fNetworkNode = node[pnode[x]].fNetworkNode
                            /\ node'[pnode[x]].fInbound = node[pnode[x]].fInbound
                            /\ node'[pnode[x]].addr = node[pnode[x]].addr
                            /\ node'[pnode[x]].grantOutbound = node[pnode[x]].grantOutbound
      BY <2>1 DEF Unshared, OpenerOK
  <2> QED BY <2>1, <2>2, <2>3 DEF OpenerOK, Making, lists, socketVars, messageVars
<1>3. Unshared'
    BY DEF Unshared
<1>4. RefsCover'
  <2> SUFFICES ASSUME NEW p \in heap
               PROVE  node'[p].nRefCount >= One(Base(p)') + One(p \in copyS') + One(p \in copyM')
      BY DEF RefsCover
  <2>1. Base(p)' => Base(p)
      BY DEF Base, lists
  <2>2. node'[p].nRefCount = node[p].nRefCount /\ node[p].nRefCount \in Nat
      BY DEF TypeOK, CNode
  <2>3. node[p].nRefCount >= One(Base(p)) + One(p \in copyS) + One(p \in copyM)
      BY DEF RefsCover
  <2> QED BY <2>1, <2>2, <2>3 DEF One, socketVars, messageVars
<1>5. Single'
    BY DEF Single
<1> QED BY <1>1, <1>2, <1>3, <1>4, <1>5

\* OpenNetworkConnection returns false.
LEMMA GiveUpStep == ASSUME IInv, NEW o \in Opener, GiveUp(o) PROVE IInv'
<1> USE DEF IInv
<1>1. TypeOK'
    BY DEF GiveUp, Goto, TypeOK, Addr, others, lists, slots, socketVars, messageVars
<1>2. pc'[o] = "idle"
    BY DEF GiveUp, Goto, TypeOK
<1>3. OpenerOK(o)'
    BY <1>2 DEF OpenerOK, Making
<1> QED BY <1>1, <1>2, <1>3, QuietOpener DEF GiveUp, Goto, TypeOK, Making, Single, slots, others

\* The steps of an opener.
LEMMA OpenerStep ==
    ASSUME IInv, Apart, NEW o \in Opener, AcquireGrant(o) \/ OpenNetworkConnection(o) PROVE IInv'
<1> USE DEF IInv
<1>1. CASE AcquireGrant(o)
  <2>1. PICK a \in Target[o] : addrConnect' = [addrConnect EXCEPT ![o] = a]
      BY <1>1 DEF AcquireGrant
  <2>2. TypeOK'
      BY <1>1, <2>1 DEF AcquireGrant, Goto, TypeOK, Addr, others, lists, slots, socketVars, messageVars
  <2>3. pc'[o] = "open" /\ addrConnect'[o] = a
      BY <1>1, <2>1 DEF AcquireGrant, Goto, TypeOK
  <2>4. OpenerOK(o)'
      BY <2>3 DEF OpenerOK, Making
  <2> QED BY <1>1, <2>1, <2>2, <2>3, <2>4, QuietOpener DEF AcquireGrant, Goto, TypeOK, Making, Single, slots, others
<1>2. CASE CheckExisting(o)
  <2>1. CASE GiveUp(o)
      BY <2>1, GiveUpStep
  <2>2. CASE FindNode(addrConnect[o]) = {}
    <3>1. /\ pc' = [pc EXCEPT ![o] = IF o \in OneShot THEN "connect" ELSE "find"]
          /\ UNCHANGED <<heap, node, others, slots, pnode, addrConnect, nRefLoaded>>
        BY <1>2, <2>2 DEF CheckExisting, Goto
    <3>2. TypeOK' /\ pc'[o] \in {"connect", "find"}
        BY <3>1 DEF TypeOK, others, lists, slots, socketVars, messageVars
    <3>3. OpenerOK(o)'
        BY <1>2, <2>2, <3>1, <3>2 DEF CheckExisting, OpenerOK, Openers, Making, FindNode, others, lists
    <3> QED BY <3>1, <3>2, <3>3, QuietOpener DEF TypeOK, Making, Single, slots, others
  <2> QED BY <1>2, <2>1, <2>2 DEF CheckExisting
<1>3. CASE LookForExisting(o)
  <2>1. FindNode(addrConnect[o]) = {}
      BY <1>3 DEF LookForExisting, FindNode, Openers, OpenerOK
  <2>2. /\ pc' = [pc EXCEPT ![o] = "connect"]
        /\ UNCHANGED <<heap, node, others, slots, pnode, addrConnect, nRefLoaded>>
      BY <1>3, <2>1 DEF LookForExisting, Goto
  <2>3. TypeOK' /\ pc'[o] = "connect"
      BY <2>2 DEF TypeOK, others, lists, slots, socketVars, messageVars
  <2>4. OpenerOK(o)'
      BY <1>3, <2>2, <2>3 DEF LookForExisting, OpenerOK, Openers, Making, others, lists
  <2> QED BY <2>2, <2>3, <2>4, QuietOpener DEF TypeOK, Making, Single, slots, others
<1>4. ~ LoadRefCount(o) /\ ~ StoreRefCount(o) /\ ~ PostGrant(o) /\ ~ ClearGrant(o)
    BY DEF LoadRefCount, StoreRefCount, PostGrant, ClearGrant, Openers, OpenerOK
<1>5. CASE ConnectSocket(o)
  <2>1. CASE GiveUp(o)
      BY <2>1, GiveUpStep
  <2>2. ASSUME NEW p \in Ptr \ heap, Goto(o, "push"), heap' = heap \cup {p},
               node' = [node EXCEPT ![p] = NewNode(addrConnect[o], FALSE)],
               pnode' = [pnode EXCEPT ![o] = p],
               UNCHANGED <<others, slots, addrConnect, nRefLoaded>>
        PROVE  IInv'
    <3> DEFINE n == NewNode(addrConnect[o], FALSE)
    <3>1. /\ n \in CNode /\ n.addr = addrConnect[o] /\ n.nRefCount = 1
          /\ n.fNetworkNode = FALSE /\ n.fInbound = FALSE /\ n.grantOutbound = "none"
        BY NewNodeType DEF TypeOK, NewNode
    <3>2. /\ node'[p] = n /\ \A q \in Ptr : q # p => node'[q] = node[q]
          /\ pc'[o] = "push" /\ pnode'[o] = p
          /\ \A x \in Opener : x # o => pc'[x] = pc[x] /\ pnode'[x] = pnode[x]
          /\ UNCHANGED <<vNodes, vNodesDisconnected, copyS, copyM, pcS, pcM, pnodeNewSync, addrConnect>>
        BY <2>2 DEF Goto, TypeOK, others, lists, slots, socketVars, messageVars
    <3>3. TypeOK'
        BY <2>2, <3>1 DEF Goto, TypeOK, others, lists, slots, socketVars, messageVars
    <3>4. Lists'
        BY <2>2, <3>2 DEF Lists
    <3>5. p \notin vNodes \cup vNodesDisconnected \cup copyS \cup copyM
        BY <2>2 DEF Lists
    <3>6. Openers'
      <4> SUFFICES ASSUME NEW x \in Opener PROVE OpenerOK(x)'
          BY DEF Openers
      <4>1. \A q \in vNodes' : node'[q] = node[q]
          BY <3>2, <3>5 DEF TypeOK
      <4>2. CASE x = o
        <5>1. /\ addrConnect[o] \in Target[o]
              /\ \A q \in vNodes : node[q].addr # addrConnect[o]
            BY <1>5 DEF ConnectSocket, Openers, OpenerOK
        <5>2. \A q \in vNodes' : node'[q].addr # addrConnect[o]
            BY <3>2, <4>1, <5>1
        <5>3. /\ node'[p].addr = addrConnect[o] /\ p \in heap'
              /\ ~ node'[p].fNetworkNode /\ ~ node'[p].fInbound /\ node'[p].grantOutbound = "none"
            BY <2>2, <3>1, <3>2
        <5> HIDE DEF n
        <5> QED BY <3>2, <3>5, <4>2, <5>1, <5>2, <5>3 DEF OpenerOK
      <4>3. CASE x # o
        <5>1. OpenerOK(x) /\ (pc[x] \in Making => node'[pnode[x]] = node[pnode[x]])
            BY <2>2, <3>2 DEF Openers, OpenerOK
        <5>2. pc[x] \in {"find", "connect", "push"} =>
                \A q \in vNodes' : node'[q].addr # addrConnect[x]
            BY <3>2, <4>1, <5>1 DEF OpenerOK
        <5>3. pc'[x] = pc[x] /\ pnode'[x] = pnode[x] /\ addrConnect'[x] = addrConnect[x] /\ heap \subseteq heap'
            BY <2>2, <3>2, <4>3
        <5> HIDE DEF n
        <5> QED BY <3>2, <5>1, <5>2, <5>3 DEF OpenerOK, Making
      <4> QED BY <4>2, <4>3
    <3>7. Unshared'
        BY <2>2, <3>2 DEF Unshared, Openers, OpenerOK
    <3>8. RefsCover'
      <4> SUFFICES ASSUME NEW q \in heap'
                   PROVE  node'[q].nRefCount >= One(Base(q)') + One(q \in copyS') + One(q \in copyM')
          BY DEF RefsCover
      <4>1. CASE q = p
        <5>1. node'[q].nRefCount = 1 /\ One(q \in copyS') = 0 /\ One(q \in copyM') = 0
            BY <3>1, <3>2, <3>5, <4>1 DEF One
        <5>2. One(Base(q)') \in {0, 1}
            BY DEF One
        <5> QED BY <5>1, <5>2
      <4>2. CASE q # p
        <5>1. q \in heap /\ (Base(q)' => Base(q)) /\ node'[q] = node[q] /\ node[q].nRefCount \in Nat
            BY <2>2, <3>2, <4>2 DEF Base, TypeOK, CNode
        <5>2. node[q].nRefCount >= One(Base(q)) + One(q \in copyS) + One(q \in copyM)
            BY <5>1 DEF RefsCover
        <5> QED BY <3>2, <5>1, <5>2 DEF One
      <4> QED BY <4>1, <4>2
    <3>9. Single'
        BY <2>2, <3>1, <3>2 DEF Single, slots
    <3> QED BY <3>3, <3>4, <3>6, <3>7, <3>8, <3>9
  <2> QED BY <1>5, <2>1, <2>2 DEF ConnectSocket
<1>6. CASE PushNode(o)
  <2>1. /\ pc[o] = "push" /\ pc'[o] = "grant" /\ vNodes' = vNodes \cup {pnode[o]}
        /\ \A x \in Opener : x # o => pc'[x] = pc[x]
        /\ UNCHANGED <<heap, node, vNodesDisconnected, copyS, copyM, pcS, pcM, pnodeNewSync, pnode, addrConnect>>
      BY <1>6 DEF PushNode, Goto, TypeOK, socketVars, messageVars
  <2>2. OpenerOK(o) /\ pnode[o] \in heap /\ pnode[o] \in Ptr /\ node[pnode[o]].addr = addrConnect[o]
      BY <2>1 DEF Openers, OpenerOK, Making
  <2>3. TypeOK'
      BY <1>6, <2>2 DEF PushNode, Goto, TypeOK, slots, socketVars, messageVars
  <2>4. Lists'
      BY <2>1, <2>2 DEF Lists, OpenerOK
  <2>5. Openers'
    <3> SUFFICES ASSUME NEW x \in Opener PROVE OpenerOK(x)'
        BY DEF Openers
    <3>1. CASE x = o
        BY <2>1, <2>2, <3>1 DEF OpenerOK, Making
    <3>2. CASE x # o
      <4>1. OpenerOK(x) /\ pc'[x] = pc[x]
          BY <2>1, <3>2 DEF Openers
      <4>2. pc[x] # "idle" => addrConnect[x] # addrConnect[o]
          BY <2>1, <2>2, <3>2, <4>1 DEF OpenerOK, Apart
      <4>3. pc[x] = "push" => pnode[x] # pnode[o]
          BY <2>1, <3>2 DEF Unshared, Making
      <4>4. pc[x] \in {"find", "connect", "push"} =>
              \A q \in vNodes' : node[q].addr # addrConnect[x]
          BY <2>1, <2>2, <4>1, <4>2 DEF OpenerOK
      <4> QED BY <2>1, <4>1, <4>3, <4>4 DEF OpenerOK
    <3> QED BY <3>1, <3>2
  <2>6. Unshared'
      BY <2>1 DEF Unshared, Making
  <2>7. RefsCover'
    <3> SUFFICES ASSUME NEW q \in heap
                 PROVE  node[q].nRefCount >= One(Base(q)') + One(q \in copyS) + One(q \in copyM)
        BY <2>1 DEF RefsCover
    <3>1. Base(q)' => Base(q)
        BY <2>1 DEF Base, Making
    <3>2. node[q].nRefCount >= One(Base(q)) + One(q \in copyS) + One(q \in copyM)
        BY DEF RefsCover
    <3>3. node[q].nRefCount \in Nat
        BY DEF TypeOK, CNode
    <3> QED BY <3>1, <3>2, <3>3 DEF One
  <2>8. Single'
      BY <1>6 DEF PushNode, Single, slots
  <2> QED BY <2>3, <2>4, <2>5, <2>6, <2>7, <2>8
<1>0. CASE LoadGrant(o)
  <2>1. pc[o] = "grant" /\ ~ fHaveGrant(pnode[o]) /\ OpenerOK(o)
      BY <1>0 DEF LoadGrant, fHaveGrant, Openers, OpenerOK
  <2>2. /\ pc' = [pc EXCEPT ![o] = "move"]
        /\ UNCHANGED <<heap, node, others, slots, pnode, addrConnect, nRefLoaded>>
      BY <1>0, <2>1 DEF LoadGrant, Goto
  <2>3. TypeOK' /\ pc'[o] = "move"
      BY <2>2 DEF TypeOK, others, lists, slots, socketVars, messageVars
  <2>4. OpenerOK(o)'
      BY <2>1, <2>2, <2>3 DEF OpenerOK, Making, others, lists
  <2> QED BY <2>1, <2>2, <2>3, <2>4, QuietOpener DEF TypeOK, Making, Single, slots, others
<1>7. CASE MoveGrant(o)
  <2>1. pc[o] = "move" /\ pnode[o] \in Ptr /\ OpenerOK(o)
      BY <1>7 DEF MoveGrant, Openers, OpenerOK, Making
  <2>2. \A p \in Ptr : /\ node'[p] \in CNode
                      /\ node'[p].addr = node[p].addr
                      /\ node'[p].fInbound = node[p].fInbound
                      /\ node'[p].fNetworkNode = node[p].fNetworkNode
                      /\ (p = pnode[o] => node'[p].grantOutbound = "held")
                      /\ (p # pnode[o] => node'[p].grantOutbound = node[p].grantOutbound)
                      /\ node'[p].nRefCount = node[p].nRefCount
    <3> SUFFICES ASSUME NEW p \in Ptr
                 PROVE  /\ node'[p] \in CNode
                        /\ node'[p].addr = node[p].addr
                        /\ node'[p].fInbound = node[p].fInbound
                        /\ node'[p].fNetworkNode = node[p].fNetworkNode
                        /\ (p = pnode[o] => node'[p].grantOutbound = "held")
                        /\ (p # pnode[o] => node'[p].grantOutbound = node[p].grantOutbound)
                        /\ node'[p].nRefCount = node[p].nRefCount
        OBVIOUS
    <3>1. node[p] \in CNode
        BY DEF TypeOK
    <3>2. CASE p = pnode[o]
      <4>1. node'[p] = [node[p] EXCEPT !.grantOutbound = "held"]
          BY <1>7, <3>2 DEF MoveGrant, TypeOK
      <4> QED BY <3>1, <3>2, <4>1 DEF CNode
    <3>3. CASE p # pnode[o]
      <4>1. node'[p] = node[p]
          BY <1>7, <3>3 DEF MoveGrant, TypeOK
      <4> QED BY <3>1, <3>3, <4>1
    <3> QED BY <3>2, <3>3
  <2>3. TypeOK'
    <3>1. node' \in [Ptr -> CNode]
        BY <1>7, <2>2 DEF MoveGrant, TypeOK
    <3> QED BY <1>7, <3>1 DEF MoveGrant, Goto, TypeOK, others, lists, slots, socketVars, messageVars
  <2>4. /\ pc'[o] = "flag" /\ \A x \in Opener : x # o => pc'[x] = pc[x]
        /\ UNCHANGED <<heap, lists, nTwice, socketVars, messageVars, pnode, addrConnect>>
      BY <1>7 DEF MoveGrant, Goto, TypeOK, slots, others
  <2>5. OpenerOK(o)'
      BY <2>1, <2>2, <2>4 DEF OpenerOK, Making
  <2>6. \A p \in Ptr : /\ node'[p].grantOutbound # "posted"
                      /\ (node'[p].grantOutbound = node[p].grantOutbound \/ p = pnode[o])
      BY <2>2 DEF Single
  <2> QED BY <2>1, <2>2, <2>3, <2>4, <2>5, <2>6, QuietOpener DEF Making
<1>8. CASE SetNetworkNode(o)
  <2>1. pc[o] = "flag" /\ pnode[o] \in Ptr /\ OpenerOK(o)
      BY <1>8 DEF SetNetworkNode, Openers, OpenerOK, Making
  <2>2. \A p \in Ptr : /\ node'[p] \in CNode
                      /\ node'[p].addr = node[p].addr
                      /\ node'[p].fInbound = node[p].fInbound
                      /\ node'[p].grantOutbound = node[p].grantOutbound
                      /\ node'[p].nRefCount = node[p].nRefCount
    <3> SUFFICES ASSUME NEW p \in Ptr
                 PROVE  /\ node'[p] \in CNode
                        /\ node'[p].addr = node[p].addr
                        /\ node'[p].fInbound = node[p].fInbound
                        /\ node'[p].grantOutbound = node[p].grantOutbound
                        /\ node'[p].nRefCount = node[p].nRefCount
        OBVIOUS
    <3>1. node[p] \in CNode
        BY DEF TypeOK
    <3>2. CASE p = pnode[o]
      <4>1. node'[p] = [node[p] EXCEPT !.fNetworkNode = TRUE]
          BY <1>8, <3>2 DEF SetNetworkNode, TypeOK
      <4> QED BY <3>1, <4>1 DEF CNode
    <3>3. CASE p # pnode[o]
      <4>1. node'[p] = node[p]
          BY <1>8, <3>3 DEF SetNetworkNode, TypeOK
      <4> QED BY <3>1, <4>1
    <3> QED BY <3>2, <3>3
  <2>a. \A p \in Ptr : p # pnode[o] => node'[p] = node[p]
      BY <1>8, <2>1 DEF SetNetworkNode, TypeOK
  <2>3. TypeOK'
    <3>1. node' \in [Ptr -> CNode]
      <4>1. node' = [node EXCEPT ![pnode[o]].fNetworkNode = TRUE]
          BY <1>8 DEF SetNetworkNode
      <4> QED BY <2>2, <4>1 DEF TypeOK
    <3> QED BY <1>8, <3>1 DEF SetNetworkNode, Done, Goto, TypeOK, Addr, others, lists, slots, socketVars, messageVars
  <2>4. /\ pc'[o] \in {"oneshot", "idle"}
        /\ pc'[o] = "oneshot" => pnode' = pnode /\ addrConnect' = addrConnect
        /\ \A x \in Opener : x # o => /\ pc'[x] = pc[x] /\ pnode'[x] = pnode[x]
                                      /\ addrConnect'[x] = addrConnect[x]
        /\ UNCHANGED <<heap, lists, nTwice, socketVars, messageVars>>
      BY <1>8 DEF SetNetworkNode, Done, Goto, TypeOK, slots, others
  <2>5. OpenerOK(o)'
      BY <2>1, <2>4 DEF OpenerOK, Making
  <2>6. pc[o] \in Making /\ pc'[o] \notin Making
      BY <2>1, <2>4 DEF Making
  <2>7. \A p \in Ptr : /\ node'[p].addr = node[p].addr
                      /\ node'[p].fInbound = node[p].fInbound
                      /\ node'[p].grantOutbound = node[p].grantOutbound
                      /\ node'[p].nRefCount = node[p].nRefCount
                      /\ node'[p].grantOutbound # "posted"
                      /\ \/ /\ node'[p].fNetworkNode = node[p].fNetworkNode
                            /\ node'[p].grantOutbound = node[p].grantOutbound
                         \/ pc[o] \in Making /\ p = pnode[o]
      BY <2>2, <2>a, <2>6 DEF Single
  <2> QED BY <2>3, <2>4, <2>5, <2>6, <2>7, QuietOpener
<1>9. CASE SetOneShot(o)
  <2>1. pc[o] = "oneshot" /\ pnode[o] \in Ptr
      BY <1>9 DEF SetOneShot, Openers, OpenerOK
  <2>2. \A p \in Ptr : /\ node'[p] \in CNode
                      /\ node'[p].addr = node[p].addr
                      /\ node'[p].fInbound = node[p].fInbound
                      /\ node'[p].fNetworkNode = node[p].fNetworkNode
                      /\ node'[p].grantOutbound = node[p].grantOutbound
                      /\ node'[p].nRefCount = node[p].nRefCount
    <3> SUFFICES ASSUME NEW p \in Ptr
                 PROVE  /\ node'[p] \in CNode
                        /\ node'[p].addr = node[p].addr
                        /\ node'[p].fInbound = node[p].fInbound
                        /\ node'[p].fNetworkNode = node[p].fNetworkNode
                        /\ node'[p].grantOutbound = node[p].grantOutbound
                        /\ node'[p].nRefCount = node[p].nRefCount
        OBVIOUS
    <3>1. node[p] \in CNode
        BY DEF TypeOK
    <3>2. CASE p = pnode[o]
      <4>1. node'[p] = [node[p] EXCEPT !.fOneShot = TRUE]
          BY <1>9, <3>2 DEF SetOneShot, TypeOK
      <4> QED BY <3>1, <4>1 DEF CNode
    <3>3. CASE p # pnode[o]
      <4>1. node'[p] = node[p]
          BY <1>9, <3>3 DEF SetOneShot, TypeOK
      <4> QED BY <3>1, <4>1
    <3> QED BY <3>2, <3>3
  <2>3. TypeOK'
    <3>1. node' \in [Ptr -> CNode]
        BY <1>9, <2>2 DEF SetOneShot, TypeOK
    <3> QED BY <1>9, <3>1 DEF SetOneShot, Done, Goto, TypeOK, Addr, others, lists, slots, socketVars, messageVars
  <2>4. /\ pc'[o] = "idle"
        /\ \A x \in Opener : x # o => /\ pc'[x] = pc[x] /\ pnode'[x] = pnode[x]
                                      /\ addrConnect'[x] = addrConnect[x]
        /\ UNCHANGED <<heap, lists, nTwice, socketVars, messageVars>>
      BY <1>9 DEF SetOneShot, Done, Goto, TypeOK, slots, others
  <2>5. OpenerOK(o)'
      BY <2>4 DEF OpenerOK, Making
  <2> QED BY <2>2, <2>3, <2>4, <2>5, QuietOpener DEF Making, Single
<1> QED BY <1>0, <1>1, <1>2, <1>3, <1>4, <1>5, <1>6, <1>7, <1>8, <1>9 DEF OpenNetworkConnection

\* A stuttering step.
LEMMA StutterStep == ASSUME IInv, UNCHANGED vars PROVE IInv'
<1>1. TypeOK'
    BY DEF IInv, TypeOK, vars, lists, slots, socketVars, messageVars, openerVars
<1> QED BY <1>1, SameShape DEF IInv, Lists, vars, slots, socketVars, messageVars

\* The invariant behind the theorems.
LEMMA Invariant == Apart => (Spec => []IInv)
<1> SUFFICES ASSUME Apart PROVE Spec => []IInv
    OBVIOUS
<1>1. IInv /\ [Next]_vars => IInv'
    BY SocketStep, MessageStep, OpenerStep, StutterStep DEF Next
<1> QED BY InitHolds, <1>1, PTL DEF Spec

\* Types, and no reference count and no number of free slots is ever negative:
\* the assertion of GetRefCount holds.
THEOREM CountsNeverNegative == Apart => (Spec => []TypeOK)
BY Invariant, PTL DEF IInv

\* The nodes the socket thread and the message thread hold, in their copies of
\* vNodes, are never deleted: the reference counts of net.cpp protect them.
THEOREM HeldNodesStayLive == Apart => (Spec => []HeldNodesLive)
<1>1. IInv => HeldNodesLive
    BY DEF IInv, Lists, HeldNodesLive
<1> QED BY <1>1, Invariant, PTL

\* A node that an opener has not marked yet is not deleted, though the opener
\* holds no reference of its own (ConnectNode, OpenNetworkConnection).
THEOREM OpenerNodeStaysLive == Apart => (Spec => []OpenerNodeLive)
<1>1. IInv => OpenerNodeLive
    BY DEF IInv, Openers, OpenerOK, Making, OpenerNodeLive
<1> QED BY <1>1, Invariant, PTL

-----------------------------------------------------------------------------
\* Without that condition a count of references may be lost, and become negative.
AnyNode == [addr : Addr, fInbound : BOOLEAN, fNetworkNode : BOOLEAN, fOneShot : BOOLEAN,
            fDisconnect : BOOLEAN, sync : {"no", "start", "asked"},
            grantOutbound : {"none", "held", "posted"}, nRefCount : Int]

Claiming == {"open", "find", "load", "store", "connect", "push", "grant", "post", "clear", "move"}
Places == Claiming \cup {"idle", "flag", "oneshot"}

SlotTypes ==
    /\ node \in [Ptr -> AnyNode]
    /\ vNodes \subseteq Ptr /\ vNodesDisconnected \subseteq Ptr
    /\ semOutbound \in Nat /\ nTwice \in Nat
    /\ pc \in [Opener -> Places] /\ addrConnect \in [Opener -> Addr]
    /\ nRefLoaded \in [Opener -> Int] /\ pnode \in [Opener -> Ptr \cup {NULL}]
    /\ \A o \in Opener : pc[o] \in {"push", "load"} => pnode[o] \in Ptr

Bounded == semOutbound + Cardinality(Held) + Cardinality(Claims) <= nMaxOutbound + nTwice

SlotInv == SlotTypes /\ Bounded

\* A new node holds no slot.
LEMMA AnyNewNode ==
    ASSUME NEW a \in Addr, NEW b \in BOOLEAN
    PROVE  NewNode(a, b) \in AnyNode /\ NewNode(a, b).grantOutbound = "none"
BY DEF NewNode, AnyNode

\* Who holds a slot is a finite set.
LEMMA SlotsFinite ==
    /\ IsFiniteSet(Held) /\ Cardinality(Held) \in Nat
    /\ IsFiniteSet(Claims) /\ Cardinality(Claims) \in Nat
<1>1. Held \subseteq Ptr /\ Claims \subseteq Opener
    BY DEF Held, Claims
<1> QED BY <1>1, PeersAssumption, FS_Subset, FS_CardinalityType

\* A step that moves no slot; a node may lose the one it holds.
LEMMA SlotsUntouched ==
    ASSUME SlotInv, SlotTypes', UNCHANGED slots, Held' \subseteq Held, Claims' = Claims
    PROVE  SlotInv'
<1>1. Cardinality(Held') <= Cardinality(Held) /\ Cardinality(Held') \in Nat
    BY SlotsFinite, FS_Subset, FS_CardinalityType
<1> QED BY <1>1, SlotsFinite, PeersAssumption DEF SlotInv, SlotTypes, Bounded, slots

\* Posts for some nodes, which all lose their slots: those of the nodes that had
\* no slot any more are counted.
LEMMA SlotsPosted ==
    ASSUME SlotInv, NEW n \in Nat, NEW H \in SUBSET Held, Cardinality(H) <= n, Post(n, H)
    PROVE  /\ semOutbound' \in Nat /\ nTwice' \in Nat
           /\ Held' \subseteq Held \ H /\ Claims' = Claims => Bounded'
<1>1. /\ Cardinality(H) \in Nat /\ Cardinality(Held \ H) \in Nat
      /\ Cardinality(Held \ H) = Cardinality(Held) - Cardinality(H)
  <2>1. IsFiniteSet(H) /\ Held \cap H = H
      BY SlotsFinite, FS_Subset
  <2> QED BY <2>1, SlotsFinite, FS_Difference, FS_CardinalityType
<1>2. semOutbound' \in Nat /\ nTwice' \in Nat
    BY <1>1 DEF SlotInv, SlotTypes, Post
<1>3. ASSUME Held' \subseteq Held \ H, Claims' = Claims PROVE Bounded'
  <2>1. IsFiniteSet(Held \ H)
      BY SlotsFinite, FS_Subset
  <2>2. Cardinality(Held') <= Cardinality(Held \ H) /\ Cardinality(Held') \in Nat
      BY <1>3, <2>1, FS_Subset, FS_CardinalityType
  <2> QED BY <1>1, <1>2, <1>3, <2>2, SlotsFinite, PeersAssumption DEF SlotInv, SlotTypes, Bounded, Post
<1> QED BY <1>2, <1>3

\* The socket thread's Release.
LEMMA SlotsReleased ==
    ASSUME SlotInv, NEW S \in SUBSET Ptr, ReleaseGrants(S)
    PROVE  /\ semOutbound' \in Nat /\ nTwice' \in Nat
           /\ Held' \subseteq Held \ S /\ Claims' = Claims => Bounded'
<1> DEFINE G == {p \in S : fHaveGrant(p)}
<1>1. S \cap Held \subseteq G /\ G \subseteq Ptr /\ Held \ (S \cap Held) = Held \ S
    BY DEF Held, fHaveGrant
<1>2. Grants(S) = Cardinality(G)
    BY DEF Grants
<1> HIDE DEF G
<1>3. Cardinality(G) \in Nat /\ Cardinality(S \cap Held) <= Cardinality(G)
    BY <1>1, PeersAssumption, FS_Subset, FS_CardinalityType
<1>4. Post(Cardinality(G), S \cap Held)
    BY <1>2 DEF ReleaseGrants
<1> QED BY <1>1, <1>3, <1>4, SlotsPosted

\* AddRef and Release move no slot, nor does closing a socket.
LEMMA NodesKept ==
    ASSUME SlotTypes, NEW S \in SUBSET Ptr
    PROVE  /\ \A d \in {1, -1} :
                /\ Counted(S, d) \in [Ptr -> AnyNode]
                /\ \A p \in Ptr : Counted(S, d)[p].grantOutbound = node[p].grantOutbound
           /\ Closed(S) \in [Ptr -> AnyNode]
           /\ \A p \in Ptr : Closed(S)[p].grantOutbound = node[p].grantOutbound
<1>0. \A p \in Ptr : node[p] \in AnyNode
    BY DEF SlotTypes
<1>1. ASSUME NEW d \in {1, -1}, NEW p \in Ptr
      PROVE  Counted(S, d)[p] \in AnyNode /\ Counted(S, d)[p].grantOutbound = node[p].grantOutbound
  <2>1. Counted(S, d)[p] = node[p] \/ Counted(S, d)[p] = [node[p] EXCEPT !.nRefCount = @ + d]
      BY DEF Counted
  <2> QED BY <1>0, <2>1 DEF AnyNode
<1>2. ASSUME NEW p \in Ptr
      PROVE  Closed(S)[p] \in AnyNode /\ Closed(S)[p].grantOutbound = node[p].grantOutbound
  <2>1. Closed(S)[p] = node[p] \/ Closed(S)[p] = [node[p] EXCEPT !.fDisconnect = TRUE]
      BY DEF Closed
  <2> QED BY <1>0, <2>1 DEF AnyNode
<1>3. \A d \in {1, -1} : Counted(S, d) = [p \in Ptr |-> Counted(S, d)[p]]
    BY DEF Counted
<1>4. Closed(S) = [p \in Ptr |-> Closed(S)[p]]
    BY DEF Closed
<1> QED BY <1>1, <1>2, <1>3, <1>4

\* A step of the socket or the message thread that moves no slot.
LEMMA QuietThread ==
    ASSUME SlotInv, UNCHANGED <<lists, slots, openerVars>>, node' \in [Ptr -> AnyNode],
           \A p \in Ptr : node'[p].grantOutbound = node[p].grantOutbound
    PROVE  SlotInv'
<1>1. SlotTypes'
    BY DEF SlotInv, SlotTypes, lists, slots, openerVars
<1>2. Held' = Held /\ Claims' = Claims
    BY DEF Held, Claims, openerVars
<1> QED BY <1>1, <1>2, SlotsUntouched

\* The socket thread's steps.
LEMMA SocketSlots == ASSUME SlotInv, ThreadSocketHandler PROVE SlotInv'
<1>0. SlotTypes /\ \A p \in Ptr : node[p] \in AnyNode
    BY DEF SlotInv, SlotTypes
<1>1. CASE DisconnectNodes
  <2> DEFINE gone == {p \in vNodes : node[p].fDisconnect \/ node[p].nRefCount <= 0}
  <2>1. gone \in SUBSET Ptr
      BY <1>0 DEF SlotTypes
  <2>2. /\ ReleaseGrants(gone) /\ vNodes' \subseteq vNodes
        /\ vNodesDisconnected' = vNodesDisconnected \cup gone /\ UNCHANGED openerVars
        /\ node' = [p \in Ptr |-> IF p \in gone THEN Disconnected(node[p]) ELSE node[p]]
      BY <1>1 DEF DisconnectNodes
  <2> HIDE DEF gone
  <2>3. ASSUME NEW p \in Ptr
        PROVE  Disconnected(node[p]) \in AnyNode /\ Disconnected(node[p]).grantOutbound = "none"
    <3> DEFINE k == IF node[p].fNetworkNode \/ node[p].fInbound
                    THEN node[p].nRefCount - 1 ELSE node[p].nRefCount
    <3>1. k \in Int
        BY <1>0 DEF AnyNode
    <3>2. Disconnected(node[p]) =
            [node[p] EXCEPT !.grantOutbound = "none", !.fDisconnect = TRUE, !.nRefCount = k]
        BY DEF Disconnected
    <3> HIDE DEF k
    <3> QED BY <1>0, <3>1, <3>2 DEF AnyNode
  <2>4. node' \in [Ptr -> AnyNode] /\ Held' \subseteq Held \ gone
      BY <1>0, <2>1, <2>2, <2>3 DEF Held
  <2>5. Claims' = Claims
      BY <2>2 DEF Claims, openerVars
  <2>6. Bounded' /\ semOutbound' \in Nat /\ nTwice' \in Nat
      BY <2>1, <2>2, <2>4, <2>5, SlotsReleased
  <2> QED BY <1>0, <2>1, <2>2, <2>4, <2>6 DEF SlotInv, SlotTypes, openerVars
<1>2. CASE DeleteNodes
  <2> DEFINE unused == {p \in vNodesDisconnected : node[p].nRefCount <= 0}
  <2>1. unused \in SUBSET Ptr
      BY <1>0 DEF SlotTypes
  <2>2. /\ ReleaseGrants(unused) /\ vNodes' = vNodes
        /\ vNodesDisconnected' \subseteq vNodesDisconnected /\ UNCHANGED openerVars
        /\ node' = [p \in Ptr |-> IF p \in unused THEN Freed ELSE node[p]]
      BY <1>2 DEF DeleteNodes
  <2> HIDE DEF unused
  <2>3. Freed \in AnyNode /\ Freed.grantOutbound = "none"
      BY AnyNewNode DEF Freed, Addr
  <2>4. node' \in [Ptr -> AnyNode] /\ Held' \subseteq Held \ unused
      BY <1>0, <2>1, <2>2, <2>3 DEF Held
  <2>5. Claims' = Claims
      BY <2>2 DEF Claims, openerVars
  <2>6. Bounded' /\ semOutbound' \in Nat /\ nTwice' \in Nat
      BY <2>1, <2>2, <2>4, <2>5, SlotsReleased
  <2> QED BY <1>0, <2>1, <2>2, <2>4, <2>6 DEF SlotInv, SlotTypes, openerVars
<1>3. CASE AcceptConnections
  <2>0. UNCHANGED <<vNodesDisconnected, slots, openerVars>>
      BY <1>3 DEF AcceptConnections
  <2>1. CASE UNCHANGED <<heap, node, vNodes>>
      BY <1>0, <2>0, <2>1, QuietThread DEF lists, SlotTypes
  <2>2. ASSUME NEW p \in Ptr \ heap, NEW a \in InAddr,
               node' = [node EXCEPT ![p] = NewNode(a, TRUE)], vNodes' = vNodes \cup {p}
        PROVE  SlotInv'
    <3>1. NewNode(a, TRUE) \in AnyNode /\ NewNode(a, TRUE).grantOutbound = "none"
        BY AnyNewNode DEF Addr
    <3>2. SlotTypes'
        BY <1>0, <2>0, <2>2, <3>1 DEF SlotTypes, slots, openerVars
    <3>3. Held' \subseteq Held /\ Claims' = Claims
        BY <1>0, <2>0, <2>2, <3>1 DEF Held, Claims, SlotTypes, openerVars
    <3> QED BY <2>0, <3>2, <3>3, SlotsUntouched
  <2> QED BY <1>3, <2>1, <2>2 DEF AcceptConnections
<1>4. CASE CopyForSocket
    BY <1>0, <1>4, NodesKept, QuietThread DEF CopyForSocket, SlotTypes
<1>5. CASE ServiceSockets \/ ReleaseFromSocket
  <2>1. /\ UNCHANGED <<lists, slots, openerVars>>
        /\ \E S : node' = Closed(S) \/ node' = Counted(S, -1)
      BY <1>5 DEF ServiceSockets, ReleaseFromSocket
  <2>2. PICK S : node' = Closed(S) \/ node' = Counted(S, -1)
      BY <2>1
  <2>3. node' = Closed(S \cap Ptr) \/ node' = Counted(S \cap Ptr, -1)
      BY <2>2 DEF Closed, Counted
  <2> QED BY <1>0, <2>1, <2>3, NodesKept, QuietThread
<1> QED BY <1>1, <1>2, <1>3, <1>4, <1>5 DEF ThreadSocketHandler

\* The message thread's steps move no slot.
LEMMA MessageSlots == ASSUME SlotInv, ThreadMessageHandler PROVE SlotInv'
<1>0. SlotTypes /\ \A p \in Ptr : node[p] \in AnyNode
    BY DEF SlotInv, SlotTypes
<1>1. UNCHANGED <<lists, slots, openerVars>>
    BY DEF ThreadMessageHandler, CopyForMessages, ChooseSyncNode, StartSync, ProcessAndSend,
           ReleaseFromMessages
<1>2. CASE CopyForMessages
    BY <1>0, <1>1, <1>2, NodesKept, QuietThread DEF CopyForMessages, SlotTypes
<1>3. CASE ChooseSyncNode
    BY <1>0, <1>1, <1>3, QuietThread DEF ChooseSyncNode, SlotTypes
<1>4. CASE StartSync
  <2>1. node' = [node EXCEPT ![pnodeNewSync].sync = "start"]
      BY <1>4 DEF StartSync
  <2>2. \A p \in Ptr : node'[p] = node[p] \/ node'[p] = [node[p] EXCEPT !.sync = "start"]
      BY <1>0, <2>1 DEF SlotTypes
  <2>3. \A p \in Ptr : node'[p] \in AnyNode /\ node'[p].grantOutbound = node[p].grantOutbound
      BY <1>0, <2>2 DEF AnyNode
  <2>4. node' \in [Ptr -> AnyNode]
      BY <1>0, <2>1, <2>3 DEF SlotTypes
  <2> QED BY <1>1, <2>3, <2>4, QuietThread
<1>5. CASE ProcessAndSend
  <2> DEFINE open == {q \in copyM : ~ node[q].fDisconnect}
  <2>1. \A p \in Ptr : \/ node'[p] = Closed(open)[p]
                       \/ node'[p] = node[p]
                       \/ node'[p] = [node[p] EXCEPT !.sync = "asked"]
      BY <1>5 DEF ProcessAndSend
  <2> HIDE DEF open
  <2>2. \A p \in Ptr : Closed(open)[p] = Closed(open \cap Ptr)[p]
      BY DEF Closed
  <2>3. ASSUME NEW p \in Ptr
        PROVE  node'[p] \in AnyNode /\ node'[p].grantOutbound = node[p].grantOutbound
    <3>1. /\ Closed(open \cap Ptr)[p] \in AnyNode
          /\ Closed(open \cap Ptr)[p].grantOutbound = node[p].grantOutbound
        BY <1>0, NodesKept
    <3>2. /\ [node[p] EXCEPT !.sync = "asked"] \in AnyNode
          /\ [node[p] EXCEPT !.sync = "asked"].grantOutbound = node[p].grantOutbound
        BY <1>0 DEF AnyNode
    <3> QED BY <1>0, <2>1, <2>2, <3>1, <3>2
  <2>4. node' = [p \in Ptr |-> node'[p]]
      BY <1>5 DEF ProcessAndSend
  <2> QED BY <1>1, <2>3, <2>4, QuietThread
<1>6. CASE ReleaseFromMessages
  <2>1. node' = Counted(copyM \cap Ptr, -1)
      BY <1>6 DEF ReleaseFromMessages, Counted
  <2> QED BY <1>0, <1>1, <2>1, NodesKept, QuietThread
<1> QED BY <1>2, <1>3, <1>4, <1>5, <1>6 DEF ThreadMessageHandler

\* A step of opener o that leaves the slots to those who hold them.
LEMMA QuietSlots ==
    ASSUME SlotInv, NEW o \in Opener, NEW l \in Places, Goto(o, l), UNCHANGED slots,
           node' \in [Ptr -> AnyNode], Held' \subseteq Held,
           vNodes' \subseteq Ptr, vNodesDisconnected' = vNodesDisconnected,
           addrConnect' \in [Opener -> Addr], nRefLoaded' \in [Opener -> Int],
           pnode' = pnode \/ \E p \in Ptr \cup {NULL} : pnode' = [pnode EXCEPT ![o] = p],
           l \in {"push", "load"} => pnode'[o] \in Ptr,
           pc[o] \in Claiming <=> l \in Claiming
    PROVE  SlotInv'
<1>1. pc' = [pc EXCEPT ![o] = l] /\ pc \in [Opener -> Places]
    BY DEF Goto, SlotInv, SlotTypes
<1>2. SlotTypes'
    BY <1>1 DEF SlotInv, SlotTypes, slots
<1>3. Claims' = Claims
    BY <1>1 DEF Claims, Claiming
<1> QED BY <1>2, <1>3, SlotsUntouched

\* An opener takes a slot, gives it up, posts its node's, or moves its own to it.
LEMMA OpenerSlots ==
    ASSUME SlotInv, NEW o \in Opener, AcquireGrant(o) \/ OpenNetworkConnection(o)
    PROVE  SlotInv'
<1>0. /\ SlotTypes /\ Bounded /\ node \in [Ptr -> AnyNode] /\ pc \in [Opener -> Places]
      /\ NULL \in Addr
    BY DEF SlotInv, SlotTypes, Addr
<1>1. CASE AcquireGrant(o)
  <2>1. SlotTypes'
      BY <1>0, <1>1 DEF AcquireGrant, Goto, SlotTypes, Places, Claiming, Addr, others, lists
  <2>2. Held' = Held /\ o \notin Claims /\ Claims' = Claims \cup {o}
      BY <1>0, <1>1 DEF AcquireGrant, Goto, Held, Claims
  <2>3. Cardinality(Claims') = Cardinality(Claims) + 1
      BY <2>2, SlotsFinite, FS_AddElement
  <2>4. Bounded'
      BY <1>0, <1>1, <2>2, <2>3, SlotsFinite, PeersAssumption DEF AcquireGrant, Bounded, SlotTypes
  <2> QED BY <2>1, <2>4 DEF SlotInv
<1>2. CASE GiveUp(o) /\ pc[o] \in {"open", "connect"}
  <2>1. SlotTypes'
      BY <1>0, <1>2 DEF GiveUp, Goto, SlotTypes, Places, others, lists
  <2>2. Held' = Held /\ o \in Claims /\ Claims' = Claims \ {o}
      BY <1>0, <1>2 DEF GiveUp, Goto, Held, Claims
  <2>3. Cardinality(Claims') = Cardinality(Claims) - 1
      BY <2>2, SlotsFinite, FS_RemoveElement
  <2>4. Bounded'
      BY <1>0, <1>2, <2>2, <2>3, SlotsFinite, PeersAssumption DEF GiveUp, Bounded, SlotTypes
  <2> QED BY <2>1, <2>4 DEF SlotInv
<1>3. ASSUME NEW l \in Claiming \ {"push"}, pc[o] \in Claiming, Goto(o, l), UNCHANGED <<node, slots>>,
             vNodes' \subseteq Ptr, vNodesDisconnected' = vNodesDisconnected,
             addrConnect' = addrConnect, nRefLoaded' \in [Opener -> Int],
             pnode' = pnode \/ \E p \in Ptr \cup {NULL} : pnode' = [pnode EXCEPT ![o] = p],
             l = "load" => pnode'[o] \in Ptr
      PROVE  SlotInv'
  <2>1. Held' = Held /\ l \in Places
      BY <1>3 DEF Held, Places
  <2> QED BY <1>0, <1>3, <2>1, QuietSlots DEF SlotTypes
<1>4. CASE CheckExisting(o)
  <2>1. CASE FindNode(addrConnect[o]) = {}
      BY <1>0, <1>3, <1>4, <2>1 DEF CheckExisting, Claiming, others, lists, SlotTypes
  <2> QED BY <1>2, <1>4, <2>1 DEF CheckExisting
<1>5. CASE LookForExisting(o)
  <2>1. /\ pc[o] = "find"
        /\ \/ Goto(o, "connect") /\ pnode' = pnode
           \/ Goto(o, "load") /\ \E p \in Ptr : pnode' = [pnode EXCEPT ![o] = p]
        /\ UNCHANGED <<node, slots, vNodes, vNodesDisconnected, addrConnect, nRefLoaded>>
      BY <1>0, <1>5 DEF LookForExisting, FindNode, others, lists, SlotTypes
  <2>2. "connect" \in Claiming \ {"push"} /\ "load" \in Claiming \ {"push"} /\ pc[o] \in Claiming
      BY <2>1 DEF Claiming
  <2>3. CASE Goto(o, "connect") /\ pnode' = pnode
      BY <1>0, <1>3, <2>1, <2>2, <2>3 DEF SlotTypes
  <2>4. ASSUME NEW p \in Ptr, Goto(o, "load"), pnode' = [pnode EXCEPT ![o] = p] PROVE SlotInv'
    <3>1. pnode'[o] \in Ptr
        BY <1>0, <2>4 DEF SlotTypes
    <3> QED BY <1>0, <1>3, <2>1, <2>2, <2>4, <3>1 DEF SlotTypes
  <2> QED BY <2>1, <2>3, <2>4
<1>6. CASE LoadRefCount(o)
  <2>1. pnode[o] \in Ptr
      BY <1>0, <1>6 DEF LoadRefCount, SlotTypes
  <2>2. node[pnode[o]].nRefCount \in Int
      BY <1>0, <2>1 DEF AnyNode
  <2> QED BY <1>0, <1>3, <1>6, <2>2 DEF LoadRefCount, Claiming, others, lists, SlotTypes
<1>7. CASE StoreRefCount(o)
  <2>1. nRefLoaded[o] + 1 \in Int
      BY <1>0 DEF SlotTypes
  <2>2. node' = [node EXCEPT ![pnode[o]].nRefCount = nRefLoaded[o] + 1]
      BY <1>7 DEF StoreRefCount
  <2>3. \A p \in Ptr : node'[p] = node[p] \/ node'[p] = [node[p] EXCEPT !.nRefCount = nRefLoaded[o] + 1]
      BY <1>0, <2>2
  <2>4. ASSUME NEW p \in Ptr
        PROVE  node'[p] \in AnyNode /\ node'[p].grantOutbound = node[p].grantOutbound
    <3>1. node[p] \in AnyNode
        BY <1>0
    <3> QED BY <2>1, <2>3, <3>1 DEF AnyNode
  <2>5. node' \in [Ptr -> AnyNode] /\ Held' = Held
      BY <1>0, <2>2, <2>4 DEF Held
  <2>6. nRefLoaded' \in [Opener -> Int]
      BY <1>0, <1>7 DEF StoreRefCount, SlotTypes
  <2> QED BY <1>0, <1>7, <2>5, <2>6, QuietSlots DEF StoreRefCount, Places, Claiming, others, lists, SlotTypes
<1>8. CASE ConnectSocket(o)
  <2>1. ASSUME NEW p \in Ptr \ heap, Goto(o, "push"),
               node' = [node EXCEPT ![p] = NewNode(addrConnect[o], FALSE)],
               pnode' = [pnode EXCEPT ![o] = p],
               UNCHANGED <<others, slots, addrConnect, nRefLoaded>>, pc[o] = "connect"
        PROVE  SlotInv'
    <3> DEFINE n == NewNode(addrConnect[o], FALSE)
    <3>1. n \in AnyNode /\ n.grantOutbound = "none"
        BY <1>0, AnyNewNode DEF SlotTypes
    <3> HIDE DEF n
    <3>2. node' = [node EXCEPT ![p] = n]
        BY <2>1 DEF n
    <3>3. node' \in [Ptr -> AnyNode] /\ Held' \subseteq Held
        BY <1>0, <2>1, <3>1, <3>2 DEF Held
    <3>4. pnode'[o] \in Ptr
        BY <1>0, <2>1 DEF SlotTypes
    <3> QED BY <1>0, <2>1, <3>3, <3>4, QuietSlots DEF Places, Claiming, others, lists, SlotTypes
  <2> QED BY <1>2, <1>8, <2>1 DEF ConnectSocket
<1>9. CASE PushNode(o)
    BY <1>0, <1>3, <1>9 DEF PushNode, Claiming, SlotTypes
<1>10. CASE LoadGrant(o)
    BY <1>0, <1>3, <1>10 DEF LoadGrant, Claiming, others, lists, SlotTypes
<1>11. CASE PostGrant(o)
  <2> DEFINE p == pnode[o]
             H == {p} \cap Held
  <2>1. node' = [node EXCEPT ![p].grantOutbound = IF @ = "held" THEN "posted" ELSE @] /\ Post(1, H)
      BY <1>11 DEF PostGrant
  <2>2. ASSUME NEW q \in Ptr
        PROVE  /\ node'[q] \in AnyNode
               /\ (node'[q].grantOutbound = "held" => q \in Held /\ q # p)
    <3>1. CASE q # p
        BY <1>0, <2>1, <3>1 DEF Held
    <3>2. CASE q = p
      <4>1. node'[q] = [node[q] EXCEPT !.grantOutbound = IF @ = "held" THEN "posted" ELSE @]
          BY <1>0, <2>1, <3>2
      <4> QED BY <1>0, <4>1 DEF AnyNode
    <3> QED BY <3>1, <3>2
  <2>3. node' \in [Ptr -> AnyNode] /\ Held' \subseteq Held \ H
      BY <1>0, <2>1, <2>2 DEF Held
  <2>4. /\ pc[o] = "post" /\ pc' = [pc EXCEPT ![o] = "clear"]
        /\ UNCHANGED <<vNodes, vNodesDisconnected, pnode, addrConnect, nRefLoaded>>
      BY <1>11 DEF PostGrant, Goto, others, lists
  <2>5. Claims' = Claims
      BY <1>0, <2>4 DEF Claims
  <2>6. H \in SUBSET Held /\ Cardinality(H) <= 1
    <3>1. H \subseteq {p} /\ H \subseteq Held
        OBVIOUS
    <3>2. IsFiniteSet({p}) /\ Cardinality({p}) = 1
        BY FS_Singleton
    <3> HIDE DEF H, p
    <3> QED BY <3>1, <3>2, FS_Subset
  <2> HIDE DEF H
  <2>7. Bounded' /\ semOutbound' \in Nat /\ nTwice' \in Nat
      BY <2>1, <2>3, <2>5, <2>6, SlotsPosted
  <2> QED BY <1>0, <2>3, <2>4, <2>7 DEF SlotInv, SlotTypes, Places, Claiming
<1>12. CASE ClearGrant(o)
  <2>1. node' = [node EXCEPT ![pnode[o]].grantOutbound = "none"]
      BY <1>12 DEF ClearGrant
  <2>2. \A p \in Ptr : node'[p] = node[p] \/ node'[p] = [node[p] EXCEPT !.grantOutbound = "none"]
      BY <1>0, <2>1
  <2>3. ASSUME NEW p \in Ptr
        PROVE  node'[p] \in AnyNode /\ (node'[p].grantOutbound = "held" => p \in Held)
    <3>1. node[p] \in AnyNode
        BY <1>0
    <3> QED BY <2>2, <3>1 DEF AnyNode, Held
  <2>4. node' \in [Ptr -> AnyNode] /\ Held' \subseteq Held
      BY <1>0, <2>1, <2>3 DEF Held
  <2> QED BY <1>0, <1>12, <2>4, QuietSlots DEF ClearGrant, Places, Claiming, others, lists, SlotTypes
<1>13. CASE MoveGrant(o)
  <2> DEFINE p == pnode[o]
  <2>1. node' = [node EXCEPT ![p].grantOutbound = "held"]
      BY <1>13 DEF MoveGrant
  <2>2. \A q \in Ptr : \/ node'[q] = node[q]
                       \/ node'[q] = [node[q] EXCEPT !.grantOutbound = "held"] /\ q = p
      BY <1>0, <2>1
  <2>3. ASSUME NEW q \in Ptr
        PROVE  node'[q] \in AnyNode /\ (node'[q].grantOutbound = "held" => q \in Held \cup {p})
    <3>1. node[q] \in AnyNode
        BY <1>0
    <3> QED BY <2>2, <3>1 DEF AnyNode, Held
  <2>4. node' \in [Ptr -> AnyNode] /\ Held' \subseteq Held \cup {p}
      BY <1>0, <2>1, <2>3 DEF Held
  <2>5. /\ pc[o] = "move" /\ pc' = [pc EXCEPT ![o] = "flag"]
        /\ UNCHANGED <<vNodes, vNodesDisconnected, semOutbound, nTwice, pnode, addrConnect, nRefLoaded>>
      BY <1>13 DEF MoveGrant, Goto, others, lists, slots
  <2>6. o \in Claims /\ Claims' = Claims \ {o}
      BY <1>0, <2>5 DEF Claims
  <2>7. Cardinality(Claims') = Cardinality(Claims) - 1
      BY <2>6, SlotsFinite, FS_RemoveElement
  <2>8. Cardinality(Held') \in Nat /\ Cardinality(Held') <= Cardinality(Held) + 1
    <3>1. /\ IsFiniteSet(Held \cup {p}) /\ Cardinality(Held \cup {p}) \in Nat
          /\ Cardinality(Held \cup {p}) <= Cardinality(Held) + 1
      <4> HIDE DEF p
      <4>1. CASE p \in Held
        <5>1. Held \cup {p} = Held
            BY <4>1
        <5> QED BY <5>1, SlotsFinite
      <4>2. CASE p \notin Held
        <5>1. IsFiniteSet(Held \cup {p}) /\ Cardinality(Held \cup {p}) = Cardinality(Held) + 1
            BY <4>2, SlotsFinite, FS_AddElement
        <5> QED BY <5>1, SlotsFinite
      <4> QED BY <4>1, <4>2
    <3> HIDE DEF p
    <3>2. Cardinality(Held') \in Nat /\ Cardinality(Held') <= Cardinality(Held \cup {p})
        BY <2>4, <3>1, FS_Subset, FS_CardinalityType
    <3> QED BY <3>1, <3>2, SlotsFinite
  <2>9. Bounded'
      BY <1>0, <2>5, <2>7, <2>8, SlotsFinite, PeersAssumption DEF Bounded, SlotTypes
  <2> QED BY <1>0, <2>4, <2>5, <2>9 DEF SlotInv, SlotTypes, Places
<1>14. CASE SetNetworkNode(o) \/ SetOneShot(o)
  <2>1. /\ UNCHANGED <<slots, vNodes, vNodesDisconnected, nRefLoaded>>
        /\ pc[o] \in {"flag", "oneshot"} /\ \E l \in {"oneshot", "idle"} : Goto(o, l)
        /\ (addrConnect' = addrConnect \/ addrConnect' = [addrConnect EXCEPT ![o] = NULL])
        /\ (pnode' = pnode \/ pnode' = [pnode EXCEPT ![o] = NULL])
        /\ \/ node' = [node EXCEPT ![pnode[o]].fNetworkNode = TRUE]
           \/ node' = [node EXCEPT ![pnode[o]].fOneShot = TRUE]
      BY <1>14 DEF SetNetworkNode, SetOneShot, Done, others, lists
  <2>2. \A p \in Ptr : \/ node'[p] = node[p]
                       \/ node'[p] = [node[p] EXCEPT !.fNetworkNode = TRUE]
                       \/ node'[p] = [node[p] EXCEPT !.fOneShot = TRUE]
      BY <1>0, <2>1
  <2>3. ASSUME NEW p \in Ptr
        PROVE  node'[p] \in AnyNode /\ node'[p].grantOutbound = node[p].grantOutbound
    <3>1. node[p] \in AnyNode
        BY <1>0
    <3> QED BY <2>2, <3>1 DEF AnyNode
  <2>4. node' \in [Ptr -> AnyNode] /\ Held' \subseteq Held
      BY <1>0, <2>1, <2>3 DEF Held
  <2>5. addrConnect' \in [Opener -> Addr]
      BY <1>0, <2>1 DEF SlotTypes
  <2> QED BY <1>0, <2>1, <2>4, <2>5, QuietSlots DEF SlotTypes, Places, Claiming
<1> QED BY <1>1, <1>4, <1>5, <1>6, <1>7, <1>8, <1>9, <1>10, <1>11, <1>12, <1>13, <1>14
        DEF OpenNetworkConnection

\* Outbound connections go beyond MAX_OUTBOUND_CONNECTIONS only by the posts that
\* MoveTo makes for a grant someone else has returned since it tested fHaveGrant,
\* whatever the openers, the disconnections and the deletions do; and not at all
\* while every address is one thread's alone (CSemaphoreGrant, its MoveTo and its
\* destructor).
THEOREM SlotsNeverExceeded == Spec => []SlotsNotExceeded
<1>1. Init => SlotInv
  <2> SUFFICES ASSUME Init PROVE SlotInv
      OBVIOUS
  <2>1. Freed \in AnyNode /\ Freed.grantOutbound = "none"
      BY AnyNewNode DEF Freed, Addr
  <2>2. SlotTypes
      BY <2>1, PeersAssumption DEF Init, SlotTypes, Places, Addr
  <2>3. Held = {} /\ Claims = {} /\ semOutbound = nMaxOutbound /\ nTwice = 0
      BY <2>1 DEF Init, Held, Claims
  <2> QED BY <2>2, <2>3, FS_EmptySet, PeersAssumption DEF SlotInv, Bounded
<1>2. SlotInv /\ [Next]_vars => SlotInv'
  <2> SUFFICES ASSUME SlotInv, [Next]_vars PROVE SlotInv'
      OBVIOUS
  <2>1. CASE UNCHANGED vars
      BY <2>1, QuietThread DEF vars, SlotInv, SlotTypes
  <2> QED BY <2>1, SocketSlots, MessageSlots, OpenerSlots DEF Next
<1>3. SlotInv => Bounded
    BY DEF SlotInv
<1>4. Spec => [](Apart => nTwice = 0)
  <2>1. CASE Apart
    <3>1. IInv => (Apart => nTwice = 0)
        BY DEF IInv, Single
    <3> QED BY <2>1, <3>1, Invariant, PTL
  <2>2. CASE ~ Apart
    <3>1. Apart => nTwice = 0
        BY <2>2
    <3> QED BY <3>1, PTL
  <2> QED BY <2>1, <2>2
<1>5. Bounded /\ (Apart => nTwice = 0) => SlotsNotExceeded
    BY DEF Bounded, SlotsNotExceeded
<1> QED BY <1>1, <1>2, <1>3, <1>4, <1>5, PTL DEF Spec
=============================================================================
