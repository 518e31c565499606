------------------------------- MODULE Peers --------------------------------
(***************************************************************************)
(* The life of a CNode in net.cpp: made by a thread that opens connections *)
(* or by the socket thread that accepts them, used by the socket thread    *)
(* and the message thread through copies of vNodes, taken out of vNodes    *)
(* when it disconnects, deleted when its reference count is zero.          *)
(*                                                                         *)
(* A step is what a thread does under cs_vNodes, or one unlocked access to *)
(* a CNode.  Ptr are the addresses malloc may return; a deleted node's     *)
(* address may be used again, and a write through a stale pointer changes  *)
(* whatever is there.                                                      *)
(***************************************************************************)
EXTENDS Integers, FiniteSets

CONSTANTS
    Ptr,            \* addresses of CNode objects
    Opener,         \* threads that call OpenNetworkConnection
    Target,         \* [Opener -> SUBSET Addr], the addresses each one tries
    OneShot,        \* the openers that connect for one exchange of addresses
    InAddr,         \* addresses of peers that connect to us
    SyncAddr,       \* addresses of peers that serve blocks (not fClient)
    nMaxOutbound,   \* MAX_OUTBOUND_CONNECTIONS
    nMaxInbound,    \* -maxconnections minus that
    MaxTwice,       \* bound on nTwice
    NULL

VARIABLES
    heap, node,                 \* the allocated addresses and what is stored there
    vNodes, vNodesDisconnected, pnodeSync,
    semOutbound,                \* free outbound slots
    nTwice,                     \* history: posts of a slot that was no longer held
    pcS, copyS,                 \* ThreadSocketHandler and its vNodesCopy
    pcM, copyM, pnodeNewSync,   \* ThreadMessageHandler
    pc, pnode, addrConnect, nRefLoaded  \* the openers

socketVars == <<pcS, copyS>>
messageVars == <<pcM, copyM, pnodeNewSync>>
openerVars == <<pc, pnode, addrConnect, nRefLoaded>>
lists == <<vNodes, vNodesDisconnected>>
slots == <<semOutbound, nTwice>>
vars == <<heap, node, lists, pnodeSync, slots, socketVars, messageVars, openerVars>>

ASSUME PeersAssumption ==
    /\ DOMAIN Target = Opener
    /\ OneShot \subseteq Opener
    /\ nMaxOutbound \in Nat \ {0} /\ nMaxInbound \in Nat /\ MaxTwice \in Nat
    /\ IsFiniteSet(Ptr) /\ IsFiniteSet(Opener) /\ NULL \notin Ptr

Addr == (UNION {Target[o] : o \in Opener}) \cup InAddr \cup {NULL}

CNode == [addr : Addr, fInbound : BOOLEAN, fNetworkNode : BOOLEAN, fOneShot : BOOLEAN,
          fDisconnect : BOOLEAN, sync : {"no", "start", "asked"},
          grantOutbound : {"none", "held", "posted"}, nRefCount : Nat]

\* A new CNode, with the reference its maker takes.
NewNode(a, inbound) ==
    [addr |-> a, fInbound |-> inbound, fNetworkNode |-> FALSE, fOneShot |-> FALSE,
     fDisconnect |-> FALSE, sync |-> "no", grantOutbound |-> "none", nRefCount |-> 1]

\* What is read at an address where there is no node.
Freed == NewNode(NULL, FALSE)

Init ==
    /\ heap = {} /\ node = [p \in Ptr |-> Freed]
    /\ vNodes = {} /\ vNodesDisconnected = {} /\ pnodeSync = NULL
    /\ semOutbound = nMaxOutbound /\ nTwice = 0
    /\ pcS = "disconnect" /\ copyS = {}
    /\ pcM = "copy" /\ copyM = {} /\ pnodeNewSync = NULL
    /\ pc = [o \in Opener |-> "idle"] /\ pnode = [o \in Opener |-> NULL]
    /\ addrConnect = [o \in Opener |-> NULL] /\ nRefLoaded = [o \in Opener |-> 0]

FindNode(a) == {p \in vNodes : node[p].addr = a}

\* AddRef or Release of every node of S.
Counted(S, d) == [p \in Ptr |-> IF p \in S THEN [node[p] EXCEPT !.nRefCount = @ + d] ELSE node[p]]

\* CloseSocketDisconnect of every node of S.
Closed(S) == [p \in Ptr |-> IF p \in S THEN [node[p] EXCEPT !.fDisconnect = TRUE] ELSE node[p]]
SyncUnless(S) == IF pnodeSync \in S THEN NULL ELSE pnodeSync

-----------------------------------------------------------------------------
(* CSemaphoreGrant.  Release tests fHaveGrant, posts and clears it with no lock  *)
(* of its own, and MoveTo releases the grant of the node it moves to.  A grant   *)
(* is "none" (fHaveGrant is false), "held", or "posted": fHaveGrant is still     *)
(* true, but the slot has been returned.                                         *)

fHaveGrant(p) == node[p].grantOutbound # "none"
Grants(S) == Cardinality({p \in S : fHaveGrant(p)})
Held == {p \in Ptr : node[p].grantOutbound = "held"}

\* n posts for nodes of which only those in H held a slot.
Post(n, H) ==
    /\ semOutbound' = semOutbound + n
    /\ nTwice' = nTwice + n - Cardinality(H) /\ nTwice' <= MaxTwice

\* Release of the grants of S, by the socket thread.  Its three accesses are one
\* step: those of MoveTo are not, and come between in every order that matters.
ReleaseGrants(S) == Post(Grants(S), S \cap Held)

-----------------------------------------------------------------------------
(* ThreadSocketHandler *)

\* Faults: the reference of a node that connected to us is not released; that of
\* a node its opener still works on is.
DisconnectedOutbound(n) ==
    [n EXCEPT !.grantOutbound = "none", !.fDisconnect = TRUE,
              !.nRefCount = IF n.fNetworkNode THEN @ - 1 ELSE @]
DisconnectedAlways(n) ==
    [n EXCEPT !.grantOutbound = "none", !.fDisconnect = TRUE, !.nRefCount = @ - 1]

\* A node that is taken out of vNodes: its slot and its maker's reference.
Disconnected(n) ==
    [n EXCEPT !.grantOutbound = "none", !.fDisconnect = TRUE,
              !.nRefCount = IF n.fNetworkNode \/ n.fInbound THEN @ - 1 ELSE @]

\* Disconnect nodes: out of vNodes, outbound slot released, socket closed, the
\* maker's reference released.
DisconnectNodes ==
    LET gone == {p \in vNodes : node[p].fDisconnect \/ node[p].nRefCount <= 0}
    IN  /\ pcS = "disconnect" /\ pcS' = "delete"
        /\ vNodes' = vNodes \ gone
        /\ ReleaseGrants(gone)
        /\ node' = [p \in Ptr |-> IF p \in gone THEN Disconnected(node[p]) ELSE node[p]]
        /\ pnodeSync' = SyncUnless(gone)
        /\ vNodesDisconnected' = vNodesDisconnected \cup gone
        /\ UNCHANGED <<heap, copyS, messageVars, openerVars>>

\* Fault: a node is deleted as soon as it is disconnected.
DeleteEveryNode ==
    /\ pcS = "delete" /\ pcS' = "accept"
    /\ heap' = heap \ vNodesDisconnected
    /\ ReleaseGrants(vNodesDisconnected)
    /\ vNodesDisconnected' = {}
    /\ node' = [p \in Ptr |-> IF p \in vNodesDisconnected THEN Freed ELSE node[p]]
    /\ UNCHANGED <<vNodes, pnodeSync, copyS, messageVars, openerVars>>

\* Delete disconnected nodes, once no thread has a reference.  The destructor
\* of grantOutbound returns a slot that is still held.
DeleteNodes ==
    LET unused == {p \in vNodesDisconnected : node[p].nRefCount <= 0}
    IN  /\ pcS = "delete" /\ pcS' = "accept"
        /\ vNodesDisconnected' = vNodesDisconnected \ unused
        /\ heap' = heap \ unused
        /\ ReleaseGrants(unused)
        /\ node' = [p \in Ptr |-> IF p \in unused THEN Freed ELSE node[p]]
        /\ UNCHANGED <<vNodes, pnodeSync, copyS, messageVars, openerVars>>

\* Accept new connections, up to the limit.  A poll without a caller, and a
\* banned one, leave everything as it is.
AcceptConnections ==
    /\ pcS = "accept" /\ pcS' = "copy"
    /\ \/ UNCHANGED <<heap, node, vNodes>>
       \/ \E p \in Ptr \ heap : \E a \in InAddr :
            /\ Cardinality({q \in vNodes : node[q].fInbound}) < nMaxInbound
            /\ heap' = heap \cup {p}
            /\ node' = [node EXCEPT ![p] = NewNode(a, TRUE)]
            /\ vNodes' = vNodes \cup {p}
    /\ UNCHANGED <<vNodesDisconnected, pnodeSync, slots, copyS, messageVars, openerVars>>

\* Service each socket: a reference for every node, ...
CopyForSocket ==
    /\ pcS = "copy" /\ pcS' = "service"
    /\ copyS' = vNodes
    /\ node' = Counted(vNodes, 1)
    /\ UNCHANGED <<heap, lists, pnodeSync, slots, messageVars, openerVars>>

\* ... errors and flood control close sockets, inactivity only sets fDisconnect ...
ServiceSockets ==
    /\ pcS = "service" /\ pcS' = "release"
    /\ \E error \in SUBSET copyS : \E idle \in SUBSET copyS :
         /\ node' = Closed(error \cup idle)
         /\ pnodeSync' = SyncUnless(error)
    /\ UNCHANGED <<heap, lists, slots, copyS, messageVars, openerVars>>

\* ... and the references go back.
ReleaseFromSocket ==
    /\ pcS = "release" /\ pcS' = "disconnect"
    /\ node' = Counted(copyS, -1)
    /\ copyS' = {}
    /\ UNCHANGED <<heap, lists, pnodeSync, slots, messageVars, openerVars>>

ThreadSocketHandler ==
    \/ DisconnectNodes \/ DeleteNodes \/ AcceptConnections
    \/ CopyForSocket \/ ServiceSockets \/ ReleaseFromSocket

-----------------------------------------------------------------------------
(* ThreadMessageHandler *)

\* The message thread's references.  If one of the nodes is the sync node,
\* StartSync is not called.
CopyForMessages ==
    /\ pcM = "copy" /\ pcM' = IF pnodeSync \in vNodes THEN "process" ELSE "sync"
    /\ copyM' = vNodes
    /\ node' = Counted(vNodes, 1)
    /\ UNCHANGED <<heap, lists, pnodeSync, slots, socketVars, pnodeNewSync, openerVars>>

\* StartSync looks for a candidate.  Which of the nodes have shaken hands, and
\* which was heard from last, is open.
ChooseSyncNode ==
    /\ pcM = "sync"
    /\ \/ pcM' = "process" /\ UNCHANGED pnodeNewSync
       \/ /\ pcM' = "start"
          /\ pnodeNewSync' \in {p \in copyM : /\ node[p].addr \in SyncAddr
                                              /\ ~ node[p].fDisconnect /\ ~ node[p].fOneShot}
    /\ UNCHANGED <<heap, node, lists, pnodeSync, slots, socketVars, copyM, openerVars>>

\* StartSync makes it the sync node.
StartSync ==
    /\ pcM = "start" /\ pcM' = "process"
    /\ node' = [node EXCEPT ![pnodeNewSync].sync = "start"]
    /\ pnodeSync' = pnodeNewSync
    /\ pnodeNewSync' = NULL
    /\ UNCHANGED <<heap, lists, slots, socketVars, copyM, openerVars>>

\* ProcessMessages may end in a disconnection, with the socket closed or left to
\* the socket thread; SendMessages sends the getblocks that fStartSync asks for.
ProcessAndSend ==
    LET open == {p \in copyM : ~ node[p].fDisconnect}
    IN  /\ pcM = "process" /\ pcM' = "release"
        /\ \E banned \in SUBSET open : \E flagged \in SUBSET open :
             /\ node' = [p \in Ptr |->
                  IF p \in banned \cup flagged THEN Closed(open)[p]
                  ELSE IF p \in open /\ node[p].sync = "start" THEN [node[p] EXCEPT !.sync = "asked"]
                  ELSE node[p]]
             /\ pnodeSync' = SyncUnless(banned)
        /\ UNCHANGED <<heap, lists, slots, socketVars, copyM, pnodeNewSync, openerVars>>

\* Fault: the references of whatever is in vNodes now go back.
ReleaseCurrent ==
    /\ pcM = "release" /\ pcM' = "copy"
    /\ node' = Counted(vNodes, -1)
    /\ copyM' = {}
    /\ UNCHANGED <<heap, lists, pnodeSync, slots, socketVars, pnodeNewSync, openerVars>>

ReleaseFromMessages ==
    /\ pcM = "release" /\ pcM' = "copy"
    /\ node' = Counted(copyM, -1)
    /\ copyM' = {}
    /\ UNCHANGED <<heap, lists, pnodeSync, slots, socketVars, pnodeNewSync, openerVars>>

ThreadMessageHandler ==
    \/ CopyForMessages \/ ChooseSyncNode \/ StartSync \/ ProcessAndSend \/ ReleaseFromMessages

-----------------------------------------------------------------------------
(* ThreadOpenConnections, ThreadOpenAddedConnections, ProcessOneShot *)

others == <<lists, pnodeSync, socketVars, messageVars>>
Goto(o, l) == pc' = [pc EXCEPT ![o] = l]

\* An opener takes a free outbound slot and picks an address.  (The openers that
\* pass no grant, for -connect and addnode onetry, take part in no count of slots
\* and are left out.)
AcquireGrant(o) ==
    /\ pc[o] = "idle" /\ Goto(o, "open")
    /\ semOutbound > 0 /\ semOutbound' = semOutbound - 1
    /\ \E a \in Target[o] : addrConnect' = [addrConnect EXCEPT ![o] = a]
    /\ UNCHANGED <<heap, node, nTwice, others, pnode, nRefLoaded>>

\* OpenNetworkConnection returns false: the grant is released.
GiveUp(o) ==
    /\ Goto(o, "idle")
    /\ semOutbound' = semOutbound + 1
    /\ addrConnect' = [addrConnect EXCEPT ![o] = NULL]
    /\ UNCHANGED <<heap, node, nTwice, others, pnode, nRefLoaded>>

\* OpenNetworkConnection: not to a peer we have.
CheckExisting(o) ==
    /\ pc[o] = "open"
    /\ IF FindNode(addrConnect[o]) # {} THEN GiveUp(o)
       ELSE /\ Goto(o, IF o \in OneShot THEN "connect" ELSE "find")
            /\ UNCHANGED <<heap, node, others, slots, pnode, addrConnect, nRefLoaded>>

\* ConnectNode looks again.
LookForExisting(o) ==
    /\ pc[o] = "find"
    /\ IF FindNode(addrConnect[o]) = {} THEN Goto(o, "connect") /\ UNCHANGED pnode
       ELSE /\ Goto(o, "load")
            /\ \E p \in FindNode(addrConnect[o]) : pnode' = [pnode EXCEPT ![o] = p]
    /\ UNCHANGED <<heap, node, others, slots, addrConnect, nRefLoaded>>

\* AddRef of the node it found, after cs_vNodes is released: ++ reads and writes.
LoadRefCount(o) ==
    /\ pc[o] = "load" /\ Goto(o, "store")
    /\ nRefLoaded' = [nRefLoaded EXCEPT ![o] = node[pnode[o]].nRefCount]
    /\ UNCHANGED <<heap, node, others, slots, pnode, addrConnect>>

StoreRefCount(o) ==
    /\ pc[o] = "store" /\ Goto(o, "grant")
    /\ node' = [node EXCEPT ![pnode[o]].nRefCount = nRefLoaded[o] + 1]
    /\ nRefLoaded' = [nRefLoaded EXCEPT ![o] = 0]
    /\ UNCHANGED <<heap, others, slots, pnode, addrConnect>>

\* ConnectSocket fails, or ConnectNode makes a CNode.
ConnectSocket(o) ==
    /\ pc[o] = "connect"
    /\ \/ GiveUp(o)
       \/ \E p \in Ptr \ heap :
            /\ Goto(o, "push")
            /\ heap' = heap \cup {p}
            /\ node' = [node EXCEPT ![p] = NewNode(addrConnect[o], FALSE)]
            /\ pnode' = [pnode EXCEPT ![o] = p]
            /\ UNCHANGED <<others, slots, addrConnect, nRefLoaded>>

PushNode(o) ==
    /\ pc[o] = "push" /\ Goto(o, "grant")
    /\ vNodes' = vNodes \cup {pnode[o]}
    /\ UNCHANGED <<heap, node, vNodesDisconnected, pnodeSync, socketVars, messageVars,
                   slots, pnode, addrConnect, nRefLoaded>>

\* CSemaphoreGrant::MoveTo the node: is there a grant to release first?
LoadGrant(o) ==
    /\ pc[o] = "grant" /\ Goto(o, IF fHaveGrant(pnode[o]) THEN "post" ELSE "move")
    /\ UNCHANGED <<heap, node, others, slots, pnode, addrConnect, nRefLoaded>>

\* It is posted, even if the socket thread or another opener was faster ...
PostGrant(o) ==
    /\ pc[o] = "post" /\ Goto(o, "clear")
    /\ Post(1, {pnode[o]} \cap Held)
    /\ node' = [node EXCEPT ![pnode[o]].grantOutbound = IF @ = "held" THEN "posted" ELSE @]
    /\ UNCHANGED <<heap, others, pnode, addrConnect, nRefLoaded>>

\* ... and cleared.
ClearGrant(o) ==
    /\ pc[o] = "clear" /\ Goto(o, "move")
    /\ node' = [node EXCEPT ![pnode[o]].grantOutbound = "none"]
    /\ UNCHANGED <<heap, others, slots, pnode, addrConnect, nRefLoaded>>

\* Fault: the grant is copied, and the opener releases its own at the end.
CopyGrant(o) ==
    /\ pc[o] = "move" /\ Goto(o, "flag")
    /\ node' = [node EXCEPT ![pnode[o]].grantOutbound = "held"]
    /\ semOutbound' = semOutbound + 1
    /\ UNCHANGED <<heap, nTwice, others, pnode, addrConnect, nRefLoaded>>

\* The opener's own grant is now the node's.
MoveGrant(o) ==
    /\ pc[o] = "move" /\ Goto(o, "flag")
    /\ node' = [node EXCEPT ![pnode[o]].grantOutbound = "held"]
    /\ UNCHANGED <<heap, others, slots, pnode, addrConnect, nRefLoaded>>

\* The opener is done with its node.
Done(o) ==
    /\ Goto(o, "idle")
    /\ pnode' = [pnode EXCEPT ![o] = NULL]
    /\ addrConnect' = [addrConnect EXCEPT ![o] = NULL]

\* fNetworkNode, and fOneShot for an opener that asked for it.
SetNetworkNode(o) ==
    /\ pc[o] = "flag"
    /\ node' = [node EXCEPT ![pnode[o]].fNetworkNode = TRUE]
    /\ IF o \in OneShot THEN Goto(o, "oneshot") /\ UNCHANGED <<pnode, addrConnect>> ELSE Done(o)
    /\ UNCHANGED <<heap, others, slots, nRefLoaded>>

SetOneShot(o) ==
    /\ pc[o] = "oneshot"
    /\ node' = [node EXCEPT ![pnode[o]].fOneShot = TRUE]
    /\ Done(o)
    /\ UNCHANGED <<heap, others, slots, nRefLoaded>>

OpenNetworkConnection(o) ==
    \/ CheckExisting(o) \/ LookForExisting(o) \/ LoadRefCount(o) \/ StoreRefCount(o)
    \/ ConnectSocket(o) \/ PushNode(o)
    \/ LoadGrant(o) \/ PostGrant(o) \/ ClearGrant(o) \/ MoveGrant(o)
    \/ SetNetworkNode(o) \/ SetOneShot(o)

Next ==
    \/ ThreadSocketHandler \/ ThreadMessageHandler
    \/ \E o \in Opener : AcquireGrant(o) \/ OpenNetworkConnection(o)

Spec == Init /\ [][Next]_vars

\* Every thread keeps running; an opener need not ever open a connection.
FairSpec ==
    /\ Spec
    /\ WF_vars(ThreadSocketHandler) /\ WF_vars(ThreadMessageHandler)
    /\ \A o \in Opener : WF_vars(OpenNetworkConnection(o))

-----------------------------------------------------------------------------
\* The types; no count is negative (GetRefCount asserts nRefCount >= 0).
TypeOK ==
    /\ heap \subseteq Ptr
    /\ node \in [Ptr -> CNode]
    /\ vNodes \subseteq Ptr /\ vNodesDisconnected \subseteq Ptr /\ pnodeSync \in Ptr \cup {NULL}
    /\ semOutbound \in Nat /\ nTwice \in 0..MaxTwice
    /\ pcS \in {"disconnect", "delete", "accept", "copy", "service", "release"}
    /\ copyS \subseteq Ptr
    /\ pcM \in {"copy", "sync", "start", "process", "release"}
    /\ copyM \subseteq Ptr /\ pnodeNewSync \in Ptr \cup {NULL}
    /\ pc \in [Opener -> {"idle", "open", "find", "load", "store", "connect", "push",
                          "grant", "post", "clear", "move", "flag", "oneshot"}]
    /\ pnode \in [Opener -> Ptr \cup {NULL}]
    /\ addrConnect \in [Opener -> Addr]
    /\ nRefLoaded \in [Opener -> Nat]

\* No address is tried by two openers, or belongs to a peer that connects to us.
Apart ==
    /\ \A o1 \in Opener : \A o2 \in Opener : o1 # o2 => Target[o1] \cap Target[o2] = {}
    /\ \A o \in Opener : Target[o] \cap InAddr = {}

\* The openers that hold a slot.
Claims == {o \in Opener : pc[o] \in {"open", "find", "load", "store", "connect", "push",
                                    "grant", "post", "clear", "move"}}

\* A slot is invented in one way only.  Those that are free or held by an opener
\* or a node exceed the slots there are by no more than the posts for a grant
\* that someone else had returned, between the test of fHaveGrant in MoveTo and
\* its post (sync.h, net.cpp: openers with one address, or a disconnection, meet
\* at a node that has a grant).  Where no two parties share an address there is
\* no such post, and no outbound connection too many.
SlotsNotExceeded ==
    /\ semOutbound + Cardinality(Held) + Cardinality(Claims) <= nMaxOutbound + nTwice
    /\ Apart => nTwice = 0

\* What the socket thread and the message thread have in their copies of vNodes,
\* and what is in vNodes, is not deleted ("wait until threads are done using it").
HeldNodesLive == vNodes \cup copyS \cup copyM \cup vNodesDisconnected \subseteq heap

\* An opener's node is not deleted before it is marked as a network node: until
\* then the reference of ConnectNode is not released.
OpenerNodeLive ==
    \A o \in Opener :
        pc[o] \in {"push", "grant", "post", "clear", "move", "flag"} => pnode[o] \in heap

\* A node that connected to us and left is deleted once nobody uses it ("hold in
\* disconnected pool until all refs are released").
InboundPoolDrains ==
    \A p \in Ptr : p \in vNodesDisconnected /\ node[p].fInbound ~> p \notin vNodesDisconnected
=============================================================================
