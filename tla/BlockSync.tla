----------------------------- MODULE BlockSync ------------------------------
(***************************************************************************)
(* How two nodes bring each other's block chains up to date: the messages  *)
(* getblocks, inv, getdata and block of main.cpp, over one connection.     *)
(*                                                                         *)
(* Both nodes run the same code.  node[n] is the CNode that n keeps for the *)
(* other one; its vSendMsg is the connection, from PushMessage to the       *)
(* peer's ProcessMessage: TCP keeps the order and loses nothing but the     *)
(* whole connection.  Each handler runs under cs_main and is one action.    *)
(*                                                                         *)
(* All blocks are valid, and AcceptBlock takes every block whose parent is  *)
(* known; what may go wrong there is the subject of ChainState.             *)
(***************************************************************************)
EXTENDS BlockTree, SequencesExt

CONSTANTS
    Node,               \* the two nodes
    Known0,             \* [Node -> SUBSET Block], the blocks each node starts with
    Fresh,              \* [Node -> SUBSET Block], the blocks each node finds itself
    nLimit,             \* blocks announced per getblocks, 500
    nDense,             \* single steps at the start of a CBlockLocator, 10
    nMaxOrphans,        \* PruneOrphanBlocks' bound, in blocks
    fIBD,               \* the values IsInitialBlockDownload may return
    MaxDrops,           \* bound on the number of lost connections
    MaxEvents           \* bound on the number of lost connections and found blocks

VARIABLES
    mapBlockIndex, pindexBest, mapOrphanBlocks, \* the chain of each node
    mapAlreadyAskedFor, \* the blocks each node has asked for and not processed
    node,               \* CNode
    nDrops, nFound      \* connections lost and blocks found so far

chain == <<mapBlockIndex, pindexBest, mapOrphanBlocks>>
bounds == <<nDrops, nFound>>
vars == <<chain, mapAlreadyAskedFor, node, bounds>>

ASSUME SyncAssumption ==
    /\ Cardinality(Node) = 2
    /\ Known0 \in [Node -> SUBSET Block] /\ Fresh \in [Node -> SUBSET Block]
    /\ nLimit \in Nat \ {0} /\ nDense \in Nat \ {0} /\ nMaxOrphans \in Nat
    /\ fIBD \in SUBSET BOOLEAN \ {{}} /\ MaxDrops \in Nat /\ MaxEvents \in Nat
    /\ \A n \in Node : Genesis \in Known0[n] /\ \A b \in Known0[n] : Branch[b] \subseteq Known0[n]

Peer(n) == CHOOSE m \in Node : m # n

\* The block of S with the most trust; of equals, the one in use stays.
MostTrust(S) == CHOOSE b \in S : \A c \in S : nChainTrust[c] <= nChainTrust[b]

-----------------------------------------------------------------------------
\* The CNode of a connection that has completed its handshake.  StartSync has
\* chosen the peer, so fStartSync is set.
Connection == [fStartSync |-> TRUE, hashContinue |-> NULL,
               pindexLastGetBlocksBegin |-> NULL, hashLastGetBlocksEnd |-> NULL,
               setInventoryKnown |-> {}, vInventoryToSend |-> <<>>,
               mapAskFor |-> <<>>, vRecvGetData |-> <<>>, vSendMsg |-> <<>>]

PushMessage(p, msg) == [p EXCEPT !.vSendMsg = Append(@, msg)]

\* CBlockLocator::Set: the last nDense + 1 blocks, then steps that double, and
\* the genesis block.  The order is by height.
Locator(b) ==
    {a \in Branch[b] : LET d == nHeight[b] - nHeight[a]
                       IN  d <= nDense \/ \E k \in 1 .. d : d = nDense - 1 + 2^k}
    \cup {Genesis}

\* PushGetBlocks, with its filter for duplicate requests.
PushGetBlocks(p, begin, end) ==
    IF p.pindexLastGetBlocksBegin = begin /\ p.hashLastGetBlocksEnd = end THEN p
    ELSE PushMessage([p EXCEPT !.pindexLastGetBlocksBegin = begin, !.hashLastGetBlocksEnd = end],
                     [type |-> "getblocks", have |-> Locator(begin), stop |-> end])

\* CNode::PushInventory of each block of s.
PushInventory(p, s) ==
    [p EXCEPT !.vInventoryToSend = @ \o SelectSeq(s, LAMBDA b : b \notin p.setInventoryKnown)]

\* CNode::AskFor of each block of s: the first request for a block is due at
\* once, a retry two minutes later.
AskFor(p, s, asked) ==
    [p EXCEPT !.mapAskFor = @ \o [i \in DOMAIN s |-> [inv |-> s[i], wait |-> s[i] \in asked]]]

AddInventoryKnown(p, S) == [p EXCEPT !.setInventoryKnown = @ \cup S]

AlreadyHave(n, b) == b \in mapBlockIndex[n] \cup mapOrphanBlocks[n]

\* The root of the chain of orphans that ends with b.
RootOf(orphans, b) ==
    CHOOSE a \in Branch[b] \cap orphans :
        /\ hashPrevBlock[a] \notin orphans
        /\ Branch[b] \ Branch[a] \subseteq orphans

-----------------------------------------------------------------------------
\* getblocks: announce what follows the last block the caller has on the main
\* chain, up to the block it names or nLimit blocks.
OnGetBlocks(n, p, msg) ==
    LET main  == Branch[pindexBest[n]]
        from  == CHOOSE a \in msg.have \cap main :
                    \A c \in msg.have \cap main : nHeight[c] <= nHeight[a]
        At(h) == CHOOSE c \in main : nHeight[c] = h
        last  == IF msg.stop \in main /\ nHeight[msg.stop] > nHeight[from]
                 THEN nHeight[msg.stop] - 1 ELSE nHeight[pindexBest[n]]
        k     == IF last - nHeight[from] < nLimit THEN last - nHeight[from] ELSE nLimit
        q     == PushInventory(p, [i \in 1 .. k |-> At(nHeight[from] + i)])
    IN  IF k = nLimit THEN [q EXCEPT !.hashContinue = At(nHeight[from] + nLimit)] ELSE q

\* inv: ask for what is new; an orphan or, at the end, a known block is the
\* occasion to ask for more.
OnInv(n, p, msg) ==
    LET orphans == SelectSeq(msg.inv, LAMBDA b : b \in mapOrphanBlocks[n])
        new     == SelectSeq(msg.inv, LAMBDA b : ~ AlreadyHave(n, b))
        q       == AskFor(AddInventoryKnown(p, Range(msg.inv)), new, mapAlreadyAskedFor[n])
        r       == FoldLeft(LAMBDA a, b : PushGetBlocks(a, pindexBest[n],
                                                        RootOf(mapOrphanBlocks[n], b)),
                            q, orphans)
    IN  IF Last(msg.inv) \in mapBlockIndex[n] THEN PushGetBlocks(r, Last(msg.inv), NULL) ELSE r

\* Fault: a batch ends without the announcement of the tip.
ServesWithoutContinue(n, p) ==
    LET q == [p EXCEPT !.vRecvGetData = Tail(@)]
        b == Head(p.vRecvGetData)
    IN  IF b \in mapBlockIndex[n] THEN PushMessage(q, [type |-> "block", block |-> b]) ELSE q

\* ProcessGetData serves one block.  After the last block of a batch it
\* announces the tip, so that the caller asks for the next batch.
ProcessGetData(n, p) ==
    LET b == Head(p.vRecvGetData)
        q == [p EXCEPT !.vRecvGetData = Tail(@)]
        r == PushMessage(q, [type |-> "block", block |-> b])
    IN  IF b \notin mapBlockIndex[n] THEN q
        ELSE IF b # p.hashContinue THEN r
        ELSE PushMessage([r EXCEPT !.hashContinue = NULL],
                         [type |-> "inv", inv |-> <<pindexBest[n]>>])

\* ProcessBlock has accepted b: the orphans that waited for it, directly or
\* not, follow.  Each block that becomes the best one is announced: the chains are
\* shorter than the 2000 blocks by which AcceptBlock may lag behind the peer.
Accept(n, nodes, p, b) ==
    LET drained == {c \in mapOrphanBlocks[n] : Branch[c] \ mapBlockIndex[n]
                                               \subseteq mapOrphanBlocks[n] \cup {b}}
        new     == {b} \cup drained
        bests   == {c \in new : \A d \in {pindexBest[n]} \cup {e \in new : nHeight[e] < nHeight[c]} :
                                  nChainTrust[d] < nChainTrust[c]}
        q       == PushInventory(p, SetToSortSeq(bests, LAMBDA c, d : nHeight[c] < nHeight[d]))
    IN  /\ mapBlockIndex' = [mapBlockIndex EXCEPT ![n] = @ \cup new]
        /\ mapOrphanBlocks' = [mapOrphanBlocks EXCEPT ![n] = @ \ drained]
        /\ pindexBest' = [pindexBest EXCEPT ![n] = IF bests = {} THEN @ ELSE MostTrust(bests)]
        /\ node' = [nodes EXCEPT ![n] = q]

\* The sets of orphans PruneOrphanBlocks may leave: it erases orphans that no
\* other orphan depends on until the bound holds.
Pruned(orphans) ==
    IF Cardinality(orphans) <= nMaxOrphans THEN {orphans}
    ELSE {S \in SUBSET orphans :
            /\ Cardinality(S) = nMaxOrphans
            /\ \A c \in S : hashPrevBlock[c] \in orphans => hashPrevBlock[c] \in S}

\* ProcessBlock stores an orphan, asks the peer for what leads to it and,
\* unless in initial download, for the missing block itself.
StoreOrphan(n, nodes, p, b) ==
    \E kept \in Pruned(mapOrphanBlocks[n]) : \E ibd \in fIBD :
        LET orphans == kept \cup {b}
            root    == RootOf(orphans, b)
            wanted  == hashPrevBlock[root]
            q       == PushGetBlocks(p, pindexBest[n], root)
        IN  /\ mapOrphanBlocks' = [mapOrphanBlocks EXCEPT ![n] = orphans]
            /\ node' = [nodes EXCEPT ![n] = IF ibd THEN q
                                            ELSE AskFor(q, <<wanted>>, mapAlreadyAskedFor[n])]
            /\ mapAlreadyAskedFor' = [mapAlreadyAskedFor EXCEPT ![n] =
                                        (IF ibd THEN @ ELSE @ \cup {wanted}) \ {b}]
            /\ UNCHANGED <<mapBlockIndex, pindexBest>>

\* The block message.  A block the node has already is refused.
OnBlock(n, nodes, b) ==
    LET q == AddInventoryKnown(nodes[n], {b})
    IN  IF AlreadyHave(n, b)
        THEN node' = [nodes EXCEPT ![n] = q] /\ UNCHANGED <<chain, mapAlreadyAskedFor>>
        ELSE IF hashPrevBlock[b] \notin mapBlockIndex[n] THEN StoreOrphan(n, nodes, q, b)
        ELSE /\ Accept(n, nodes, q, b)
             /\ mapAlreadyAskedFor' = [mapAlreadyAskedFor EXCEPT ![n] = @ \ {b}]

-----------------------------------------------------------------------------
Init ==
    /\ mapBlockIndex = Known0
    /\ pindexBest = [n \in Node |-> MostTrust(Known0[n])]
    /\ mapOrphanBlocks = [n \in Node |-> {}]
    /\ mapAlreadyAskedFor = [n \in Node |-> {}]
    /\ node = [n \in Node |-> Connection]
    /\ nDrops = 0 /\ nFound = 0

\* The first message of the peer, taken from the connection.
Taken(n) == [node EXCEPT ![Peer(n)].vSendMsg = Tail(@)]

\* ProcessMessages, one message.  Requests that are still being served come
\* first ("this maintains the order of responses").
ReceiveRequest(n) ==
    LET msg == Head(node[Peer(n)].vSendMsg)
        p   == node[n]
    IN  /\ node[Peer(n)].vSendMsg # <<>>
        /\ p.vRecvGetData = <<>>
        /\ msg.type \in {"getblocks", "inv", "getdata"}
        /\ node' = [Taken(n) EXCEPT ![n] =
             CASE msg.type = "getblocks" -> OnGetBlocks(n, p, msg)
               [] msg.type = "inv" -> OnInv(n, p, msg)
               [] msg.type = "getdata" -> ProcessGetData(n, [p EXCEPT !.vRecvGetData = msg.inv])]
        /\ mapAlreadyAskedFor' = [mapAlreadyAskedFor EXCEPT ![n] =
             IF msg.type = "inv" THEN @ \cup {b \in Range(msg.inv) : ~ AlreadyHave(n, b)} ELSE @]
        /\ UNCHANGED <<chain, bounds>>

ReceiveBlock(n) ==
    /\ node[Peer(n)].vSendMsg # <<>>
    /\ node[n].vRecvGetData = <<>>
    /\ Head(node[Peer(n)].vSendMsg).type = "block"
    /\ OnBlock(n, Taken(n), Head(node[Peer(n)].vSendMsg).block)
    /\ UNCHANGED bounds

\* ProcessMessages carries on with the requests of an earlier getdata.
ServeNext(n) ==
    /\ node[n].vRecvGetData # <<>>
    /\ node' = [node EXCEPT ![n] = ProcessGetData(n, @)]
    /\ UNCHANGED <<chain, mapAlreadyAskedFor, bounds>>

\* The sequence s without repetitions.
Distinct(s) ==
    LET first == SetToSortSeq({i \in DOMAIN s : \A j \in 1 .. i - 1 : s[j] # s[i]}, <)
    IN  [k \in DOMAIN first |-> s[first[k]]]

\* SendMessages: start the download, announce what the peer does not know,
\* request what is due and not there yet.
SendMessages(n) ==
    LET p     == node[n]
        q     == IF p.fStartSync
                 THEN PushGetBlocks([p EXCEPT !.fStartSync = FALSE], pindexBest[n], NULL) ELSE p
        unknown == SelectSeq(p.vInventoryToSend, LAMBDA b : b \notin p.setInventoryKnown)
        news  == Distinct(unknown)
        r     == [q EXCEPT !.vInventoryToSend = <<>>,
                           !.setInventoryKnown = @ \cup Range(news)]
        t     == IF news = <<>> THEN r ELSE PushMessage(r, [type |-> "inv", inv |-> news])
        due   == {a.inv : a \in {c \in Range(p.mapAskFor) : ~ c.wait}}
        wants == SelectSeq(p.mapAskFor, LAMBDA a : ~ a.wait /\ ~ AlreadyHave(n, a.inv))
        u     == [t EXCEPT !.mapAskFor = SelectSeq(@, LAMBDA a : a.wait)]
        ask   == [type |-> "getdata", inv |-> [i \in DOMAIN wants |-> wants[i].inv]]
    IN  /\ p.fStartSync \/ p.vInventoryToSend # <<>> \/ due # {}
        /\ node' = [node EXCEPT ![n] = IF wants = <<>> THEN u ELSE PushMessage(u, ask)]
        /\ mapAlreadyAskedFor' = [mapAlreadyAskedFor EXCEPT ![n] = @ \cup Range(ask.inv)]
        /\ UNCHANGED <<chain, bounds>>

\* Two minutes pass: the retries that wait are due.
TimePasses(n) ==
    /\ \E a \in Range(node[n].mapAskFor) : a.wait
    /\ node' = [node EXCEPT ![n].mapAskFor = [i \in DOMAIN @ |-> [@[i] EXCEPT !.wait = FALSE]]]
    /\ UNCHANGED <<chain, mapAlreadyAskedFor, bounds>>

\* A node finds a block, or gets it from someone else.
FindBlock(n, b) ==
    /\ b \in Fresh[n] /\ ~ AlreadyHave(n, b)
    /\ hashPrevBlock[b] \in mapBlockIndex[n]
    /\ nDrops + nFound < MaxEvents /\ nFound' = nFound + 1
    /\ Accept(n, node, node[n], b)
    /\ UNCHANGED <<mapAlreadyAskedFor, nDrops>>

\* Fault: what the peer was told stays recorded although it is lost.
ReconnectKeepsKnown ==
    /\ nDrops < MaxDrops /\ nDrops + nFound < MaxEvents /\ nDrops' = nDrops + 1
    /\ node' = [n \in Node |-> [Connection EXCEPT !.setInventoryKnown = node[n].setInventoryKnown]]
    /\ UNCHANGED <<chain, mapAlreadyAskedFor, nFound>>

\* The connection breaks and is made again: both sides start with a fresh CNode,
\* what was on the way is lost.
Reconnect ==
    /\ nDrops < MaxDrops /\ nDrops + nFound < MaxEvents /\ nDrops' = nDrops + 1
    /\ node' = [n \in Node |-> Connection]
    /\ UNCHANGED <<chain, mapAlreadyAskedFor, nFound>>

ThreadMessageHandler(n) == ReceiveRequest(n) \/ ReceiveBlock(n) \/ ServeNext(n) \/ SendMessages(n)

Next ==
    \/ \E n \in Node : ThreadMessageHandler(n) \/ TimePasses(n) \/ \E b \in Block : FindBlock(n, b)
    \/ Reconnect

Spec == Init /\ [][Next]_vars

\* Each node's message thread visits its connection again and again and both
\* receives and sends; time passes.
FairSpec == Spec /\ \A n \in Node : /\ WF_vars(ReceiveRequest(n) \/ ReceiveBlock(n) \/ ServeNext(n))
                                    /\ WF_vars(SendMessages(n)) /\ WF_vars(TimePasses(n))

-----------------------------------------------------------------------------
\* The two nodes end up on one chain, the better one, whatever they started
\* with, whichever blocks they find meanwhile, and if the connection breaks
\* (getblocks, inv, getdata and block, with their filters for what was asked or
\* announced before).
NodesConverge ==
    <>[](\A n \in Node : nChainTrust[pindexBest[n]] =
             nChainTrust[MostTrust(UNION {mapBlockIndex[m] : m \in Node})])
=============================================================================
