------------------------------ MODULE MockRpc ------------------------------
(***************************************************************************)
(* The mock Lotus RPC server of local development: one goroutine polls     *)
(* Anvil for new blocks, one serves each WebSocket connection, and one     *)
(* sends the first notification of each ChainNotify subscription. They     *)
(* share the head (lock s.mu), the subscriptions (lock s.subMu), and each  *)
(* subscription (lock sub.mu, held while a notification is written).       *)
(*                                                                         *)
(* A critical section without a call that may block is one step; a write   *)
(* to a connection is two, its beginning and its end.                      *)
(***************************************************************************)
EXTENDS Integers, FiniteSets

CONSTANTS Conns,      \* connections, each used once
          NoConn,     \* of a subscription that does not exist
          MaxSubID,   \* bound on subscription ids
          FirstHeight,\* of Anvil's chain when the server starts
          MaxHeight   \* bound on the height of Anvil's chain

ASSUME MockRpcAssumption ==
    /\ NoConn \notin Conns
    /\ MaxSubID \in Nat
    /\ MaxHeight \in Nat
    /\ FirstHeight \in 0 .. MaxHeight

VARIABLES
    anvil,          \* height of Anvil's chain
    currentHeight,  \* s.currentHeight
    currentTipSet,  \* s.currentTipSet
    subscriptions,  \* keys of s.subscriptions
    nextSubID,      \* s.nextSubID
    conn,           \* sub.conn
    closed,         \* sub.closed
    lastSent,       \* sub.lastSent
    handler,        \* goroutine of each connection
    open,           \* connections whose peer is still there
    watcher,        \* goroutine of watchBlocks
    initial,        \* goroutine of each sendInitialNotification
    last,           \* last notification written for each subscription (a history)
    told,           \* greatest height written for each subscription (a history)
    crashed         \* a goroutine panicked that nobody recovers

server  == <<currentHeight, currentTipSet>>
sub     == <<conn, closed, lastSent>>
written == <<last, told>>
vars    == <<anvil, server, subscriptions, nextSubID, sub, handler, open,
             watcher, initial, written, crashed>>

SubIds  == 2 .. MaxSubID
Heights == 0 .. MaxHeight

\* A tipset is its height and the height of its parent, -1 for a parent that is made up.
TipSets  == [height : Heights, parent : {-1} \cup Heights]
NoTipSet == [height |-> -1, parent |-> -1]

\* Goroutines between two pieces of work: locals that are not read again are reset.
Ticking     == [pc |-> "tick", block |-> 0, sub |-> 0, todo |-> {}]
Serving(pc) == [pc |-> pc, method |-> "none"]
Over(pc)    == [pc |-> pc, tipset |-> NoTipSet]

\* Whatever is answered without the server's state: randomness, requests that go to Anvil,
\* unknown methods and messages that are no request.
Methods == {"ChainNotify", "ChainHead", "other"}

HeadChanges == [type : {"current", "apply"}, tipset : TipSets]
NoChange    == [type |-> "none", tipset |-> NoTipSet]

----------------------------------------------------------------------------
\* Defect: the parent is made up even if there is one.
Orphan(blockNum, parent) == [height |-> blockNum, parent |-> -1]

\* createMockTipSet: without a parent (NoTipSet) the parent's CID is made up from the height.
MockTipSet(blockNum, parent) == [height |-> blockNum, parent |-> parent.height]

\* getAnvilBlockNumber: the number of Anvil's last block, or an error.
NoAnswer == -1
GetAnvilBlockNumber == {anvil, NoAnswer}

\* Who holds a lock. Locks taken and released within a step are never seen held.
MuHeld      == watcher.pc \in {"rlock", "check", "send", "writing", "record"}
SubMuRead   == watcher.pc \in {"check", "send", "writing", "record"}
SubMuFree   == ~SubMuRead /\ \A c \in Conns : handler[c].pc # "cleaning"
\* Defect: the lock of a subscription is taken again before it is given back.
TakenTwice(s) == \/ initial[s].pc \in {"writing", "record"}
                 \/ watcher.pc \in {"writing", "record"} /\ watcher.sub = s

Locked(s) == \/ initial[s].pc = "writing"
             \/ watcher.pc = "writing" /\ watcher.sub = s

NotifierWriting(c) == \E s \in SubIds : conn[s] = c /\ Locked(s)

\* gorilla/websocket allows one writer at a time and detects others by luck: an
\* overlap goes unnoticed, or one of the goroutines panics. net/http recovers a
\* handler, whose deferred conn.Close runs and whose clean-up does not; the
\* panic of any other goroutine ends the process.
HandlerDies(c) ==
    /\ handler' = [handler EXCEPT ![c].pc = "gone"]
    /\ open' = open \ {c}
    /\ UNCHANGED crashed

WriteMessageBegins(c) ==
    \/ UNCHANGED <<handler, open, crashed>>
    \/ /\ NotifierWriting(c) \/ handler[c].pc = "writing"
       /\ crashed' = TRUE
       /\ UNCHANGED <<handler, open>>
    \/ handler[c].pc = "writing" /\ HandlerDies(c)

\* sendSubscriptionNotification looks again whether the subscription is closed.
\* Defect: it relies on what its caller saw.
NeverSkipped(s) == FALSE

SendSkipped(s) == closed[s]

\* The end of sendSubscriptionNotification. A write fails if the peer has left, though
\* it may take a while until that shows.
NotificationWritten(s, change) ==
    \/ /\ last' = [last EXCEPT ![s] = change]
       /\ told' = [told EXCEPT ![s] = IF @ < change.tipset.height
                                      THEN change.tipset.height ELSE @]
       /\ UNCHANGED closed
    \/ /\ conn[s] \notin open
       /\ closed' = [closed EXCEPT ![s] = TRUE]
       /\ UNCHANGED written

----------------------------------------------------------------------------
(* Anvil *)

NewBlock ==
    /\ anvil < MaxHeight
    /\ anvil' = anvil + 1
    /\ UNCHANGED <<server, subscriptions, nextSubID, sub, handler, open, watcher,
                   initial, written, crashed>>

----------------------------------------------------------------------------
(* watchBlocks *)

\* After an error the watcher waits for the next tick.
WatchPoll ==
    /\ watcher.pc = "tick"
    /\ \E blockNum \in GetAnvilBlockNumber :
          watcher' = IF blockNum = NoAnswer THEN Ticking
                     ELSE [watcher EXCEPT !.pc = "polled", !.block = blockNum]
    /\ UNCHANGED <<anvil, server, subscriptions, nextSubID, sub, handler, open,
                   initial, written, crashed>>

WatchHead ==
    LET blockNum == watcher.block IN
    /\ watcher.pc = "polled"
    /\ IF blockNum > currentHeight \/ currentTipSet = NoTipSet
       THEN /\ currentHeight' = blockNum
            /\ currentTipSet' = MockTipSet(blockNum, currentTipSet)
            /\ watcher' = IF currentHeight # blockNum
                          THEN [watcher EXCEPT !.pc = "rlock"]
                          ELSE Ticking
       ELSE /\ watcher' = Ticking
            /\ UNCHANGED server
    /\ UNCHANGED <<anvil, subscriptions, nextSubID, sub, handler, open, initial, written,
                   crashed>>

WatchSubscriptions ==
    /\ watcher.pc = "rlock"
    /\ \A c \in Conns : handler[c].pc # "cleaning"
    /\ watcher' = [watcher EXCEPT !.pc = "check", !.todo = subscriptions]
    /\ UNCHANGED <<anvil, server, subscriptions, nextSubID, sub, handler, open,
                   initial, written, crashed>>

\* Defect: whoever has not heard anything yet is left to its first notification.
StartedAndBehind(s) == ~closed[s] /\ lastSent[s] # -1 /\ lastSent[s] < watcher.block

\* Defect: whoever was told of anything but the block before is not told.
OneBehind(s) == ~closed[s] /\ lastSent[s] = watcher.block - 1

Behind(s) == ~closed[s] /\ lastSent[s] < watcher.block

WatchCheck(s) ==
    /\ watcher.pc = "check"
    /\ s \in watcher.todo
    /\ ~Locked(s)
    /\ watcher' = IF Behind(s)
                  THEN [watcher EXCEPT !.todo = @ \ {s}, !.sub = s, !.pc = "send"]
                  ELSE [watcher EXCEPT !.todo = @ \ {s}]
    /\ UNCHANGED <<anvil, server, subscriptions, nextSubID, sub, handler, open,
                   initial, written, crashed>>

WatchSend ==
    LET s == watcher.sub IN
    /\ watcher.pc = "send"
    /\ ~Locked(s)
    /\ IF SendSkipped(s)
       THEN /\ watcher' = [watcher EXCEPT !.pc = "record"]
            /\ UNCHANGED <<handler, open, crashed>>
       ELSE /\ watcher' = [watcher EXCEPT !.pc = "writing"]
            /\ WriteMessageBegins(conn[s])
    /\ UNCHANGED <<anvil, server, subscriptions, nextSubID, sub, initial, written>>

WatchWritten ==
    /\ watcher.pc = "writing"
    /\ NotificationWritten(watcher.sub, [type |-> "apply", tipset |-> currentTipSet])
    /\ watcher' = [watcher EXCEPT !.pc = "record"]
    /\ UNCHANGED <<anvil, server, subscriptions, nextSubID, conn, lastSent, handler,
                   open, initial, crashed>>

WatchRecord ==
    /\ watcher.pc = "record"
    /\ ~Locked(watcher.sub)
    /\ lastSent' = [lastSent EXCEPT ![watcher.sub] = watcher.block]
    /\ watcher' = [watcher EXCEPT !.pc = "check", !.sub = 0]
    /\ UNCHANGED <<anvil, server, subscriptions, nextSubID, conn, closed, handler, open,
                   initial, written, crashed>>

WatchPassDone ==
    /\ watcher.pc = "check"
    /\ watcher.todo = {}
    /\ watcher' = Ticking
    /\ UNCHANGED <<anvil, server, subscriptions, nextSubID, sub, handler, open,
                   initial, written, crashed>>

Watcher ==
    \/ WatchPoll \/ WatchHead \/ WatchSubscriptions
    \/ \E s \in SubIds : WatchCheck(s)
    \/ WatchSend \/ WatchWritten \/ WatchRecord \/ WatchPassDone

----------------------------------------------------------------------------
(* sendInitialNotification *)

InitialRead(s) ==
    /\ initial[s].pc = "sleeping"
    /\ ~MuHeld
    /\ initial' = [initial EXCEPT
          ![s] = IF currentTipSet = NoTipSet
                 THEN [@ EXCEPT !.pc = "fetching"]
                 ELSE [@ EXCEPT !.pc = "send", !.tipset = currentTipSet]]
    /\ UNCHANGED <<anvil, server, subscriptions, nextSubID, sub, handler, open,
                   watcher, written, crashed>>

InitialFetch(s) ==
    /\ initial[s].pc = "fetching"
    /\ \E blockNum \in GetAnvilBlockNumber :
          initial' = [initial EXCEPT
             ![s] = IF blockNum = NoAnswer THEN Over("failed")
                    ELSE [pc |-> "send", tipset |-> MockTipSet(blockNum, NoTipSet)]]
    /\ UNCHANGED <<anvil, server, subscriptions, nextSubID, sub, handler, open,
                   watcher, written, crashed>>

InitialSend(s) ==
    /\ initial[s].pc = "send"
    /\ ~Locked(s)
    /\ IF SendSkipped(s)
       THEN /\ initial' = [initial EXCEPT ![s].pc = "record"]
            /\ UNCHANGED <<handler, open, crashed>>
       ELSE /\ initial' = [initial EXCEPT ![s].pc = "writing"]
            /\ WriteMessageBegins(conn[s])
    /\ UNCHANGED <<anvil, server, subscriptions, nextSubID, sub, watcher, written>>

InitialWritten(s) ==
    /\ initial[s].pc = "writing"
    /\ NotificationWritten(s, [type |-> "current", tipset |-> initial[s].tipset])
    /\ initial' = [initial EXCEPT ![s].pc = "record"]
    /\ UNCHANGED <<anvil, server, subscriptions, nextSubID, conn, lastSent, handler,
                   open, watcher, crashed>>

\* Defect: the head read again when the write is over.
HeadByNow(s) == currentHeight

\* The height read with the tipset.
HeightSent(s) == initial[s].tipset.height

InitialRecord(s) ==
    /\ initial[s].pc = "record"
    /\ ~Locked(s)
    /\ lastSent' = [lastSent EXCEPT ![s] = HeightSent(s)]
    /\ initial' = [initial EXCEPT ![s] = Over("done")]
    /\ UNCHANGED <<anvil, server, subscriptions, nextSubID, conn, closed, handler, open,
                   watcher, written, crashed>>

InitialNotifier(s) ==
    \/ InitialRead(s) \/ InitialFetch(s) \/ InitialSend(s)
    \/ InitialWritten(s) \/ InitialRecord(s)

----------------------------------------------------------------------------
(* handleWebSocket and the requests it handles *)

Connect(c) ==
    /\ handler[c].pc = "none"
    /\ handler' = [handler EXCEPT ![c].pc = "reading"]
    /\ open' = open \cup {c}
    /\ UNCHANGED <<anvil, server, subscriptions, nextSubID, sub, watcher, initial, written,
                   crashed>>

Disconnect(c) ==
    /\ c \in open
    /\ open' = open \ {c}
    /\ UNCHANGED <<anvil, server, subscriptions, nextSubID, sub, handler, watcher,
                   initial, written, crashed>>

\* Subscriptions asked for and not made yet; the bound on ids counts them.
Asked == {c \in Conns : handler[c].pc = "call" /\ handler[c].method = "ChainNotify"}

\* The answer is there, an error if Anvil gives none. Nobody else sees the call.
OtherHandled == Serving("respond")

ReadMessage(c) ==
    /\ handler[c].pc = "reading"
    /\ c \in open
    /\ \E method \in Methods :
          /\ method = "ChainNotify" => nextSubID + Cardinality(Asked) < MaxSubID
          /\ handler' = [handler EXCEPT ![c] = IF method = "other" THEN OtherHandled
                                               ELSE [pc |-> "call", method |-> method]]
    /\ UNCHANGED <<anvil, server, subscriptions, nextSubID, sub, open, watcher, initial,
                   written, crashed>>

\* A batch calls several methods before one response is written.
HandleChainNotify(c) ==
    LET subID == nextSubID + 1 IN
    /\ handler[c].pc = "call"
    /\ handler[c].method = "ChainNotify"
    /\ SubMuFree
    /\ nextSubID' = subID
    /\ subscriptions' = subscriptions \cup {subID}
    /\ conn' = [conn EXCEPT ![subID] = c]
    /\ initial' = [initial EXCEPT ![subID].pc = "sleeping"]
    /\ \/ handler' = [handler EXCEPT ![c] = Serving("respond")]
       \/ subID + Cardinality(Asked) - 1 < MaxSubID /\ UNCHANGED handler
    /\ UNCHANGED <<anvil, server, closed, lastSent, open, watcher, written, crashed>>

\* The head, or without one a tipset made from Anvil's block. Nothing is stored.
HandleChainHead(c) ==
    /\ handler[c].pc = "call"
    /\ handler[c].method = "ChainHead"
    /\ ~MuHeld
    /\ handler' = [handler EXCEPT ![c] = Serving("respond")]
    /\ UNCHANGED <<anvil, server, subscriptions, nextSubID, sub, open, watcher, initial,
                   written, crashed>>

SendResponse(c) ==
    /\ handler[c].pc = "respond"
    /\ \/ /\ handler' = [handler EXCEPT ![c].pc = "writing"]
          /\ UNCHANGED <<open, crashed>>
       \/ /\ NotifierWriting(c)
          /\ crashed' = TRUE
          /\ UNCHANGED <<handler, open>>
       \/ NotifierWriting(c) /\ HandlerDies(c)
    /\ UNCHANGED <<anvil, server, subscriptions, nextSubID, sub, watcher, initial, written>>

\* A failed write of a response is logged; the next read will fail.
ResponseWritten(c) ==
    /\ handler[c].pc = "writing"
    /\ handler' = [handler EXCEPT ![c].pc = "reading"]
    /\ UNCHANGED <<anvil, server, subscriptions, nextSubID, sub, open, watcher, initial,
                   written, crashed>>

\* The read fails, and the clean-up waits for s.subMu.
CleanupBegins(c) ==
    /\ handler[c].pc = "reading"
    /\ c \notin open
    /\ SubMuFree
    /\ handler' = [handler EXCEPT ![c].pc = "cleaning"]
    /\ UNCHANGED <<anvil, server, subscriptions, nextSubID, sub, open, watcher, initial,
                   written, crashed>>

CleanupSubscription(c, s) ==
    /\ handler[c].pc = "cleaning"
    /\ s \in subscriptions
    /\ conn[s] = c
    /\ ~Locked(s)
    /\ closed' = [closed EXCEPT ![s] = TRUE]
    /\ subscriptions' = subscriptions \ {s}
    /\ UNCHANGED <<anvil, server, nextSubID, conn, lastSent, handler, open, watcher,
                   initial, written, crashed>>

CleanupEnds(c) ==
    /\ handler[c].pc = "cleaning"
    /\ \A s \in subscriptions : conn[s] # c
    /\ handler' = [handler EXCEPT ![c].pc = "gone"]
    /\ UNCHANGED <<anvil, server, subscriptions, nextSubID, sub, open, watcher, initial,
                   written, crashed>>

Handler(c) ==
    \/ HandleChainNotify(c) \/ HandleChainHead(c)
    \/ SendResponse(c) \/ ResponseWritten(c)
    \/ CleanupBegins(c)
    \/ \E s \in SubIds : CleanupSubscription(c, s)
    \/ CleanupEnds(c)

Client(c) == Connect(c) \/ Disconnect(c) \/ ReadMessage(c)

----------------------------------------------------------------------------
Init ==
    /\ anvil = FirstHeight
    /\ currentHeight = 0
    /\ currentTipSet = NoTipSet
    /\ subscriptions = {}
    /\ nextSubID = 1
    /\ conn = [s \in SubIds |-> NoConn]
    /\ closed = [s \in SubIds |-> FALSE]
    /\ lastSent = [s \in SubIds |-> -1]
    /\ handler = [c \in Conns |-> Serving("none")]
    /\ open = {}
    /\ watcher = Ticking
    /\ initial = [s \in SubIds |-> Over("unborn")]
    /\ last = [s \in SubIds |-> NoChange]
    /\ told = [s \in SubIds |-> -1]
    /\ crashed = FALSE

Next ==
    /\ ~crashed
    /\ \/ NewBlock \/ Watcher
       \/ \E s \in SubIds : InitialNotifier(s)
       \/ \E c \in Conns : Handler(c) \/ Client(c)

Spec == Init /\ [][Next]_vars

\* Goroutines are scheduled, Anvil mines and answers, and a client reads what is
\* sent to it or loses its connection, so that writes end. Clients need not do anything else.
Fairness ==
    /\ WF_vars(~crashed /\ NewBlock)
    /\ WF_vars(~crashed /\ Watcher)
    /\ \A s \in SubIds : WF_vars(~crashed /\ InitialNotifier(s))
    /\ \A c \in Conns : WF_vars(~crashed /\ Handler(c))

FairSpec == Spec /\ Fairness

----------------------------------------------------------------------------
(* Properties *)

HandlerStates == [pc : {"none", "reading", "call", "respond", "writing", "cleaning", "gone"},
                  method : {"none", "ChainNotify", "ChainHead"}]

WatcherStates == [pc : {"tick", "polled", "rlock", "check", "send", "writing", "record"},
                  block : Heights, sub : SubIds \cup {0}, todo : SUBSET SubIds]

InitialStates == [pc : {"unborn", "sleeping", "fetching", "send", "writing", "record", "done",
                        "failed"},
                  tipset : TipSets \cup {NoTipSet}]

TypeOK ==
    /\ anvil \in Heights
    /\ currentHeight \in Heights
    /\ currentTipSet \in TipSets \cup {NoTipSet}
    /\ subscriptions \subseteq SubIds
    /\ nextSubID \in Nat
    /\ conn \in [SubIds -> Conns \cup {NoConn}]
    /\ closed \in [SubIds -> BOOLEAN]
    /\ lastSent \in [SubIds -> {-1} \cup Heights]
    /\ handler \in [Conns -> HandlerStates]
    /\ open \subseteq Conns
    /\ watcher \in WatcherStates
    /\ initial \in [SubIds -> InitialStates]
    /\ last \in [SubIds -> HeadChanges \cup {NoChange}]
    /\ told \in [SubIds -> {-1} \cup Heights]
    /\ crashed \in BOOLEAN

\* What a subscriber applies has no gaps: the parent of the tipset in an "apply" notification is no
\* later than what it was told of before, and after an "apply" it is no earlier than the tipset of
\* that one. So two "apply" notifications in a row form a chain, except over blocks
\* that the first notification has shown in the meantime: if the server had no head yet, that one
\* shows Anvil's last block, and lastSent is set to it late. This depends on a watcher that
\* notifies everybody of a block before it looks at the next, on the subscription being in the
\* map before the head is read for it, and on what lastSent is set back or ahead to.
AppliesLeaveNoGap ==
    [][\A s \in SubIds :
          last'[s] # last[s] /\ last'[s].type = "apply" /\ last[s] # NoChange =>
              /\ last'[s].tipset.parent <= told[s]
              /\ last[s].type = "apply" => last[s].tipset.height <= last'[s].tipset.parent]_vars

\* Between two passes of the watcher, every live subscription whose first notification is over has been
\* told of the current head or of a later block, however its creation, its first
\* notification and the watcher's pass interleaved: it is in the map before the head is
\* read for it.
NoSubscriberMissesTheHead ==
    ~MuHeld =>
        \A s \in subscriptions :
            ~closed[s] /\ initial[s].pc = "done" => told[s] >= currentHeight

\* Nothing is written for a subscription once it is closed (by the clean-up of its connection
\* or a failed write), although both notifiers may have decided to write before.
ClosedSubscriptionsAreSilent ==
    [][\A s \in SubIds : closed[s] => closed'[s] /\ last'[s] = last[s] /\ told'[s] = told[s]]_vars

\* Whoever subscribes hears of Anvil's last block, or is disconnected. A poll may be late, other
\* clients may come and go. (Or an unsynchronized write ends the process.)
EverySubscriberHearsOfTheLastBlock ==
    \A s \in SubIds :
        s \in subscriptions ~> closed[s] \/ crashed \/ told[s] >= MaxHeight

\* Every request is answered: no order of the three kinds of locks makes a connection, the watcher
\* and a clean-up wait for each other.
RequestsAreAnswered ==
    \A c \in Conns :
        handler[c].pc = "call" ~> handler[c].pc \in {"reading", "gone"} \/ crashed
=============================================================================
