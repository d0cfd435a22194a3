---------------------------- MODULE MockRpcProofs ----------------------------
(***************************************************************************)
(* Notifications of the mock RPC server, for any number of connections,    *)
(* subscriptions and blocks: a closed subscription is silent, nobody       *)
(* misses the head, and what a subscriber applies has no gaps.             *)
(***************************************************************************)
EXTENDS MockRpc, FiniteSetTheorems, TLAPS

-----------------------------------------------------------------------------
(* The invariant.                                                          *)

\* The subscriptions that were asked for will get ids within the bound.
AskedFit ==
    /\ nextSubID >= 1
    /\ IsFiniteSet(Asked)
    /\ Asked # {} => nextSubID + Cardinality(Asked) <= MaxSubID

\* Ids that were not given out: nobody knows them.
Unborn ==
    \A s \in SubIds : s > nextSubID =>
        s \notin subscriptions /\ told[s] = -1 /\ initial[s].pc = "unborn"

\* A subscription has one writer at a time, and is not closed under it.
OneWriter ==
    \A s \in SubIds :
        /\ initial[s].pc = "writing" =>
              ~closed[s] /\ ~ (watcher.pc = "writing" /\ watcher.sub = s)
        /\ watcher.pc = "writing" /\ watcher.sub = s => ~closed[s]

\* The head and the block of the watcher are blocks of Anvil's; during a pass the
\* watcher's block is the head.
HeadKnown ==
    /\ currentTipSet = NoTipSet => currentHeight = 0
    /\ currentTipSet # NoTipSet =>
          currentTipSet.height = currentHeight /\ currentTipSet.parent <= currentHeight
    /\ currentHeight <= anvil /\ watcher.block <= anvil
    /\ MuHeld => currentTipSet # NoTipSet /\ watcher.block = currentHeight

\* During a pass the watcher is among the subscriptions it found, and no clean-up is under way.
PassUndisturbed ==
    SubMuRead =>
        /\ watcher.todo \subseteq subscriptions
        /\ watcher.pc # "check" => watcher.sub \in subscriptions
        /\ \A c \in Conns : handler[c].pc # "cleaning"

\* A first notification that was prepared shows a block.
InitialPrepared ==
    \A s \in SubIds : initial[s].pc \in {"send", "writing", "record"} =>
        initial[s].tipset \in TipSets

\* What a live subscription was told covers what its notifiers record.
RecordedWasTold ==
    \A s \in SubIds : ~closed[s] =>
        /\ lastSent[s] <= told[s]
        /\ initial[s].pc = "record" => initial[s].tipset.height <= told[s]
        /\ initial[s].pc \in {"record", "done"} => told[s] >= 0
        /\ watcher.pc = "record" /\ watcher.sub = s => watcher.block <= told[s]

\* It was told of a block from height h on, or of nothing yet, and then its first
\* notification, if prepared, shows such a block.
Heard(s, h) ==
    \/ told[s] >= h
    \/ told[s] = -1 /\ (initial[s].pc \in {"send", "writing"} => initial[s].tipset.height >= h)

\* Every live subscription has heard the head between two passes, and its parent during a
\* pass; those that the pass has dealt with were told of the head.
HeadHeard ==
    \A s \in subscriptions : ~closed[s] =>
        /\ ~MuHeld => Heard(s, currentHeight)
        /\ MuHeld => Heard(s, currentTipSet.parent)
        /\ SubMuRead => \/ s \in watcher.todo
                        \/ watcher.sub = s /\ watcher.pc \in {"send", "writing"}
                        \/ told[s] >= currentHeight

\* The last notification is covered by what was told; if it is an "apply" it shows the head or
\* a block no later than the head's parent.
LastKnown ==
    \A s \in SubIds :
        /\ last[s].tipset.height <= told[s]
        /\ last[s].type = "apply" =>
              /\ currentTipSet # NoTipSet
              /\ \/ last[s].tipset = currentTipSet
                 \/ last[s].tipset.height <= currentTipSet.parent

\* How far everybody is with the notifications.
NotificationInv ==
    /\ Unborn /\ OneWriter /\ HeadKnown /\ PassUndisturbed
    /\ InitialPrepared /\ RecordedWasTold /\ HeadHeard /\ LastKnown

MockRpcInv == TypeOK /\ AskedFit /\ NotificationInv

-----------------------------------------------------------------------------
(* Types.                                                                  *)

\* The tipset of a block has the block's height, and the height of its parent if there is one.
LEMMA MockTipSetType ==
  ASSUME NEW blockNum \in Heights, NEW parent \in TipSets \cup {NoTipSet}
  PROVE  /\ MockTipSet(blockNum, parent) \in TipSets
         /\ MockTipSet(blockNum, parent).height = blockNum
         /\ MockTipSet(blockNum, parent).parent = parent.height
BY DEF MockTipSet, TipSets, NoTipSet

\* A tipset is none exactly if it shows no block.
LEMMA TipSetHeights ==
  ASSUME NEW t \in TipSets \cup {NoTipSet}
  PROVE  /\ t.height \in Int /\ t.height >= -1 /\ t.parent \in Int /\ t.parent >= -1
         /\ t \in TipSets <=> t # NoTipSet
         /\ t \in TipSets <=> t.height >= 0
         /\ t \in TipSets <=> t.height \in Heights
<1>1. -1 \notin Heights /\ \A h \in Heights : h \in Int /\ h >= 0
  BY DEF Heights
<1>2. CASE t \in TipSets
  BY <1>1, <1>2 DEF TipSets, NoTipSet
<1>3. CASE t = NoTipSet
  BY <1>1, <1>3 DEF TipSets, NoTipSet
<1>4. QED BY <1>2, <1>3

\* Heights are natural numbers.
LEMMA HeightsAreNaturals == Heights \subseteq Nat
BY DEF Heights

\* The fields of a subscription.
LEMMA SubscriptionTypes ==
  ASSUME TypeOK, NEW s \in SubIds
  PROVE  /\ told[s] \in Int /\ told[s] >= -1 /\ lastSent[s] \in Int /\ closed[s] \in BOOLEAN
         /\ last[s] = NoChange \/ last[s] \in HeadChanges
         /\ last[s].tipset \in TipSets \cup {NoTipSet} /\ last[s].tipset.height \in Int
         /\ initial[s] \in InitialStates
         /\ initial[s].tipset \in TipSets \cup {NoTipSet} /\ initial[s].tipset.height \in Int
<1>1. told[s] \in {-1} \cup Heights /\ lastSent[s] \in {-1} \cup Heights /\ closed[s] \in BOOLEAN
  BY DEF TypeOK
<1>2. last[s] \in HeadChanges \cup {NoChange} /\ initial[s] \in InitialStates
  BY DEF TypeOK
<1>3. /\ last[s].tipset \in TipSets \cup {NoTipSet}
      /\ initial[s].tipset \in TipSets \cup {NoTipSet}
  BY <1>2 DEF HeadChanges, NoChange, InitialStates
<1>4. \A h \in {-1} \cup Heights : h \in Int /\ h >= -1
  BY HeightsAreNaturals
<1>5. QED BY <1>1, <1>2, <1>3, <1>4, TipSetHeights

\* What the watcher becomes is a state of it.
LEMMA WatcherStateType ==
  ASSUME NEW w \in WatcherStates
  PROVE  /\ Ticking \in WatcherStates
         /\ \A b \in Heights : [w EXCEPT !.pc = "polled", !.block = b] \in WatcherStates
         /\ \A x \in {"rlock", "writing", "record"} : [w EXCEPT !.pc = x] \in WatcherStates
         /\ \A S \in SUBSET SubIds : [w EXCEPT !.pc = "check", !.todo = S] \in WatcherStates
         /\ \A s \in SubIds :
               /\ [w EXCEPT !.todo = @ \ {s}] \in WatcherStates
               /\ [w EXCEPT !.todo = @ \ {s}, !.sub = s, !.pc = "send"] \in WatcherStates
         /\ [w EXCEPT !.pc = "check", !.sub = 0] \in WatcherStates
<1>1. 0 \in Heights
  BY MockRpcAssumption DEF Heights
<1>2. Ticking \in WatcherStates
  BY <1>1 DEF WatcherStates, Ticking
<1>3. \A b \in Heights : [w EXCEPT !.pc = "polled", !.block = b] \in WatcherStates
  BY DEF WatcherStates
<1>4. \A x \in {"rlock", "writing", "record"} : [w EXCEPT !.pc = x] \in WatcherStates
  BY DEF WatcherStates
<1>5. \A S \in SUBSET SubIds : [w EXCEPT !.pc = "check", !.todo = S] \in WatcherStates
  BY DEF WatcherStates
<1>6. ASSUME NEW s \in SubIds
      PROVE  /\ [w EXCEPT !.todo = @ \ {s}] \in WatcherStates
             /\ [w EXCEPT !.todo = @ \ {s}, !.sub = s, !.pc = "send"] \in WatcherStates
  BY DEF WatcherStates
<1>7. [w EXCEPT !.pc = "check", !.sub = 0] \in WatcherStates
  BY DEF WatcherStates
<1>8. QED BY <1>2, <1>3, <1>4, <1>5, <1>6, <1>7

\* The block that Anvil reports.
LEMMA AnvilAnswers ==
  ASSUME anvil \in Heights, NEW blockNum \in GetAnvilBlockNumber, blockNum # NoAnswer
  PROVE  blockNum = anvil /\ blockNum \in Heights
BY DEF GetAnvilBlockNumber

\* The beginning of a write.
LEMMA WriteBeginsType ==
  ASSUME TypeOK, NEW c, WriteMessageBegins(c)
  PROVE  handler' \in [Conns -> HandlerStates] /\ open' \subseteq Conns /\ crashed' \in BOOLEAN
<1>1. /\ handler \in [Conns -> HandlerStates] /\ open \subseteq Conns /\ crashed \in BOOLEAN
  BY DEF TypeOK
<1>2. CASE HandlerDies(c)
  <2>1. ASSUME NEW h \in HandlerStates PROVE [h EXCEPT !.pc = "gone"] \in HandlerStates
    BY DEF HandlerStates
  <2>2. /\ handler' = [handler EXCEPT ![c].pc = "gone"] /\ open' = open \ {c} /\ crashed' = crashed
    BY <1>2 DEF HandlerDies
  <2>3. handler' \in [Conns -> HandlerStates]
    BY <1>1, <2>1, <2>2
  <2>4. QED BY <1>1, <2>2, <2>3
<1>3. CASE ~HandlerDies(c)
  <2>1. handler' = handler /\ open' = open /\ (crashed' = crashed \/ crashed' = TRUE)
    BY <1>3 DEF WriteMessageBegins
  <2>2. QED BY <1>1, <2>1
<1>4. QED BY <1>2, <1>3

\* The end of the write of a notification.
LEMMA WrittenType ==
  ASSUME TypeOK, NEW s \in SubIds, NEW change \in HeadChanges, NotificationWritten(s, change)
  PROVE  /\ last' \in [SubIds -> HeadChanges \cup {NoChange}]
         /\ told' \in [SubIds -> {-1} \cup Heights]
         /\ closed' \in [SubIds -> BOOLEAN]
<1>1. /\ last \in [SubIds -> HeadChanges \cup {NoChange}] /\ told \in [SubIds -> {-1} \cup Heights]
      /\ closed \in [SubIds -> BOOLEAN]
  BY DEF TypeOK
<1>2. change.tipset.height \in Heights
  BY DEF HeadChanges, TipSets
<1>3. CASE closed' = closed
  <2>1. \/ /\ last' = [last EXCEPT ![s] = change]
           /\ told' = [told EXCEPT ![s] = IF @ < change.tipset.height
                                          THEN change.tipset.height ELSE @]
        \/ last' = last /\ told' = told
    BY <1>3 DEF NotificationWritten, written
  <2>2. QED BY <1>1, <1>2, <1>3, <2>1
<1>4. CASE closed' # closed
  <2>1. closed' = [closed EXCEPT ![s] = TRUE] /\ last' = last /\ told' = told
    BY <1>4 DEF NotificationWritten, written
  <2>2. QED BY <1>1, <2>1
<1>5. QED BY <1>3, <1>4

\* The watcher and Anvil keep the types.
LEMMA WatcherTypes == ASSUME TypeOK, HeadKnown, PassUndisturbed, NewBlock \/ Watcher PROVE TypeOK'
<1>0. watcher \in WatcherStates /\ watcher.block \in Heights /\ watcher.sub \in SubIds \cup {0}
  BY DEF TypeOK, WatcherStates
<1>1. CASE NewBlock
  <2>1. anvil' \in Heights
    BY <1>1, MockRpcAssumption DEF NewBlock, TypeOK, Heights
  <2>2. QED BY <1>1, <2>1 DEF NewBlock, TypeOK, server, sub, written
<1>2. CASE WatchPoll
  <2>1. PICK blockNum \in GetAnvilBlockNumber :
           watcher' = IF blockNum = NoAnswer THEN Ticking
                      ELSE [watcher EXCEPT !.pc = "polled", !.block = blockNum]
    BY <1>2 DEF WatchPoll
  <2>2. blockNum # NoAnswer => blockNum \in Heights
    BY AnvilAnswers DEF TypeOK
  <2>3. watcher' \in WatcherStates
    BY <1>0, <2>1, <2>2, WatcherStateType
  <2>4. QED BY <1>2, <2>3 DEF WatchPoll, TypeOK, server, sub, written
<1>3. CASE WatchHead
  <2>1. watcher' \in WatcherStates
    <3>1. watcher' = [watcher EXCEPT !.pc = "rlock"] \/ watcher' = Ticking
      BY <1>3 DEF WatchHead
    <3>2. QED BY <1>0, <3>1, WatcherStateType
  <2>2. currentHeight' \in Heights /\ currentTipSet' \in TipSets \cup {NoTipSet}
    <3>1. MockTipSet(watcher.block, currentTipSet) \in TipSets
      BY <1>0, MockTipSetType DEF TypeOK
    <3>2. QED BY <1>0, <1>3, <3>1 DEF WatchHead, TypeOK, server
  <2>3. QED BY <1>3, <2>1, <2>2 DEF WatchHead, TypeOK, sub, written
<1>4. CASE WatchSubscriptions
  <2>1. watcher' \in WatcherStates
    BY <1>0, <1>4, WatcherStateType DEF WatchSubscriptions, TypeOK
  <2>2. QED BY <1>4, <2>1 DEF WatchSubscriptions, TypeOK, server, sub, written
<1>5. ASSUME NEW s \in SubIds, WatchCheck(s) PROVE TypeOK'
  <2>1. watcher' \in WatcherStates
    BY <1>0, <1>5, WatcherStateType DEF WatchCheck
  <2>2. QED BY <1>5, <2>1 DEF WatchCheck, TypeOK, server, sub, written
<1>6. CASE WatchSend
  <2>1. watcher' \in WatcherStates
    <3>1. watcher' = [watcher EXCEPT !.pc = "record"] \/ watcher' = [watcher EXCEPT !.pc = "writing"]
      BY <1>6 DEF WatchSend
    <3>2. QED BY <1>0, <3>1, WatcherStateType
  <2>2. handler' \in [Conns -> HandlerStates] /\ open' \subseteq Conns /\ crashed' \in BOOLEAN
    <3>1. CASE WriteMessageBegins(conn[watcher.sub])
      BY <3>1, WriteBeginsType
    <3>2. CASE ~WriteMessageBegins(conn[watcher.sub])
      BY <1>6, <3>2 DEF WatchSend, TypeOK
    <3>3. QED BY <3>1, <3>2
  <2>3. QED BY <1>6, <2>1, <2>2 DEF WatchSend, TypeOK, server, sub, written
<1>7. CASE WatchWritten
  <2>1. watcher' \in WatcherStates
    BY <1>0, <1>7, WatcherStateType DEF WatchWritten
  <2>2. watcher.sub \in SubIds /\ currentTipSet \in TipSets
    BY <1>7 DEF WatchWritten, PassUndisturbed, SubMuRead, HeadKnown, MuHeld, TypeOK
  <2>3. [type |-> "apply", tipset |-> currentTipSet] \in HeadChanges
    BY <2>2 DEF HeadChanges
  <2>4. NotificationWritten(watcher.sub, [type |-> "apply", tipset |-> currentTipSet])
    BY <1>7 DEF WatchWritten
  <2>5. /\ last' \in [SubIds -> HeadChanges \cup {NoChange}]
        /\ told' \in [SubIds -> {-1} \cup Heights]
        /\ closed' \in [SubIds -> BOOLEAN]
    BY <2>2, <2>3, <2>4, WrittenType
  <2>6. QED BY <1>7, <2>1, <2>5 DEF WatchWritten, TypeOK, server
<1>8. CASE WatchRecord
  <2>1. watcher' \in WatcherStates
    BY <1>0, <1>8, WatcherStateType DEF WatchRecord
  <2>2. lastSent' \in [SubIds -> {-1} \cup Heights]
    BY <1>0, <1>8 DEF WatchRecord, TypeOK
  <2>3. QED BY <1>8, <2>1, <2>2 DEF WatchRecord, TypeOK, server, written
<1>9. CASE WatchPassDone
  <2>1. watcher' \in WatcherStates
    BY <1>0, <1>9, WatcherStateType DEF WatchPassDone
  <2>2. QED BY <1>9, <2>1 DEF WatchPassDone, TypeOK, server, sub, written
<1>10. QED
  BY <1>1, <1>2, <1>3, <1>4, <1>5, <1>6, <1>7, <1>8, <1>9 DEF Watcher

\* What a first notifier becomes is a state of one.
LEMMA InitialStateType ==
  ASSUME NEW i \in InitialStates
  PROVE  /\ \A x \in {"sleeping", "fetching", "writing", "record"} :
               [i EXCEPT !.pc = x] \in InitialStates
         /\ \A x \in {"done", "failed"} : Over(x) \in InitialStates
         /\ \A t \in TipSets : /\ [i EXCEPT !.pc = "send", !.tipset = t] \in InitialStates
                               /\ [pc |-> "send", tipset |-> t] \in InitialStates
BY DEF InitialStates, Over

\* The first notifiers keep the types.
LEMMA NotifierTypes ==
  ASSUME TypeOK, InitialPrepared, NEW s \in SubIds, InitialNotifier(s)
  PROVE  TypeOK'
<1>0. /\ initial \in [SubIds -> InitialStates] /\ initial[s] \in InitialStates
      /\ \A i \in InitialStates : [initial EXCEPT ![s] = i] \in [SubIds -> InitialStates]
  BY DEF TypeOK
<1>1. CASE InitialRead(s)
  <2>1. \/ initial' = [initial EXCEPT ![s] = [initial[s] EXCEPT !.pc = "fetching"]]
        \/ /\ currentTipSet # NoTipSet
           /\ initial' = [initial EXCEPT ![s] = [initial[s] EXCEPT !.pc = "send", !.tipset = currentTipSet]]
    BY <1>0, <1>1, Zenon DEF InitialRead
  <2>2. currentTipSet # NoTipSet => currentTipSet \in TipSets
    BY DEF TypeOK
  <2>3. initial' \in [SubIds -> InitialStates]
    BY ZenonT(60), <1>0, <2>1, <2>2, InitialStateType
  <2>4. QED BY <1>1, <2>3 DEF InitialRead, TypeOK, server, sub, written
<1>2. CASE InitialFetch(s)
  <2>1. PICK blockNum \in GetAnvilBlockNumber :
           initial' = [initial EXCEPT ![s] =
                         IF blockNum = NoAnswer THEN Over("failed")
                         ELSE [pc |-> "send", tipset |-> MockTipSet(blockNum, NoTipSet)]]
    BY <1>2 DEF InitialFetch
  <2>2. blockNum # NoAnswer => MockTipSet(blockNum, NoTipSet) \in TipSets
    BY AnvilAnswers, MockTipSetType DEF TypeOK
  <2>3. initial' \in [SubIds -> InitialStates]
    BY <1>0, <2>1, <2>2, InitialStateType
  <2>4. QED BY <1>2, <2>3 DEF InitialFetch, TypeOK, server, sub, written
<1>3. CASE InitialSend(s)
  <2>1. initial' \in [SubIds -> InitialStates]
    <3>1. \/ initial' = [initial EXCEPT ![s] = [initial[s] EXCEPT !.pc = "record"]]
          \/ initial' = [initial EXCEPT ![s] = [initial[s] EXCEPT !.pc = "writing"]]
      BY <1>3 DEF InitialSend
    <3>2. QED BY <1>0, <3>1, InitialStateType
  <2>2. handler' \in [Conns -> HandlerStates] /\ open' \subseteq Conns /\ crashed' \in BOOLEAN
    <3>1. CASE WriteMessageBegins(conn[s])
      BY <3>1, WriteBeginsType
    <3>2. CASE ~WriteMessageBegins(conn[s])
      BY <1>3, <3>2 DEF InitialSend, TypeOK
    <3>3. QED BY <3>1, <3>2
  <2>3. QED BY <1>3, <2>1, <2>2 DEF InitialSend, TypeOK, server, sub, written
<1>4. CASE InitialWritten(s)
  <2>1. initial' \in [SubIds -> InitialStates]
    <3>1. initial' = [initial EXCEPT ![s] = [initial[s] EXCEPT !.pc = "record"]]
      BY <1>4 DEF InitialWritten
    <3>2. QED BY <1>0, <3>1, InitialStateType
  <2>2. [type |-> "current", tipset |-> initial[s].tipset] \in HeadChanges
    BY <1>4 DEF InitialWritten, InitialPrepared, HeadChanges
  <2>3. NotificationWritten(s, [type |-> "current", tipset |-> initial[s].tipset])
    BY <1>4 DEF InitialWritten
  <2>4. /\ last' \in [SubIds -> HeadChanges \cup {NoChange}]
        /\ told' \in [SubIds -> {-1} \cup Heights]
        /\ closed' \in [SubIds -> BOOLEAN]
    BY <2>2, <2>3, WrittenType
  <2>5. QED BY <1>4, <2>1, <2>4 DEF InitialWritten, TypeOK, server
<1>5. CASE InitialRecord(s)
  <2>1. initial' \in [SubIds -> InitialStates]
    <3>1. initial' = [initial EXCEPT ![s] = Over("done")]
      BY <1>5 DEF InitialRecord
    <3>2. QED BY <1>0, <3>1, InitialStateType
  <2>2. initial[s].tipset.height \in Heights
    BY <1>5 DEF InitialRecord, InitialPrepared, TipSets
  <2>3. lastSent' \in [SubIds -> {-1} \cup Heights]
    BY <1>5, <2>2 DEF InitialRecord, HeightSent, TypeOK
  <2>4. QED BY <1>5, <2>1, <2>3 DEF InitialRecord, TypeOK, server, written
<1>6. QED BY <1>1, <1>2, <1>3, <1>4, <1>5 DEF InitialNotifier

\* What a connection becomes is a state of one.
LEMMA HandlerStateType ==
  ASSUME NEW h \in HandlerStates
  PROVE  /\ \A x \in {"reading", "writing", "cleaning", "gone"} :
               [h EXCEPT !.pc = x] \in HandlerStates
         /\ \A x \in {"none", "respond"} : Serving(x) \in HandlerStates
         /\ \A m \in {"ChainNotify", "ChainHead"} : [pc |-> "call", method |-> m] \in HandlerStates
BY DEF HandlerStates, Serving

\* A call that is under way gets an id within the bound.
LEMMA NextIdFits ==
  ASSUME TypeOK, AskedFit, NEW c \in Asked
  PROVE  nextSubID + 1 \in SubIds /\ Cardinality(Asked) \in Nat \ {0}
<1>1. /\ Asked # {} /\ IsFiniteSet(Asked) /\ nextSubID + Cardinality(Asked) <= MaxSubID
      /\ nextSubID \in Nat /\ nextSubID >= 1
  BY DEF AskedFit, TypeOK
<1>2. Cardinality(Asked) \in Nat /\ Cardinality(Asked) # 0
  BY <1>1, FS_CardinalityType, FS_EmptySet
<1>3. QED BY <1>1, <1>2, MockRpcAssumption DEF SubIds

\* The connections keep the types.
LEMMA ConnectionTypes ==
  ASSUME TypeOK, AskedFit, NEW c \in Conns, Handler(c) \/ Client(c)
  PROVE  TypeOK'
<1>0. /\ handler \in [Conns -> HandlerStates] /\ handler[c] \in HandlerStates
      /\ \A h \in HandlerStates : [handler EXCEPT ![c] = h] \in [Conns -> HandlerStates]
      /\ \A x \in {"reading", "writing", "cleaning", "gone"} :
            [handler EXCEPT ![c] = [handler[c] EXCEPT !.pc = x]] \in [Conns -> HandlerStates]
      /\ [handler EXCEPT ![c] = Serving("respond")] \in [Conns -> HandlerStates]
  <2>1. handler \in [Conns -> HandlerStates] /\ handler[c] \in HandlerStates
    BY DEF TypeOK
  <2>2. \A h \in HandlerStates : [handler EXCEPT ![c] = h] \in [Conns -> HandlerStates]
    BY <2>1
  <2>3. QED BY <2>1, <2>2, HandlerStateType
<1>1. CASE HandleChainNotify(c)
  <2> DEFINE subID == nextSubID + 1
  <2>1. subID \in SubIds
    BY <1>1, NextIdFits DEF HandleChainNotify, Asked
  <2> HIDE DEF subID
  <2>2. /\ nextSubID' = subID /\ subscriptions' = subscriptions \cup {subID}
        /\ conn' = [conn EXCEPT ![subID] = c]
        /\ initial' = [initial EXCEPT ![subID] = [initial[subID] EXCEPT !.pc = "sleeping"]]
        /\ handler' = [handler EXCEPT ![c] = Serving("respond")] \/ handler' = handler
        /\ UNCHANGED <<anvil, server, closed, lastSent, open, watcher, written, crashed>>
    BY <1>1 DEF HandleChainNotify, subID
  <2>3. initial' \in [SubIds -> InitialStates]
    <3>1. initial \in [SubIds -> InitialStates] /\ initial[subID] \in InitialStates
      BY <2>1 DEF TypeOK
    <3>2. QED BY <2>2, <3>1, InitialStateType
  <2>4. /\ nextSubID' \in Nat /\ subscriptions' \subseteq SubIds
        /\ conn' \in [SubIds -> Conns \cup {NoConn}] /\ handler' \in [Conns -> HandlerStates]
    BY <1>0, <2>1, <2>2 DEF TypeOK, SubIds
  <2>5. QED BY <2>2, <2>3, <2>4 DEF TypeOK, server, written
<1>2. CASE HandleChainHead(c)
  BY <1>0, <1>2 DEF HandleChainHead, TypeOK, server, sub, written
<1>3. CASE SendResponse(c)
  <2>1. /\ \/ handler' = [handler EXCEPT ![c] = [handler[c] EXCEPT !.pc = "writing"]]
           \/ handler' = [handler EXCEPT ![c] = [handler[c] EXCEPT !.pc = "gone"]]
           \/ handler' = handler
        /\ open' = open \/ open' = open \ {c}
        /\ crashed' = crashed \/ crashed' = TRUE
    BY <1>3 DEF SendResponse, HandlerDies
  <2>2. handler' \in [Conns -> HandlerStates]
    BY <1>0, <2>1
  <2>3. open' \subseteq Conns /\ crashed' \in BOOLEAN
    BY <2>1 DEF TypeOK
  <2>4. QED BY <1>3, <2>2, <2>3 DEF SendResponse, TypeOK, server, sub, written
<1>4. CASE ResponseWritten(c)
  BY <1>0, <1>4 DEF ResponseWritten, TypeOK, server, sub, written
<1>5. CASE CleanupBegins(c)
  BY <1>0, <1>5 DEF CleanupBegins, TypeOK, server, sub, written
<1>6. ASSUME NEW s \in SubIds, CleanupSubscription(c, s) PROVE TypeOK'
  BY <1>6 DEF CleanupSubscription, TypeOK, server, written
<1>7. CASE CleanupEnds(c)
  BY <1>0, <1>7 DEF CleanupEnds, TypeOK, server, sub, written
<1>8. CASE Connect(c)
  <2>1. handler' \in [Conns -> HandlerStates] /\ open' \subseteq Conns
    BY <1>0, <1>8 DEF Connect, TypeOK
  <2>2. QED BY <1>8, <2>1 DEF Connect, TypeOK, server, sub, written
<1>9. CASE Disconnect(c)
  BY <1>9 DEF Disconnect, TypeOK, server, sub, written
<1>10. CASE ReadMessage(c)
  <2>1. PICK method \in Methods :
           handler' = [handler EXCEPT ![c] = IF method = "other" THEN OtherHandled
                                             ELSE [pc |-> "call", method |-> method]]
    BY <1>10 DEF ReadMessage
  <2>2. method # "other" => [pc |-> "call", method |-> method] \in HandlerStates
    BY <1>0, HandlerStateType DEF Methods
  <2>3. handler' \in [Conns -> HandlerStates]
    BY <1>0, <2>1, <2>2 DEF OtherHandled
  <2>4. QED BY <1>10, <2>3 DEF ReadMessage, TypeOK, server, sub, written
<1>11. QED
  BY <1>1, <1>2, <1>3, <1>4, <1>5, <1>6, <1>7, <1>8, <1>9, <1>10 DEF Handler, Client

\* Calls that end, and steps of others, leave ids for those that are under way.
LEMMA FewerAsked ==
  ASSUME TypeOK, AskedFit, Asked' \subseteq Asked, nextSubID' = nextSubID
  PROVE  AskedFit'
<1>1. IsFiniteSet(Asked) /\ IsFiniteSet(Asked') /\ Cardinality(Asked') <= Cardinality(Asked)
  BY FS_Subset DEF AskedFit
<1>2. Cardinality(Asked) \in Nat /\ Cardinality(Asked') \in Nat
  BY <1>1, FS_CardinalityType
<1>3. QED BY <1>1, <1>2, MockRpcAssumption DEF AskedFit, TypeOK

\* A connection that does not become a call for a subscription does not ask for one.
LEMMA AskedUnlessCalled ==
  ASSUME TypeOK, NEW c, NEW h, handler' = [handler EXCEPT ![c] = h],
         ~ (h.pc = "call" /\ h.method = "ChainNotify")
  PROVE  Asked' \subseteq Asked
BY DEF Asked, TypeOK

\* Which steps leave the ids alone.
LEMMA NotifiersAskNothing ==
  ASSUME TypeOK, NewBlock \/ Watcher \/ \E s \in SubIds : InitialNotifier(s)
  PROVE  nextSubID' = nextSubID /\ Asked' \subseteq Asked
<1> DEFINE quiet == nextSubID' = nextSubID /\ Asked' \subseteq Asked
<1>1. ASSUME NEW x, WriteMessageBegins(x) PROVE Asked' \subseteq Asked
  <2>1. CASE HandlerDies(x)
    <3>1. handler' = [handler EXCEPT ![x] = [handler[x] EXCEPT !.pc = "gone"]]
      BY <2>1 DEF HandlerDies
    <3>2. CASE x \in Conns
      <4>1. [handler[x] EXCEPT !.pc = "gone"].pc = "gone"
        BY <3>2, HandlerStateType DEF TypeOK, HandlerStates
      <4>2. QED BY <3>1, <4>1, AskedUnlessCalled
    <3>3. CASE x \notin Conns
      BY <3>1, <3>3 DEF Asked, TypeOK
    <3>4. QED BY <3>2, <3>3
  <2>2. CASE handler' = handler
    BY <2>2 DEF Asked
  <2>3. QED BY <1>1, <2>1, <2>2 DEF WriteMessageBegins
<1>2. ASSUME UNCHANGED <<nextSubID, handler>> PROVE quiet
  BY <1>2 DEF Asked
<1>3. CASE NewBlock
  BY <1>2, <1>3 DEF NewBlock
<1>4. CASE Watcher
  <2>1. CASE WatchSend
    BY <1>1, <1>2, <2>1 DEF WatchSend
  <2>2. CASE ~WatchSend
    <3>1. UNCHANGED <<nextSubID, handler>>
      BY <1>4, <2>2 DEF Watcher, WatchPoll, WatchHead, WatchSubscriptions, WatchCheck,
                        WatchWritten, WatchRecord, WatchPassDone
    <3>2. QED BY <1>2, <3>1
  <2>3. QED BY <2>1, <2>2
<1>5. ASSUME NEW s \in SubIds, InitialNotifier(s) PROVE quiet
  <2>1. CASE InitialSend(s)
    BY <1>1, <1>2, <2>1 DEF InitialSend
  <2>2. CASE ~InitialSend(s)
    <3>1. UNCHANGED <<nextSubID, handler>>
      BY <1>5, <2>2 DEF InitialNotifier, InitialRead, InitialFetch, InitialWritten, InitialRecord
    <3>2. QED BY <1>2, <3>1
  <2>3. QED BY <2>1, <2>2
<1>6. QED BY <1>3, <1>4, <1>5

\* Nor do the connections, unless they call.
LEMMA OnlyCallsAsk ==
  ASSUME TypeOK, NEW c \in Conns,
         \/ HandleChainHead(c) \/ SendResponse(c) \/ ResponseWritten(c) \/ CleanupBegins(c)
         \/ \E s \in SubIds : CleanupSubscription(c, s)
         \/ CleanupEnds(c) \/ Connect(c) \/ Disconnect(c)
  PROVE  nextSubID' = nextSubID /\ Asked' \subseteq Asked
<1> DEFINE quiet == nextSubID' = nextSubID /\ Asked' \subseteq Asked
<1>2. ASSUME UNCHANGED <<nextSubID, handler>> PROVE quiet
  BY <1>2 DEF Asked
<1>6. ASSUME NEW h \in HandlerStates, h.pc # "call", nextSubID' = nextSubID,
             handler' = [handler EXCEPT ![c] = h]
      PROVE  quiet
  BY <1>6, AskedUnlessCalled
<1>7. \A x : x # "call" => [handler[c] EXCEPT !.pc = x].pc # "call"
  BY DEF TypeOK, HandlerStates
<1>8. CASE HandleChainHead(c)
  BY <1>8, AskedUnlessCalled DEF HandleChainHead, Serving
<1>9. CASE SendResponse(c)
  BY <1>2, <1>7, <1>9, AskedUnlessCalled DEF SendResponse, HandlerDies
<1>10. CASE ResponseWritten(c)
  BY <1>7, <1>10, AskedUnlessCalled DEF ResponseWritten
<1>11. CASE CleanupBegins(c)
  BY <1>7, <1>11, AskedUnlessCalled DEF CleanupBegins
<1>12. ASSUME NEW s \in SubIds, CleanupSubscription(c, s) PROVE quiet
  BY <1>2, <1>12 DEF CleanupSubscription
<1>13. CASE CleanupEnds(c)
  BY <1>7, <1>13, AskedUnlessCalled DEF CleanupEnds
<1>14. CASE Connect(c)
  BY <1>7, <1>14, AskedUnlessCalled DEF Connect
<1>15. CASE Disconnect(c)
  BY <1>2, <1>15 DEF Disconnect
<1>16. QED
  BY <1>8, <1>9, <1>10, <1>11, <1>12, <1>13, <1>14, <1>15

\* Every call for a subscription that is accepted gets an id within the bound.
LEMMA AskedFitKept == ASSUME TypeOK, AskedFit, Next PROVE AskedFit'
<1>1. ASSUME NEW c \in Conns, HandleChainNotify(c) PROVE AskedFit'
  <2>1. c \in Asked /\ handler[c].pc = "call"
    BY <1>1 DEF HandleChainNotify, Asked
  <2>2. /\ nextSubID \in Nat /\ nextSubID >= 1 /\ IsFiniteSet(Asked)
        /\ nextSubID + Cardinality(Asked) <= MaxSubID /\ nextSubID' = nextSubID + 1
    BY <1>1, <2>1 DEF AskedFit, TypeOK, HandleChainNotify
  <2>3. CASE handler' = [handler EXCEPT ![c] = Serving("respond")]
    <3>1. Asked' = Asked \ {c}
      BY <2>1, <2>3 DEF Asked, TypeOK, Serving
    <3>2. IsFiniteSet(Asked') /\ Cardinality(Asked') = Cardinality(Asked) - 1
      BY <2>1, <2>2, <3>1, FS_RemoveElement
    <3>3. Cardinality(Asked) \in Nat
      BY <2>2, FS_CardinalityType
    <3>4. QED BY <2>2, <3>2, <3>3, MockRpcAssumption DEF AskedFit
  <2>4. CASE nextSubID + 1 + Cardinality(Asked) - 1 < MaxSubID /\ UNCHANGED handler
    <3>1. Asked' = Asked
      BY <2>4 DEF Asked
    <3>2. Cardinality(Asked) \in Nat
      BY <2>2, FS_CardinalityType
    <3>3. nextSubID' + Cardinality(Asked) <= MaxSubID
      BY <2>2, <2>4, <3>2, MockRpcAssumption
    <3>4. QED BY <2>2, <3>1, <3>3 DEF AskedFit
  <2>5. QED BY <1>1, <2>3, <2>4 DEF HandleChainNotify
<1>2. ASSUME NEW c \in Conns, ReadMessage(c) PROVE AskedFit'
  <2>1. PICK method \in Methods :
           /\ method = "ChainNotify" => nextSubID + Cardinality(Asked) < MaxSubID
           /\ handler' = [handler EXCEPT ![c] = IF method = "other" THEN OtherHandled
                                                ELSE [pc |-> "call", method |-> method]]
    BY <1>2 DEF ReadMessage
  <2>2. handler[c].pc = "reading" /\ nextSubID' = nextSubID /\ c \notin Asked
    BY <1>2 DEF ReadMessage, Asked
  <2>3. CASE method = "ChainNotify"
    <3>1. Asked' = Asked \cup {c}
      BY <2>1, <2>3 DEF Asked, TypeOK
    <3>2. IsFiniteSet(Asked)
      BY DEF AskedFit
    <3>3. /\ IsFiniteSet(Asked') /\ Cardinality(Asked') = Cardinality(Asked) + 1
          /\ Cardinality(Asked) \in Nat
      BY <2>2, <3>1, <3>2, FS_AddElement, FS_CardinalityType
    <3>4. nextSubID \in Nat /\ nextSubID >= 1
      BY DEF AskedFit, TypeOK
    <3>5. QED BY <2>1, <2>2, <2>3, <3>3, <3>4, MockRpcAssumption DEF AskedFit
  <2>4. CASE method # "ChainNotify"
    <3>1. Asked' \subseteq Asked
      <4> DEFINE h == IF method = "other" THEN OtherHandled
                      ELSE [pc |-> "call", method |-> method]
      <4>1. ~ (h.pc = "call" /\ h.method = "ChainNotify")
        BY <2>4 DEF OtherHandled, Serving
      <4>2. handler' = [handler EXCEPT ![c] = h]
        BY <2>1
      <4> HIDE DEF h
      <4>3. QED BY <4>1, <4>2, AskedUnlessCalled
    <3>2. QED BY <2>2, <3>1, FewerAsked
  <2>5. QED BY <2>3, <2>4
<1>3. CASE NewBlock \/ Watcher \/ \E s \in SubIds : InitialNotifier(s)
  BY <1>3, NotifiersAskNothing, FewerAsked
<1>4. ASSUME NEW c \in Conns, Handler(c) \/ Client(c), ~HandleChainNotify(c), ~ReadMessage(c)
      PROVE  AskedFit'
  BY <1>4, OnlyCallsAsk, FewerAsked DEF Handler, Client
<1>5. QED BY <1>1, <1>2, <1>3, <1>4 DEF Next

-----------------------------------------------------------------------------
(* Steps of Anvil and of the watcher.                                      *)

\* The beginning of a write begins no clean-up.
LEMMA WriteBeginsNoCleanup ==
  ASSUME TypeOK, NEW x, WriteMessageBegins(x), NEW c \in Conns, handler'[c].pc = "cleaning"
  PROVE  handler[c].pc = "cleaning"
<1>1. CASE HandlerDies(x)
  BY <1>1 DEF HandlerDies, TypeOK, HandlerStates
<1>2. CASE handler' = handler
  BY <1>2
<1>3. QED BY <1>1, <1>2 DEF WriteMessageBegins

\* Who has heard of a block has heard of the ones before.
LEMMA HeardOfEarlier ==
  ASSUME TypeOK, NEW s \in SubIds, NEW h \in Int, NEW k \in Int, k <= h,
         Heard(s, h)
  PROVE  Heard(s, k)
<1>1. told[s] \in Int /\ initial[s].tipset.height \in Int
  BY SubscriptionTypes
<1>2. QED BY <1>1 DEF Heard

\* A new block of Anvil changes nothing on the server.
LEMMA NewBlockNotified == ASSUME TypeOK, NotificationInv, NewBlock PROVE NotificationInv'
<1>1. HeadKnown'
  BY DEF NotificationInv, NewBlock, TypeOK, HeadKnown, WatcherStates, MuHeld, Heights, server
<1>2. UNCHANGED <<server, subscriptions, nextSubID, sub, handler, watcher, initial, written>>
  BY DEF NewBlock
<1>3. /\ Unborn' /\ OneWriter' /\ PassUndisturbed' /\ InitialPrepared' /\ RecordedWasTold'
      /\ HeadHeard' /\ LastKnown'
  BY <1>2 DEF NotificationInv, Unborn, OneWriter, PassUndisturbed, InitialPrepared,
              RecordedWasTold, HeadHeard, Heard, LastKnown, MuHeld, SubMuRead, server, sub, written
<1>4. QED BY <1>1, <1>3 DEF NotificationInv

\* A poll begins no pass.
LEMMA WatchPollNotified == ASSUME TypeOK, NotificationInv, WatchPoll PROVE NotificationInv'
<1>1. PICK blockNum \in GetAnvilBlockNumber :
         watcher' = IF blockNum = NoAnswer THEN Ticking
                    ELSE [watcher EXCEPT !.pc = "polled", !.block = blockNum]
  BY DEF WatchPoll
<1>2. blockNum # NoAnswer => blockNum = anvil
  BY AnvilAnswers DEF TypeOK
<1>3. /\ watcher.pc = "tick" /\ watcher'.pc \in {"tick", "polled"} /\ watcher'.block <= anvil
      /\ UNCHANGED <<anvil, server, subscriptions, nextSubID, sub, handler, initial, written>>
  <2>1. watcher \in WatcherStates /\ anvil \in Nat
    BY DEF TypeOK, Heights
  <2>2. watcher'.pc \in {"tick", "polled"} /\ watcher'.block <= anvil
    BY <1>1, <1>2, <2>1 DEF Ticking, WatcherStates
  <2>3. QED BY <2>2 DEF WatchPoll
<1>4. HeadKnown' /\ PassUndisturbed'
  BY <1>3 DEF NotificationInv, HeadKnown, PassUndisturbed, MuHeld, SubMuRead, server
<1>5. Unborn' /\ OneWriter' /\ InitialPrepared' /\ RecordedWasTold' /\ LastKnown'
  BY <1>3 DEF NotificationInv, Unborn, OneWriter, InitialPrepared, RecordedWasTold, LastKnown,
              server, sub, written
<1>6. HeadHeard'
  BY <1>3 DEF NotificationInv, HeadHeard, Heard, MuHeld, SubMuRead, server, sub, written
<1>7. QED BY <1>4, <1>5, <1>6 DEF NotificationInv

\* What was the head is the parent of the new head, or there was none.
LEMMA WatchHeadNotified == ASSUME TypeOK, NotificationInv, WatchHead PROVE NotificationInv'
<1> DEFINE new == MockTipSet(watcher.block, currentTipSet)
<1>1. /\ watcher.block \in Heights /\ currentHeight \in Nat /\ watcher.block \in Nat
      /\ currentTipSet \in TipSets \cup {NoTipSet} /\ anvil \in Nat
      /\ subscriptions \subseteq SubIds
  BY DEF TypeOK, WatcherStates, Heights
<1>2. /\ new \in TipSets /\ new # NoTipSet
      /\ new.height = watcher.block /\ new.parent = currentTipSet.height
  BY <1>1, MockTipSetType, TipSetHeights
<1> HIDE DEF new
<1>3. /\ watcher.pc = "polled" /\ watcher.block <= anvil
      /\ UNCHANGED <<anvil, subscriptions, nextSubID, sub, handler, initial, written>>
      /\ currentTipSet = NoTipSet => currentHeight = 0
      /\ currentTipSet # NoTipSet =>
            currentTipSet.height = currentHeight /\ currentTipSet.parent <= currentHeight
      /\ currentHeight <= anvil
  BY DEF WatchHead, NotificationInv, HeadKnown
<1>4. /\ currentTipSet.height <= currentHeight
      /\ currentTipSet.height \in Int /\ currentTipSet.parent \in Int
      /\ currentTipSet = NoTipSet => currentTipSet.height = -1
  <2>1. currentTipSet.height \in Int /\ currentTipSet.parent \in Int
    BY <1>1, TipSetHeights
  <2>2. currentTipSet = NoTipSet => currentTipSet.height = -1
    BY DEF NoTipSet
  <2>3. QED BY <1>1, <1>3, <2>1, <2>2
<1>5. \A s \in SubIds : s \in subscriptions /\ ~closed[s] => Heard(s, currentHeight)
  BY <1>3 DEF NotificationInv, HeadHeard, MuHeld
<1>6. Unborn' /\ InitialPrepared'
  BY <1>3 DEF NotificationInv, Unborn, InitialPrepared, written
<1>7. CASE watcher.block > currentHeight
  <2>1. /\ currentHeight' = watcher.block /\ currentTipSet' = new
        /\ watcher'.pc = "rlock" /\ watcher'.block = watcher.block
    BY <1>1, <1>7 DEF WatchHead, TypeOK, WatcherStates, new
  <2>2. HeadKnown' /\ PassUndisturbed'
    BY <1>1, <1>2, <1>3, <1>4, <1>7, <2>1 DEF HeadKnown, PassUndisturbed, MuHeld, SubMuRead
  <2>3. OneWriter' /\ RecordedWasTold'
    BY <1>3, <2>1 DEF NotificationInv, OneWriter, RecordedWasTold, sub, written
  <2>4. HeadHeard'
    <3>1. ASSUME NEW s \in subscriptions, ~closed[s] PROVE Heard(s, currentTipSet.height)
      BY <1>1, <1>4, <1>5, <3>1, HeardOfEarlier DEF NotificationInv
    <3>2. ASSUME NEW s \in subscriptions, ~closed[s] PROVE Heard(s, currentTipSet.parent)'
      BY <1>2, <1>3, <2>1, <3>1, <3>2 DEF Heard, written
    <3>3. QED BY <1>3, <2>1, <3>2 DEF HeadHeard, MuHeld, SubMuRead, sub
  <2>5. LastKnown'
    <3>1. ASSUME NEW s \in SubIds, last[s].type = "apply"
          PROVE  last[s].tipset.height <= currentTipSet.height
      <4>1. /\ currentTipSet # NoTipSet
            /\ last[s].tipset = currentTipSet \/ last[s].tipset.height <= currentTipSet.parent
        BY <3>1 DEF NotificationInv, LastKnown
      <4>2. last[s].tipset.height \in Int
        BY SubscriptionTypes
      <4>3. QED BY <1>3, <1>4, <4>1, <4>2
    <3>2. \A s \in SubIds : last'[s] = last[s] /\ told'[s] = told[s]
      BY <1>3 DEF written
    <3>3. QED BY <1>2, <2>1, <3>1, <3>2 DEF NotificationInv, LastKnown
  <2>6. QED BY <1>6, <2>2, <2>3, <2>4, <2>5 DEF NotificationInv
<1>8. CASE ~ (watcher.block > currentHeight) /\ currentTipSet = NoTipSet
  <2>1. watcher.block = currentHeight /\ currentHeight = 0
    BY <1>1, <1>3, <1>8
  <2>2. /\ currentHeight' = currentHeight /\ currentTipSet' = new
        /\ watcher' = Ticking
    BY <1>8, <2>1 DEF WatchHead, new
  <2>3. watcher'.pc = "tick" /\ watcher'.block = 0
    BY <2>2 DEF Ticking
  <2>4. HeadKnown' /\ PassUndisturbed'
    BY <1>1, <1>2, <1>3, <1>4, <1>8, <2>1, <2>2, <2>3
    DEF HeadKnown, PassUndisturbed, MuHeld, SubMuRead
  <2>5. OneWriter' /\ RecordedWasTold'
    BY <1>3, <2>3 DEF NotificationInv, OneWriter, RecordedWasTold, sub, written
  <2>6. HeadHeard'
    BY <1>1, <1>3, <1>5, <2>2, <2>3 DEF HeadHeard, Heard, MuHeld, SubMuRead, sub, written
  <2>7. LastKnown'
    BY <1>3, <1>8 DEF NotificationInv, LastKnown, written
  <2>8. QED BY <1>6, <2>4, <2>5, <2>6, <2>7 DEF NotificationInv
<1>9. CASE ~ (watcher.block > currentHeight) /\ currentTipSet # NoTipSet
  <2>1. currentHeight' = currentHeight /\ currentTipSet' = currentTipSet /\ watcher' = Ticking
    BY <1>9 DEF WatchHead, server
  <2>2. watcher'.pc = "tick" /\ watcher'.block = 0
    BY <2>1 DEF Ticking
  <2>3. HeadKnown' /\ PassUndisturbed'
    BY <1>1, <1>3, <1>9, <2>1, <2>2 DEF HeadKnown, PassUndisturbed, MuHeld, SubMuRead
  <2>4. OneWriter' /\ RecordedWasTold'
    BY <1>3, <2>2 DEF NotificationInv, OneWriter, RecordedWasTold, sub, written
  <2>5. HeadHeard' /\ LastKnown'
    BY <1>1, <1>3, <1>5, <2>1, <2>2
    DEF NotificationInv, HeadHeard, Heard, LastKnown, MuHeld, SubMuRead, sub, written
  <2>6. QED BY <1>6, <2>3, <2>4, <2>5 DEF NotificationInv
<1>10. QED BY <1>7, <1>8, <1>9

\* The pass has all subscriptions before it.
LEMMA WatchSubscriptionsNotified ==
  ASSUME TypeOK, NotificationInv, WatchSubscriptions PROVE NotificationInv'
<1>1. /\ watcher.pc = "rlock" /\ watcher'.pc = "check" /\ watcher'.todo = subscriptions
      /\ watcher'.block = watcher.block
      /\ \A c \in Conns : handler[c].pc # "cleaning"
      /\ UNCHANGED <<anvil, server, subscriptions, nextSubID, sub, handler, initial, written>>
  BY DEF WatchSubscriptions, TypeOK, WatcherStates
<1>2. HeadKnown' /\ PassUndisturbed'
  BY <1>1 DEF NotificationInv, HeadKnown, PassUndisturbed, MuHeld, SubMuRead, server
<1>3. Unborn' /\ OneWriter' /\ InitialPrepared' /\ RecordedWasTold' /\ LastKnown'
  BY <1>1 DEF NotificationInv, Unborn, OneWriter, InitialPrepared, RecordedWasTold, LastKnown,
              server, sub, written
<1>4. HeadHeard'
  BY <1>1 DEF NotificationInv, HeadHeard, Heard, MuHeld, SubMuRead, server, sub, written
<1>5. QED BY <1>2, <1>3, <1>4 DEF NotificationInv

\* Who is not behind was told of the head, since lastSent is never ahead of what was told.
LEMMA WatchCheckNotified ==
  ASSUME TypeOK, NotificationInv, NEW s \in SubIds, WatchCheck(s) PROVE NotificationInv'
<1>1. /\ watcher.pc = "check" /\ s \in watcher.todo
      /\ watcher'.todo = watcher.todo \ {s} /\ watcher'.block = watcher.block
      /\ IF Behind(s) THEN watcher'.pc = "send" /\ watcher'.sub = s
                      ELSE watcher'.pc = "check" /\ watcher'.sub = watcher.sub
      /\ UNCHANGED <<anvil, server, subscriptions, nextSubID, sub, handler, initial, written>>
  BY DEF WatchCheck, TypeOK, WatcherStates
<1>2. HeadKnown' /\ PassUndisturbed'
  BY <1>1 DEF NotificationInv, HeadKnown, PassUndisturbed, MuHeld, SubMuRead, server
<1>3. Unborn' /\ OneWriter' /\ InitialPrepared' /\ RecordedWasTold' /\ LastKnown'
  BY <1>1 DEF NotificationInv, Unborn, OneWriter, InitialPrepared, RecordedWasTold, LastKnown,
              server, sub, written
<1>4. ~Behind(s) /\ ~closed[s] => told[s] >= currentHeight
  <2>1. ~closed[s] => lastSent[s] <= told[s]
    BY DEF NotificationInv, RecordedWasTold
  <2>2. watcher.block = currentHeight /\ watcher.block \in Int
    BY <1>1 DEF NotificationInv, HeadKnown, MuHeld, TypeOK, WatcherStates, Heights
  <2>3. told[s] \in Int /\ lastSent[s] \in Int
    BY SubscriptionTypes
  <2>4. QED BY <2>1, <2>2, <2>3 DEF Behind
<1>5. HeadHeard'
  <2>1. ASSUME NEW t \in subscriptions, ~closed[t]
        PROVE  /\ Heard(t, currentTipSet.parent)'
               /\ \/ t \in watcher'.todo
                  \/ watcher'.sub = t /\ watcher'.pc = "send"
                  \/ told[t] >= currentHeight
    <3>1. /\ Heard(t, currentTipSet.parent)
          /\ t \in watcher.todo \/ told[t] >= currentHeight
      BY <1>1, <2>1 DEF NotificationInv, HeadHeard, MuHeld, SubMuRead
    <3>2. Heard(t, currentTipSet.parent)'
      BY <1>1, <3>1 DEF Heard, server, written
    <3>3. CASE t = s
      BY <1>1, <1>4, <2>1, <3>2, <3>3
    <3>4. CASE t # s
      BY <1>1, <3>1, <3>2, <3>4
    <3>5. QED BY <3>3, <3>4
  <2>2. /\ watcher'.pc \in {"check", "send"} /\ subscriptions' = subscriptions
        /\ closed' = closed /\ told' = told /\ currentHeight' = currentHeight
    BY <1>1 DEF server, sub, written
  <2>3. QED BY <2>1, <2>2 DEF HeadHeard, MuHeld, SubMuRead
<1>6. QED BY <1>2, <1>3, <1>5 DEF NotificationInv

\* The watcher writes to a live subscription, under its lock.
LEMMA WatchSendNotified == ASSUME TypeOK, NotificationInv, WatchSend PROVE NotificationInv'
<1>1. /\ watcher.pc = "send" /\ ~Locked(watcher.sub)
      /\ IF closed[watcher.sub] THEN watcher'.pc = "record" ELSE watcher'.pc = "writing"
      /\ watcher'.block = watcher.block /\ watcher'.sub = watcher.sub
      /\ watcher'.todo = watcher.todo
      /\ UNCHANGED <<anvil, server, subscriptions, nextSubID, sub, initial, written>>
  BY DEF WatchSend, SendSkipped, TypeOK, WatcherStates
<1>2. \A c \in Conns : handler'[c].pc # "cleaning"
  <2>1. \A c \in Conns : handler[c].pc # "cleaning"
    BY <1>1 DEF NotificationInv, PassUndisturbed, SubMuRead
  <2>2. handler' = handler \/ WriteMessageBegins(conn[watcher.sub])
    BY DEF WatchSend
  <2>3. QED BY <2>1, <2>2, WriteBeginsNoCleanup
<1>3. HeadKnown' /\ PassUndisturbed'
  BY <1>1, <1>2 DEF NotificationInv, HeadKnown, PassUndisturbed, MuHeld, SubMuRead, server
<1>4. OneWriter' /\ RecordedWasTold'
  BY <1>1 DEF NotificationInv, OneWriter, RecordedWasTold, Locked, sub, written
<1>5. Unborn' /\ InitialPrepared' /\ LastKnown'
  BY <1>1 DEF NotificationInv, Unborn, InitialPrepared, LastKnown, server, written
<1>6. HeadHeard'
  BY <1>1 DEF NotificationInv, HeadHeard, Heard, MuHeld, SubMuRead, server, sub, written
<1>7. QED BY <1>3, <1>4, <1>5, <1>6 DEF NotificationInv

\* The end of a write tells the subscription, or closes it; all others are as before.
LEMMA WrittenEffect ==
  ASSUME TypeOK, NEW s \in SubIds, NEW change \in HeadChanges, NotificationWritten(s, change)
  PROVE  /\ \A t \in SubIds \ {s} :
               last'[t] = last[t] /\ told'[t] = told[t] /\ closed'[t] = closed[t]
         /\ told'[s] >= told[s] /\ told'[s] \in Int
         /\ \/ /\ closed'[s] = closed[s] /\ last'[s] = change
               /\ told'[s] >= change.tipset.height
            \/ closed'[s] /\ last'[s] = last[s] /\ told'[s] = told[s]
<1>1. change.tipset.height \in Int /\ told[s] \in Int
  BY SubscriptionTypes, TipSetHeights DEF HeadChanges
<1>2. /\ last \in [SubIds -> HeadChanges \cup {NoChange}] /\ told \in [SubIds -> {-1} \cup Heights]
      /\ closed \in [SubIds -> BOOLEAN]
  BY DEF TypeOK
<1>3. CASE /\ last' = [last EXCEPT ![s] = change]
           /\ told' = [told EXCEPT ![s] = IF @ < change.tipset.height
                                          THEN change.tipset.height ELSE @]
           /\ UNCHANGED closed
  <2>1. /\ last'[s] = change /\ closed' = closed
        /\ told'[s] = IF told[s] < change.tipset.height THEN change.tipset.height ELSE told[s]
        /\ \A t \in SubIds \ {s} : last'[t] = last[t] /\ told'[t] = told[t]
    BY <1>2, <1>3
  <2>2. QED BY <1>1, <2>1
<1>4. CASE closed' = [closed EXCEPT ![s] = TRUE] /\ UNCHANGED written
  BY <1>1, <1>2, <1>4 DEF written
<1>5. QED BY <1>3, <1>4 DEF NotificationWritten

\* What the watcher writes at the end of a write.
LEMMA WatchWrites ==
  ASSUME TypeOK, NotificationInv, WatchWritten
  PROVE  /\ watcher.sub \in subscriptions /\ watcher.sub \in SubIds /\ ~closed[watcher.sub]
         /\ currentTipSet \in TipSets /\ currentTipSet.height = currentHeight
         /\ [type |-> "apply", tipset |-> currentTipSet] \in HeadChanges
         /\ NotificationWritten(watcher.sub, [type |-> "apply", tipset |-> currentTipSet])
<1>1. watcher.pc = "writing"
  BY DEF WatchWritten
<1>2. watcher.sub \in subscriptions /\ watcher.sub \in SubIds
  BY <1>1 DEF NotificationInv, PassUndisturbed, SubMuRead, TypeOK
<1>3. ~closed[watcher.sub]
  BY <1>1, <1>2 DEF NotificationInv, OneWriter
<1>4. currentTipSet \in TipSets /\ currentTipSet.height = currentHeight
  BY <1>1 DEF NotificationInv, HeadKnown, MuHeld, TypeOK
<1>5. QED BY <1>2, <1>3, <1>4 DEF WatchWritten, HeadChanges

\* The subscription was told of the head, or is closed.
LEMMA WatchWrittenNotified == ASSUME TypeOK, NotificationInv, WatchWritten PROVE NotificationInv'
<1> DEFINE s == watcher.sub
           change == [type |-> "apply", tipset |-> currentTipSet]
<1>1. /\ s \in subscriptions /\ s \in SubIds /\ ~closed[s]
      /\ currentTipSet \in TipSets /\ currentTipSet.height = currentHeight
      /\ change \in HeadChanges /\ NotificationWritten(s, change)
  BY WatchWrites
<1>2. /\ watcher.pc = "writing" /\ watcher'.pc = "record"
      /\ watcher'.block = watcher.block /\ watcher'.sub = s /\ watcher'.todo = watcher.todo
      /\ UNCHANGED <<anvil, server, subscriptions, nextSubID, conn, lastSent, handler, open,
                     initial, crashed>>
  BY DEF WatchWritten, TypeOK, WatcherStates
<1>3. change.tipset = currentTipSet /\ change.type = "apply"
  OBVIOUS
<1>4. /\ \A t \in SubIds \ {s} :
            last'[t] = last[t] /\ told'[t] = told[t] /\ closed'[t] = closed[t]
      /\ told'[s] >= told[s] /\ told'[s] \in Int
      /\ \/ closed'[s] = closed[s] /\ last'[s] = change /\ told'[s] >= currentHeight
         \/ closed'[s] /\ last'[s] = last[s] /\ told'[s] = told[s]
  <2> HIDE DEF s, change
  <2>1. change.tipset.height = currentHeight
    BY <1>1, <1>3
  <2>2. QED BY <1>1, <2>1, WrittenEffect
<1> HIDE DEF change
<1>5. watcher.block = currentHeight /\ currentHeight \in Int
  BY <1>2 DEF NotificationInv, HeadKnown, MuHeld, TypeOK, Heights
<1>6. HeadKnown' /\ PassUndisturbed' /\ InitialPrepared'
  BY <1>2 DEF NotificationInv, HeadKnown, PassUndisturbed, InitialPrepared, MuHeld, SubMuRead, server
<1>7. Unborn'
  <2>1. s <= nextSubID
    BY <1>1 DEF NotificationInv, Unborn, TypeOK, SubIds
  <2>2. \A t \in SubIds : t > nextSubID => t \in SubIds \ {s}
    BY <2>1 DEF TypeOK, SubIds
  <2>3. QED BY <1>2, <1>4, <2>2 DEF NotificationInv, Unborn
<1>8. OneWriter'
  <2>1. ASSUME NEW t \in SubIds, initial[t].pc = "writing" PROVE ~closed'[t]
    <3>1. ~closed[t] /\ t # s
      BY <1>2, <2>1 DEF NotificationInv, OneWriter
    <3>2. QED BY <1>4, <3>1
  <2>2. QED BY <1>2, <2>1 DEF OneWriter
<1>9. RecordedWasTold'
  <2>1. ASSUME NEW t \in SubIds, ~closed'[t]
        PROVE  /\ ~closed[t] /\ told'[t] >= told[t] /\ told'[t] \in Int /\ told[t] \in Int
               /\ t = s => told'[t] >= watcher.block
    <3>1. told[t] \in Int
      BY SubscriptionTypes
    <3>2. CASE t = s
      BY <1>1, <1>4, <1>5, <2>1, <3>1, <3>2
    <3>3. CASE t # s
      BY <1>4, <2>1, <3>1, <3>3
    <3>4. QED BY <3>2, <3>3
  <2>2. ASSUME NEW t \in SubIds, ~closed'[t]
        PROVE  /\ lastSent[t] <= told'[t]
               /\ initial[t].pc = "record" => initial[t].tipset.height <= told'[t]
               /\ initial[t].pc \in {"record", "done"} => told'[t] >= 0
               /\ s = t => watcher.block <= told'[t]
    <3>1. /\ lastSent[t] <= told[t]
          /\ initial[t].pc = "record" => initial[t].tipset.height <= told[t]
          /\ initial[t].pc \in {"record", "done"} => told[t] >= 0
      BY <2>1, <2>2 DEF NotificationInv, RecordedWasTold
    <3>2. lastSent[t] \in Int /\ initial[t].tipset.height \in Int /\ watcher.block \in Int
      BY <1>5, SubscriptionTypes
    <3>3. QED BY <2>1, <2>2, <3>1, <3>2
  <2>3. QED BY <1>2, <2>2 DEF RecordedWasTold
<1>10. HeadHeard'
  <2>1. ASSUME NEW t \in subscriptions, ~closed'[t]
        PROVE  /\ Heard(t, currentTipSet.parent)'
               /\ t \in watcher.todo \/ told'[t] >= currentHeight
    <3>1. t \in SubIds
      BY DEF TypeOK
    <3>2. CASE t = s
      <4>1. told'[t] >= currentHeight /\ told'[t] \in Int
        BY <1>1, <1>4, <2>1, <3>2
      <4>2. currentTipSet.parent <= currentHeight /\ currentTipSet.parent \in Int
        BY <1>1, TipSetHeights DEF NotificationInv, HeadKnown
      <4>3. told'[t] >= currentTipSet.parent
        BY <1>5, <4>1, <4>2
      <4>4. QED BY <1>2, <4>1, <4>3 DEF Heard, server
    <3>3. CASE t # s
      <4>1. ~closed[t] /\ told'[t] = told[t] /\ initial'[t] = initial[t]
        BY <1>2, <1>4, <2>1, <3>1, <3>3
      <4>2. /\ Heard(t, currentTipSet.parent)
            /\ t \in watcher.todo \/ told[t] >= currentHeight
        BY <1>2, <3>3, <4>1 DEF NotificationInv, HeadHeard, MuHeld, SubMuRead
      <4>3. QED BY <1>2, <4>1, <4>2 DEF Heard, server
    <3>4. QED BY <3>2, <3>3
  <2>2. /\ watcher'.pc = "record" /\ watcher'.todo = watcher.todo
        /\ subscriptions' = subscriptions /\ currentHeight' = currentHeight
    BY <1>2 DEF server
  <2>3. QED BY <2>1, <2>2 DEF HeadHeard, MuHeld, SubMuRead
<1>11. LastKnown'
  <2>1. ASSUME NEW t \in SubIds
        PROVE  /\ last'[t].tipset.height <= told'[t]
               /\ last'[t].type = "apply" =>
                     /\ currentTipSet # NoTipSet
                     /\ \/ last'[t].tipset = currentTipSet
                        \/ last'[t].tipset.height <= currentTipSet.parent
    <3>1. /\ last[t].tipset.height <= told[t]
          /\ last[t].type = "apply" =>
                /\ currentTipSet # NoTipSet
                /\ \/ last[t].tipset = currentTipSet
                   \/ last[t].tipset.height <= currentTipSet.parent
      BY DEF NotificationInv, LastKnown
    <3>2. CASE t = s /\ last'[s] = change /\ told'[s] >= currentHeight
      <4>1. last'[t].tipset = currentTipSet /\ currentTipSet # NoTipSet
        BY <1>1, <1>3, <3>2, TipSetHeights
      <4>2. QED BY <1>1, <1>4, <1>5, <3>2, <4>1
    <3>3. CASE last'[t] = last[t] /\ told'[t] = told[t]
      BY <3>1, <3>3
    <3>4. QED BY <1>4, <3>2, <3>3
  <2>2. QED BY <1>2, <2>1 DEF LastKnown, server
<1>12. QED
  BY <1>6, <1>7, <1>8, <1>9, <1>10, <1>11 DEF NotificationInv

\* What the watcher records, it was told.
LEMMA WatchRecordNotified == ASSUME TypeOK, NotificationInv, WatchRecord PROVE NotificationInv'
<1>1. /\ watcher.pc = "record" /\ watcher'.pc = "check"
      /\ watcher'.block = watcher.block /\ watcher'.todo = watcher.todo
      /\ lastSent' = [lastSent EXCEPT ![watcher.sub] = watcher.block]
      /\ UNCHANGED <<anvil, server, subscriptions, nextSubID, conn, closed, handler, open,
                     initial, written, crashed>>
  BY DEF WatchRecord, TypeOK, WatcherStates
<1>2. HeadKnown' /\ PassUndisturbed'
  BY <1>1 DEF NotificationInv, HeadKnown, PassUndisturbed, MuHeld, SubMuRead, server
<1>3. Unborn' /\ OneWriter' /\ InitialPrepared' /\ LastKnown'
  BY <1>1 DEF NotificationInv, Unborn, OneWriter, InitialPrepared, LastKnown, server, written
<1>4. RecordedWasTold'
  BY <1>1 DEF NotificationInv, RecordedWasTold, TypeOK, written
<1>5. HeadHeard'
  BY <1>1 DEF NotificationInv, HeadHeard, Heard, MuHeld, SubMuRead, server, written
<1>6. QED BY <1>2, <1>3, <1>4, <1>5 DEF NotificationInv

\* After the pass every live subscription has heard the head.
LEMMA WatchPassDoneNotified == ASSUME TypeOK, NotificationInv, WatchPassDone PROVE NotificationInv'
<1>1. /\ watcher.pc = "check" /\ watcher.todo = {}
      /\ watcher'.pc = "tick" /\ watcher'.block = 0
      /\ UNCHANGED <<anvil, server, subscriptions, nextSubID, sub, handler, initial, written>>
  BY DEF WatchPassDone, Ticking
<1>2. HeadKnown' /\ PassUndisturbed'
  BY <1>1 DEF NotificationInv, HeadKnown, PassUndisturbed, MuHeld, SubMuRead, server, TypeOK, Heights
<1>3. Unborn' /\ OneWriter' /\ InitialPrepared' /\ RecordedWasTold' /\ LastKnown'
  BY <1>1 DEF NotificationInv, Unborn, OneWriter, InitialPrepared, RecordedWasTold, LastKnown,
              server, sub, written
<1>4. HeadHeard'
  BY <1>1 DEF NotificationInv, HeadHeard, Heard, MuHeld, SubMuRead, server, sub, written
<1>5. QED BY <1>2, <1>3, <1>4 DEF NotificationInv

-----------------------------------------------------------------------------
(* Steps of the first notifiers.                                           *)

\* A first notification that is read from the server shows the head.
LEMMA InitialReadNotified ==
  ASSUME TypeOK, NotificationInv, NEW s \in SubIds, InitialRead(s) PROVE NotificationInv'
<1>1. /\ initial[s].pc = "sleeping" /\ ~MuHeld
      /\ \A t \in SubIds \ {s} : initial'[t] = initial[t]
      /\ IF currentTipSet = NoTipSet
         THEN initial'[s].pc = "fetching"
         ELSE initial'[s].pc = "send" /\ initial'[s].tipset = currentTipSet
      /\ UNCHANGED <<anvil, server, subscriptions, nextSubID, sub, handler, watcher, written>>
  BY DEF InitialRead, TypeOK, InitialStates
<1>2. HeadKnown' /\ PassUndisturbed' /\ LastKnown'
  BY <1>1 DEF NotificationInv, HeadKnown, PassUndisturbed, LastKnown, MuHeld, SubMuRead,
              server, written
<1>3. Unborn' /\ OneWriter' /\ RecordedWasTold'
  BY <1>1 DEF NotificationInv, Unborn, OneWriter, RecordedWasTold, sub, written
<1>4. InitialPrepared'
  BY <1>1 DEF NotificationInv, InitialPrepared, TypeOK
<1>5. HeadHeard'
  <2>1. currentTipSet # NoTipSet => currentTipSet.height = currentHeight /\ currentHeight \in Int
    BY DEF NotificationInv, HeadKnown, TypeOK, Heights
  <2>2. ASSUME NEW t \in subscriptions, ~closed[t] PROVE Heard(t, currentHeight)'
    <3>1. Heard(t, currentHeight) /\ t \in SubIds
      BY <1>1, <2>2 DEF NotificationInv, HeadHeard, TypeOK
    <3>2. CASE t = s
      BY <1>1, <2>1, <3>1, <3>2 DEF Heard, server, written
    <3>3. CASE t # s
      BY <1>1, <3>1, <3>3 DEF Heard, server, written
    <3>4. QED BY <3>2, <3>3
  <2>3. QED BY <1>1, <2>2 DEF HeadHeard, MuHeld, SubMuRead, sub
<1>6. QED BY <1>2, <1>3, <1>4, <1>5 DEF NotificationInv

\* One that is fetched shows Anvil's last block, which is no earlier than the head.
LEMMA InitialFetchNotified ==
  ASSUME TypeOK, NotificationInv, NEW s \in SubIds, InitialFetch(s) PROVE NotificationInv'
<1>1. /\ initial[s].pc = "fetching"
      /\ UNCHANGED <<anvil, server, subscriptions, nextSubID, sub, handler, watcher, written>>
  BY DEF InitialFetch
<1>2. PICK blockNum \in GetAnvilBlockNumber :
         initial' = [initial EXCEPT ![s] =
                       IF blockNum = NoAnswer THEN Over("failed")
                       ELSE [pc |-> "send", tipset |-> MockTipSet(blockNum, NoTipSet)]]
  BY DEF InitialFetch
<1> DEFINE shown == MockTipSet(blockNum, NoTipSet)
<1>3. blockNum # NoAnswer => shown \in TipSets /\ shown.height = anvil
  BY AnvilAnswers, MockTipSetType DEF TypeOK
<1> HIDE DEF shown
<1>4. /\ \A t \in SubIds \ {s} : initial'[t] = initial[t]
      /\ \/ initial'[s].pc = "failed"
         \/ /\ initial'[s].pc = "send" /\ initial'[s].tipset \in TipSets
            /\ initial'[s].tipset.height = anvil
  BY <1>2, <1>3 DEF TypeOK, Over, shown
<1>5. HeadKnown' /\ PassUndisturbed' /\ LastKnown'
  BY <1>1 DEF NotificationInv, HeadKnown, PassUndisturbed, LastKnown, MuHeld, SubMuRead,
              server, written
<1>6. Unborn' /\ OneWriter' /\ RecordedWasTold' /\ InitialPrepared'
  BY <1>1, <1>4 DEF NotificationInv, Unborn, OneWriter, RecordedWasTold, InitialPrepared, sub, written
<1>7. HeadHeard'
  <2>1. currentHeight \in Int /\ anvil \in Int /\ currentHeight <= anvil
    BY DEF NotificationInv, HeadKnown, TypeOK, Heights
  <2>2. MuHeld => currentTipSet.parent \in Int /\ currentTipSet.parent <= anvil
    <3>1. currentTipSet.parent \in Int
      BY TipSetHeights DEF TypeOK
    <3>2. MuHeld => currentTipSet.parent <= currentHeight
      BY DEF NotificationInv, HeadKnown
    <3>3. QED BY <2>1, <3>1, <3>2
  <2>3. ASSUME NEW t \in subscriptions, NEW h \in Int, h <= anvil, Heard(t, h)
        PROVE  \/ told'[t] >= h
               \/ told'[t] = -1 /\ (initial'[t].pc \in {"send", "writing"} =>
                                       initial'[t].tipset.height >= h)
    <3>1. t \in SubIds /\ told' = told
      BY <1>1 DEF TypeOK, written
    <3>2. CASE t = s
      BY <1>1, <1>4, <2>1, <2>3, <3>1, <3>2 DEF Heard
    <3>3. CASE t # s
      BY <1>4, <2>3, <3>1, <3>3 DEF Heard
    <3>4. QED BY <3>2, <3>3
  <2>4. ASSUME NEW t \in subscriptions, ~closed[t]
        PROVE  /\ ~MuHeld => Heard(t, currentHeight)'
               /\ MuHeld => Heard(t, currentTipSet.parent)'
    <3>1. /\ ~MuHeld => Heard(t, currentHeight)
          /\ MuHeld => Heard(t, currentTipSet.parent)
      BY <2>4 DEF NotificationInv, HeadHeard
    <3>2. ~MuHeld => Heard(t, currentHeight)'
      BY <1>1, <2>1, <2>3, <3>1 DEF Heard, server
    <3>3. MuHeld => Heard(t, currentTipSet.parent)'
      BY <1>1, <2>2, <2>3, <3>1 DEF Heard, server
    <3>4. QED BY <3>2, <3>3
  <2>5. QED BY <1>1, <2>4 DEF NotificationInv, HeadHeard, MuHeld, SubMuRead, server, sub, written
<1>8. QED BY <1>5, <1>6, <1>7 DEF NotificationInv

\* The first notifier writes to a live subscription, under its lock.
LEMMA InitialSendNotified ==
  ASSUME TypeOK, NotificationInv, NEW s \in SubIds, InitialSend(s) PROVE NotificationInv'
<1>1. /\ initial[s].pc = "send" /\ ~Locked(s)
      /\ IF closed[s] THEN initial'[s].pc = "record" ELSE initial'[s].pc = "writing"
      /\ initial'[s].tipset = initial[s].tipset
      /\ \A t \in SubIds \ {s} : initial'[t] = initial[t]
      /\ UNCHANGED <<anvil, server, subscriptions, nextSubID, sub, watcher, written>>
  BY DEF InitialSend, SendSkipped, TypeOK, InitialStates
<1>2. \A c \in Conns : handler'[c].pc = "cleaning" => handler[c].pc = "cleaning"
  <2>1. handler' = handler \/ WriteMessageBegins(conn[s])
    BY DEF InitialSend
  <2>2. QED BY <2>1, WriteBeginsNoCleanup
<1>3. HeadKnown' /\ PassUndisturbed' /\ LastKnown'
  BY <1>1, <1>2 DEF NotificationInv, HeadKnown, PassUndisturbed, LastKnown, MuHeld, SubMuRead,
                    server, written
<1>4. Unborn' /\ OneWriter' /\ InitialPrepared'
  BY <1>1 DEF NotificationInv, Unborn, OneWriter, InitialPrepared, Locked, sub, written
<1>5. RecordedWasTold'
  BY <1>1 DEF NotificationInv, RecordedWasTold, sub, written
<1>6. HeadHeard'
  BY <1>1 DEF NotificationInv, HeadHeard, Heard, MuHeld, SubMuRead, server, sub, written, TypeOK
<1>7. QED BY <1>3, <1>4, <1>5, <1>6 DEF NotificationInv

\* The subscription was told of what its first notification shows, or is closed.
LEMMA InitialWrittenNotified ==
  ASSUME TypeOK, NotificationInv, NEW s \in SubIds, InitialWritten(s) PROVE NotificationInv'
<1> DEFINE change == [type |-> "current", tipset |-> initial[s].tipset]
<1>1. /\ initial[s].pc = "writing" /\ initial'[s].pc = "record"
      /\ initial'[s].tipset = initial[s].tipset
      /\ \A t \in SubIds \ {s} : initial'[t] = initial[t]
      /\ NotificationWritten(s, change)
      /\ UNCHANGED <<anvil, server, subscriptions, nextSubID, conn, lastSent, handler, open,
                     watcher, crashed>>
  BY DEF InitialWritten, TypeOK, InitialStates
<1>2. change \in HeadChanges /\ change.tipset = initial[s].tipset /\ change.type = "current"
      /\ initial[s].tipset.height \in Nat
  BY <1>1, TipSetHeights DEF NotificationInv, InitialPrepared, HeadChanges, TipSets, Heights
<1> HIDE DEF change
<1>3. /\ \A t \in SubIds \ {s} :
            last'[t] = last[t] /\ told'[t] = told[t] /\ closed'[t] = closed[t]
      /\ told'[s] >= told[s] /\ told'[s] \in Int
      /\ \/ closed'[s] = closed[s] /\ last'[s] = change /\ told'[s] >= initial[s].tipset.height
         \/ closed'[s] /\ last'[s] = last[s] /\ told'[s] = told[s]
  BY <1>1, <1>2, WrittenEffect
<1>4. ~closed[s] /\ s <= nextSubID /\ ~ (watcher.pc = "writing" /\ watcher.sub = s)
  BY <1>1 DEF NotificationInv, OneWriter, Unborn, TypeOK, SubIds
<1>5. HeadKnown' /\ PassUndisturbed'
  BY <1>1 DEF NotificationInv, HeadKnown, PassUndisturbed, MuHeld, SubMuRead, server
<1>6. Unborn'
  <2>1. \A t \in SubIds : t > nextSubID => t \in SubIds \ {s}
    BY <1>4 DEF TypeOK, SubIds
  <2>2. QED BY <1>1, <1>3, <2>1 DEF NotificationInv, Unborn
<1>7. InitialPrepared'
  BY <1>1 DEF NotificationInv, InitialPrepared
<1>8. OneWriter'
  <2>1. ASSUME NEW t \in SubIds
        PROVE  /\ initial'[t].pc = "writing" =>
                     ~closed'[t] /\ ~ (watcher.pc = "writing" /\ watcher.sub = t)
               /\ watcher.pc = "writing" /\ watcher.sub = t => ~closed'[t]
    <3>1. CASE t = s
      BY <1>1, <1>4, <3>1
    <3>2. CASE t # s
      BY <1>1, <1>3, <3>2 DEF NotificationInv, OneWriter
    <3>3. QED BY <3>1, <3>2
  <2>2. QED BY <1>1, <2>1 DEF OneWriter
<1>9. RecordedWasTold'
  <2>1. ASSUME NEW t \in SubIds, ~closed'[t]
        PROVE  /\ lastSent[t] <= told'[t]
               /\ initial'[t].pc = "record" => initial'[t].tipset.height <= told'[t]
               /\ initial'[t].pc \in {"record", "done"} => told'[t] >= 0
               /\ watcher.pc = "record" /\ watcher.sub = t => watcher.block <= told'[t]
    <3>1. CASE t = s
      <4>1. /\ lastSent[t] <= told[t]
            /\ watcher.pc = "record" /\ watcher.sub = t => watcher.block <= told[t]
        BY <1>4, <3>1 DEF NotificationInv, RecordedWasTold
      <4>2. told[t] \in Int /\ lastSent[t] \in Int /\ watcher.block \in Int
        BY SubscriptionTypes DEF TypeOK, WatcherStates, Heights
      <4>3. told'[t] >= initial[s].tipset.height
        BY <1>3, <2>1, <3>1
      <4>4. QED BY <1>1, <1>2, <1>3, <3>1, <4>1, <4>2, <4>3
    <3>2. CASE t # s
      BY <1>1, <1>3, <2>1, <3>2 DEF NotificationInv, RecordedWasTold
    <3>3. QED BY <3>1, <3>2
  <2>2. QED BY <1>1, <2>1 DEF RecordedWasTold
<1>10. HeadHeard'
  <2>1. currentHeight \in Int /\ currentTipSet.parent \in Int
    BY TipSetHeights DEF TypeOK, Heights
  <2>2. ASSUME NEW t \in SubIds, NEW h \in Int, ~closed'[t], Heard(t, h)
        PROVE  \/ told'[t] >= h
               \/ told'[t] = -1 /\ (initial'[t].pc \in {"send", "writing"} =>
                                       initial'[t].tipset.height >= h)
    <3>1. CASE t = s
      <4>1. told[t] >= h \/ initial[t].tipset.height >= h
        BY <1>1, <2>2, <3>1 DEF Heard
      <4>2. told[t] \in Int
        BY SubscriptionTypes
      <4>3. told'[t] >= h
        BY <1>2, <1>3, <2>2, <3>1, <4>1, <4>2
      <4>4. QED BY <4>3
    <3>2. CASE t # s
      BY <1>1, <1>3, <2>2, <3>2 DEF Heard
    <3>3. QED BY <3>1, <3>2
  <2>3. ASSUME NEW t \in subscriptions, ~closed'[t]
        PROVE  /\ ~MuHeld => Heard(t, currentHeight)'
               /\ MuHeld => Heard(t, currentTipSet.parent)'
               /\ SubMuRead => \/ t \in watcher.todo
                               \/ watcher.sub = t /\ watcher.pc \in {"send", "writing"}
                               \/ told'[t] >= currentHeight
    <3>1. t \in SubIds /\ ~closed[t]
      BY <1>3, <1>4, <2>3 DEF TypeOK
    <3>2. /\ ~MuHeld => Heard(t, currentHeight)
          /\ MuHeld => Heard(t, currentTipSet.parent)
          /\ SubMuRead => \/ t \in watcher.todo
                          \/ watcher.sub = t /\ watcher.pc \in {"send", "writing"}
                          \/ told[t] >= currentHeight
      BY <3>1 DEF NotificationInv, HeadHeard
    <3>3. ~MuHeld => Heard(t, currentHeight)'
      BY <1>1, <2>1, <2>2, <2>3, <3>1, <3>2 DEF Heard, server
    <3>4. MuHeld => Heard(t, currentTipSet.parent)'
      BY <1>1, <2>1, <2>2, <2>3, <3>1, <3>2 DEF Heard, server
    <3>5. told[t] >= currentHeight => told'[t] >= currentHeight
      <4>1. told[t] \in Int
        BY <3>1, SubscriptionTypes
      <4>2. QED BY <1>3, <2>1, <3>1, <4>1
    <3>6. QED BY <3>2, <3>3, <3>4, <3>5
  <2>4. QED BY <1>1, <2>3 DEF HeadHeard, MuHeld, SubMuRead, server
<1>11. LastKnown'
  <2>1. ASSUME NEW t \in SubIds
        PROVE  /\ last'[t].tipset.height <= told'[t]
               /\ last'[t].type = "apply" =>
                     /\ currentTipSet # NoTipSet
                     /\ \/ last'[t].tipset = currentTipSet
                        \/ last'[t].tipset.height <= currentTipSet.parent
    <3>1. /\ last[t].tipset.height <= told[t]
          /\ last[t].type = "apply" =>
                /\ currentTipSet # NoTipSet
                /\ \/ last[t].tipset = currentTipSet
                   \/ last[t].tipset.height <= currentTipSet.parent
      BY DEF NotificationInv, LastKnown
    <3>2. CASE t = s /\ last'[s] = change /\ told'[s] >= initial[s].tipset.height
      BY <1>2, <1>3, <3>2
    <3>3. CASE last'[t] = last[t] /\ told'[t] = told[t]
      BY <3>1, <3>3
    <3>4. QED BY <1>3, <3>2, <3>3
  <2>2. QED BY <1>1, <2>1 DEF LastKnown, server
<1>12. QED
  BY <1>5, <1>6, <1>7, <1>8, <1>9, <1>10, <1>11 DEF NotificationInv

\* What the first notifier records, the subscription was told.
LEMMA InitialRecordNotified ==
  ASSUME TypeOK, NotificationInv, NEW s \in SubIds, InitialRecord(s) PROVE NotificationInv'
<1>1. /\ initial[s].pc = "record" /\ initial'[s].pc = "done"
      /\ \A t \in SubIds \ {s} : initial'[t] = initial[t]
      /\ lastSent'[s] = initial[s].tipset.height
      /\ \A t \in SubIds \ {s} : lastSent'[t] = lastSent[t]
      /\ UNCHANGED <<anvil, server, subscriptions, nextSubID, conn, closed, handler, open,
                     watcher, written, crashed>>
  BY DEF InitialRecord, HeightSent, Over, TypeOK
<1>2. HeadKnown' /\ PassUndisturbed' /\ LastKnown'
  BY <1>1 DEF NotificationInv, HeadKnown, PassUndisturbed, LastKnown, MuHeld, SubMuRead,
              server, written
<1>3. Unborn' /\ OneWriter' /\ InitialPrepared'
  BY <1>1 DEF NotificationInv, Unborn, OneWriter, InitialPrepared, written
<1>4. RecordedWasTold'
  BY <1>1 DEF NotificationInv, RecordedWasTold, written
<1>5. HeadHeard'
  BY <1>1 DEF NotificationInv, HeadHeard, Heard, MuHeld, SubMuRead, server, written, TypeOK
<1>6. QED BY <1>2, <1>3, <1>4, <1>5 DEF NotificationInv

-----------------------------------------------------------------------------
(* Steps of the connections.                                               *)

\* A new subscription was told nothing yet, and is in the map before its first notification
\* is prepared.
LEMMA ChainNotifyNotified ==
  ASSUME TypeOK, AskedFit, NotificationInv, NEW c \in Conns, HandleChainNotify(c)
  PROVE  NotificationInv'
<1> DEFINE subID == nextSubID + 1
<1>1. subID \in SubIds
  BY NextIdFits DEF HandleChainNotify, Asked
<1>2. nextSubID \in Int /\ subID = nextSubID + 1
  BY DEF TypeOK
<1> HIDE DEF subID
<1>3. /\ nextSubID' = subID /\ subscriptions' = subscriptions \cup {subID}
      /\ initial' = [initial EXCEPT ![subID].pc = "sleeping"]
      /\ ~SubMuRead
      /\ UNCHANGED <<anvil, server, closed, lastSent, watcher, written>>
  BY DEF HandleChainNotify, SubMuFree, subID
<1>4. /\ initial'[subID].pc = "sleeping" /\ initial[subID].pc = "unborn" /\ told[subID] = -1
      /\ \A t \in SubIds \ {subID} : initial'[t] = initial[t]
  BY <1>1, <1>2, <1>3 DEF NotificationInv, Unborn, TypeOK, InitialStates
<1>5. HeadKnown' /\ PassUndisturbed' /\ LastKnown'
  BY <1>3 DEF NotificationInv, HeadKnown, PassUndisturbed, LastKnown, MuHeld, SubMuRead,
              server, written
<1>6. Unborn'
  <2>1. \A t \in SubIds : t > subID => t > nextSubID /\ t # subID
    BY <1>1, <1>2 DEF SubIds
  <2>2. QED BY <1>3, <1>4, <2>1 DEF NotificationInv, Unborn, written
<1>7. OneWriter' /\ InitialPrepared'
  BY <1>3, <1>4 DEF NotificationInv, OneWriter, InitialPrepared
<1>8. RecordedWasTold'
  BY <1>3, <1>4 DEF NotificationInv, RecordedWasTold, written
<1>9. HeadHeard'
  <2>1. ASSUME NEW t \in subscriptions', ~closed[t]
        PROVE  /\ ~MuHeld => Heard(t, currentHeight)'
               /\ MuHeld => Heard(t, currentTipSet.parent)'
    <3>1. CASE t = subID
      BY <1>3, <1>4, <3>1 DEF Heard, server, written
    <3>2. CASE t # subID
      <4>1. t \in subscriptions /\ t \in SubIds \ {subID}
        BY <1>3, <3>2 DEF TypeOK
      <4>2. QED BY <1>3, <1>4, <2>1, <4>1 DEF NotificationInv, HeadHeard, Heard, server, written
    <3>3. QED BY <3>1, <3>2
  <2>2. QED BY <1>3, <2>1 DEF HeadHeard, MuHeld, SubMuRead
<1>10. QED BY <1>5, <1>6, <1>7, <1>8, <1>9 DEF NotificationInv

\* A clean-up closes a subscription that nobody writes to, between two passes.
LEMMA CleanupNotified ==
  ASSUME TypeOK, NotificationInv, NEW c \in Conns, NEW s \in SubIds, CleanupSubscription(c, s)
  PROVE  NotificationInv'
<1>1. /\ handler[c].pc = "cleaning" /\ ~Locked(s)
      /\ closed'[s] /\ \A t \in SubIds \ {s} : closed'[t] = closed[t]
      /\ subscriptions' = subscriptions \ {s}
      /\ UNCHANGED <<anvil, server, nextSubID, conn, lastSent, handler, open, watcher, initial, written>>
  BY DEF CleanupSubscription, TypeOK
<1>2. ~SubMuRead
  BY <1>1 DEF NotificationInv, PassUndisturbed
<1>3. HeadKnown' /\ PassUndisturbed' /\ LastKnown'
  BY <1>1, <1>2 DEF NotificationInv, HeadKnown, PassUndisturbed, LastKnown, MuHeld, SubMuRead,
                    server, written
<1>4. Unborn' /\ OneWriter' /\ InitialPrepared' /\ RecordedWasTold'
  BY <1>1 DEF NotificationInv, Unborn, OneWriter, InitialPrepared, RecordedWasTold, Locked, written
<1>5. HeadHeard'
  BY <1>1, <1>2 DEF NotificationInv, HeadHeard, Heard, MuHeld, SubMuRead, server, written, TypeOK
<1>6. QED BY <1>3, <1>4, <1>5 DEF NotificationInv

\* Everything else that a connection does concerns nobody's notifications; a clean-up
\* begins between two passes.
LEMMA ConnectionsNotified ==
  ASSUME TypeOK, NotificationInv, NEW c \in Conns,
         \/ HandleChainHead(c) \/ SendResponse(c) \/ ResponseWritten(c) \/ CleanupBegins(c)
         \/ CleanupEnds(c) \/ Connect(c) \/ Disconnect(c) \/ ReadMessage(c)
  PROVE  NotificationInv'
<1>1. UNCHANGED <<anvil, server, subscriptions, nextSubID, sub, watcher, initial, written>>
  BY DEF HandleChainHead, SendResponse, ResponseWritten, CleanupBegins, CleanupEnds, Connect,
         Disconnect, ReadMessage
<1>2. SubMuRead => \A d \in Conns : handler'[d].pc # "cleaning"
  <2>1. SubMuRead => \A d \in Conns : handler[d].pc # "cleaning"
    BY DEF NotificationInv, PassUndisturbed
  <2>2. CASE CleanupBegins(c)
    BY <2>2 DEF CleanupBegins, SubMuFree
  <2>3. CASE ReadMessage(c)
    BY <2>1, <2>3 DEF ReadMessage, OtherHandled, Serving, TypeOK
  <2>4. CASE \/ HandleChainHead(c) \/ SendResponse(c) \/ ResponseWritten(c)
             \/ CleanupEnds(c) \/ Connect(c) \/ Disconnect(c)
    <3>1. handler[c] \in HandlerStates
      BY DEF TypeOK
    <3>2. \/ handler' = handler
          \/ handler' = [handler EXCEPT ![c] = Serving("respond")]
          \/ \E pc \in {"writing", "reading", "gone"} : handler' = [handler EXCEPT ![c].pc = pc]
      <4>1. CASE HandleChainHead(c)
        BY <4>1 DEF HandleChainHead
      <4>2. CASE SendResponse(c)
        BY <4>2 DEF SendResponse, HandlerDies
      <4>3. CASE ResponseWritten(c) \/ CleanupEnds(c)
        BY <4>3 DEF ResponseWritten, CleanupEnds
      <4>4. CASE Connect(c) \/ Disconnect(c)
        BY <4>4 DEF Connect, Disconnect
      <4>5. QED BY <2>4, <4>1, <4>2, <4>3, <4>4
    <3>3. \A d \in Conns : handler'[d].pc = "cleaning" => handler[d].pc = "cleaning"
      BY <3>1, <3>2 DEF TypeOK, HandlerStates, Serving
    <3>4. QED BY <2>1, <3>3
  <2>5. QED BY <2>2, <2>3, <2>4
<1>3. HeadKnown' /\ PassUndisturbed' /\ LastKnown'
  BY <1>1, <1>2 DEF NotificationInv, HeadKnown, PassUndisturbed, LastKnown, MuHeld, SubMuRead,
                    server, written
<1>4. Unborn' /\ OneWriter' /\ InitialPrepared' /\ RecordedWasTold'
  BY <1>1 DEF NotificationInv, Unborn, OneWriter, InitialPrepared, RecordedWasTold, sub, written
<1>5. HeadHeard'
  BY <1>1 DEF NotificationInv, HeadHeard, Heard, MuHeld, SubMuRead, server, sub, written
<1>6. QED BY <1>3, <1>4, <1>5 DEF NotificationInv

-----------------------------------------------------------------------------
(* The invariant holds.                                                    *)

LEMMA InvariantAtFirst == Init => MockRpcInv
<1> SUFFICES ASSUME Init PROVE MockRpcInv
  OBVIOUS
<1>1. TypeOK
  <2>1. /\ 0 \in Heights /\ anvil \in Heights /\ 1 \in Nat
    BY MockRpcAssumption DEF Init, Heights
  <2>2. Ticking \in WatcherStates /\ Over("unborn") \in InitialStates
        /\ Serving("none") \in HandlerStates
    BY <2>1 DEF Ticking, WatcherStates, Over, InitialStates, Serving, HandlerStates
  <2>3. QED BY <2>1, <2>2 DEF Init, TypeOK
<1>2. AskedFit
  <2>1. Asked = {}
    BY DEF Init, Asked, Serving
  <2>2. IsFiniteSet(Asked)
    BY <2>1, FS_EmptySet
  <2>3. QED BY <2>1, <2>2 DEF Init, AskedFit
<1>3. HeadKnown /\ PassUndisturbed
  BY MockRpcAssumption DEF Init, HeadKnown, PassUndisturbed, Ticking, MuHeld, SubMuRead
<1>4. Unborn /\ OneWriter /\ InitialPrepared /\ RecordedWasTold
  BY DEF Init, Unborn, OneWriter, InitialPrepared, RecordedWasTold, Ticking, Over
<1>5. HeadHeard /\ LastKnown
  BY DEF Init, HeadHeard, LastKnown, NoChange, NoTipSet
<1>6. QED BY <1>1, <1>2, <1>3, <1>4, <1>5 DEF MockRpcInv, NotificationInv

\* A step keeps the types.
LEMMA TypesKept == ASSUME MockRpcInv, Next PROVE TypeOK'
<1>1. TypeOK /\ AskedFit /\ HeadKnown /\ PassUndisturbed /\ InitialPrepared
  BY DEF MockRpcInv, NotificationInv
<1>2. CASE NewBlock \/ Watcher
  BY <1>1, <1>2, WatcherTypes
<1>3. CASE \E s \in SubIds : InitialNotifier(s)
  BY <1>1, <1>3, NotifierTypes
<1>4. CASE \E c \in Conns : Handler(c) \/ Client(c)
  BY <1>1, <1>4, ConnectionTypes
<1>5. QED BY <1>2, <1>3, <1>4 DEF Next

\* A step keeps what is known of the notifications.
LEMMA NotificationsKept == ASSUME MockRpcInv, Next PROVE NotificationInv'
<1>1. TypeOK /\ AskedFit /\ NotificationInv
  BY DEF MockRpcInv
<1>2. CASE NewBlock \/ Watcher
  BY <1>1, <1>2, NewBlockNotified, WatchPollNotified, WatchHeadNotified,
     WatchSubscriptionsNotified, WatchCheckNotified, WatchSendNotified, WatchWrittenNotified,
     WatchRecordNotified, WatchPassDoneNotified DEF Watcher
<1>3. ASSUME NEW s \in SubIds, InitialNotifier(s) PROVE NotificationInv'
  BY <1>1, <1>3, InitialReadNotified, InitialFetchNotified, InitialSendNotified,
     InitialWrittenNotified, InitialRecordNotified DEF InitialNotifier
<1>4. ASSUME NEW c \in Conns, Handler(c) \/ Client(c) PROVE NotificationInv'
  <2>1. CASE HandleChainNotify(c)
    BY <1>1, <2>1, ChainNotifyNotified
  <2>2. ASSUME NEW s \in SubIds, CleanupSubscription(c, s) PROVE NotificationInv'
    BY <1>1, <2>2, CleanupNotified
  <2>3. CASE \/ HandleChainHead(c) \/ SendResponse(c) \/ ResponseWritten(c) \/ CleanupBegins(c)
             \/ CleanupEnds(c) \/ Connect(c) \/ Disconnect(c) \/ ReadMessage(c)
    BY <1>1, <2>3, ConnectionsNotified
  <2>4. QED BY <1>4, <2>1, <2>2, <2>3 DEF Handler, Client
<1>5. QED BY <1>2, <1>3, <1>4 DEF Next

LEMMA InvariantHolds == Spec => []MockRpcInv
<1>1. MockRpcInv /\ Next => MockRpcInv'
  BY TypesKept, AskedFitKept, NotificationsKept DEF MockRpcInv
<1>2. MockRpcInv /\ UNCHANGED vars => MockRpcInv'
  <2> SUFFICES ASSUME MockRpcInv, UNCHANGED vars PROVE MockRpcInv'
    OBVIOUS
  <2>1. UNCHANGED <<anvil, currentHeight, currentTipSet, subscriptions, nextSubID, conn, closed,
                    lastSent, handler, open, watcher, initial, last, told, crashed>>
    BY DEF vars, server, sub, written
  <2>2. TypeOK' /\ AskedFit'
    BY <2>1 DEF MockRpcInv, TypeOK, AskedFit, Asked
  <2>3. Unborn' /\ OneWriter' /\ HeadKnown' /\ PassUndisturbed' /\ InitialPrepared'
    BY <2>1 DEF MockRpcInv, NotificationInv, Unborn, OneWriter, HeadKnown, PassUndisturbed,
                InitialPrepared, MuHeld, SubMuRead
  <2>4. RecordedWasTold' /\ HeadHeard' /\ LastKnown'
    BY <2>1 DEF MockRpcInv, NotificationInv, RecordedWasTold, HeadHeard, Heard, LastKnown,
                MuHeld, SubMuRead
  <2>5. QED BY <2>2, <2>3, <2>4 DEF MockRpcInv, NotificationInv
<1>3. QED BY InvariantAtFirst, <1>1, <1>2, PTL DEF Spec

-----------------------------------------------------------------------------
(* What it is for.                                                         *)

\* Every variable of the server, its goroutines and its clients keeps its type; in
\* particular every id that is given out is within the bound.
THEOREM MockRpcTypes == Spec => []TypeOK
<1>1. MockRpcInv => TypeOK
  BY DEF MockRpcInv
<1>2. QED BY <1>1, InvariantHolds, PTL

\* Between two passes every live subscription whose first notification is over was told of
\* the head (watchBlocks and sendInitialNotification).
THEOREM NobodyMissesTheHead == Spec => []NoSubscriberMissesTheHead
<1>1. ASSUME MockRpcInv, ~MuHeld, NEW s \in subscriptions, ~closed[s], initial[s].pc = "done"
      PROVE  told[s] >= currentHeight
  <2>1. s \in SubIds /\ Heard(s, currentHeight)
    BY <1>1 DEF MockRpcInv, TypeOK, NotificationInv, HeadHeard
  <2>2. told[s] >= 0
    BY <1>1, <2>1 DEF MockRpcInv, NotificationInv, RecordedWasTold
  <2>3. QED BY <2>1, <2>2 DEF Heard
<1>2. MockRpcInv => NoSubscriberMissesTheHead
  BY <1>1 DEF NoSubscriberMissesTheHead
<1>3. QED BY <1>2, InvariantHolds, PTL

\* Only the end of a write changes what a subscription was told, and only that or a
\* clean-up closes it.
LEMMA OnlyWritesTell ==
  ASSUME Next
  PROVE  \/ UNCHANGED <<closed, last, told>>
         \/ WatchWritten
         \/ \E s \in SubIds : InitialWritten(s)
         \/ \E c \in Conns, s \in SubIds : CleanupSubscription(c, s)
<1>1. CASE NewBlock \/ Watcher
  BY <1>1 DEF NewBlock, Watcher, WatchPoll, WatchHead, WatchSubscriptions, WatchCheck, WatchSend,
              WatchRecord, WatchPassDone, sub, written
<1>2. ASSUME NEW s \in SubIds, InitialNotifier(s)
      PROVE  UNCHANGED <<closed, last, told>> \/ InitialWritten(s)
  BY <1>2 DEF InitialNotifier, InitialRead, InitialFetch, InitialSend, InitialRecord, sub, written
<1>3. ASSUME NEW c \in Conns, Handler(c) \/ Client(c)
      PROVE  UNCHANGED <<closed, last, told>> \/ \E s \in SubIds : CleanupSubscription(c, s)
  BY <1>3 DEF Handler, Client, HandleChainNotify, HandleChainHead, SendResponse, ResponseWritten,
              CleanupBegins, CleanupEnds, Connect, Disconnect, ReadMessage, sub, written
<1>4. QED BY <1>1, <1>2, <1>3 DEF Next

\* What a first notifier writes at the end of a write.
LEMMA InitialWrites ==
  ASSUME TypeOK, NotificationInv, NEW s \in SubIds, InitialWritten(s)
  PROVE  /\ ~closed[s]
         /\ [type |-> "current", tipset |-> initial[s].tipset] \in HeadChanges
         /\ NotificationWritten(s, [type |-> "current", tipset |-> initial[s].tipset])
BY DEF InitialWritten, NotificationInv, OneWriter, InitialPrepared, HeadChanges

\* Nothing is written for a closed subscription, and it stays closed: who writes has seen
\* it open and holds its lock (sendSubscriptionNotification).
THEOREM NoWriteAfterClose == Spec => ClosedSubscriptionsAreSilent
<1>1. ASSUME MockRpcInv, [Next]_vars, NEW s \in SubIds, closed[s]
      PROVE  closed'[s] /\ last'[s] = last[s] /\ told'[s] = told[s]
  <2>1. TypeOK /\ NotificationInv
    BY <1>1 DEF MockRpcInv
  <2>2. CASE UNCHANGED vars
    BY <1>1, <2>2 DEF vars, sub, written
  <2>3. CASE WatchWritten
    <3>1. s # watcher.sub
      BY <1>1, <2>1, <2>3, WatchWrites
    <3>2. last'[s] = last[s] /\ told'[s] = told[s] /\ closed'[s] = closed[s]
      BY <2>1, <2>3, <3>1, WatchWrites, WrittenEffect
    <3>3. QED BY <1>1, <3>2
  <2>4. ASSUME NEW t \in SubIds, InitialWritten(t)
        PROVE  closed'[s] /\ last'[s] = last[s] /\ told'[s] = told[s]
    <3>1. s # t
      BY <1>1, <2>1, <2>4, InitialWrites
    <3>2. last'[s] = last[s] /\ told'[s] = told[s] /\ closed'[s] = closed[s]
      BY <2>1, <2>4, <3>1, InitialWrites, WrittenEffect
    <3>3. QED BY <1>1, <3>2
  <2>5. ASSUME NEW c \in Conns, NEW t \in SubIds, CleanupSubscription(c, t)
        PROVE  closed'[s] /\ last'[s] = last[s] /\ told'[s] = told[s]
    BY <1>1, <2>1, <2>5 DEF CleanupSubscription, TypeOK, written
  <2>6. QED BY <1>1, <2>2, <2>3, <2>4, <2>5, OnlyWritesTell
<1>2. MockRpcInv /\ [Next]_vars =>
         \A s \in SubIds : closed[s] => closed'[s] /\ last'[s] = last[s] /\ told'[s] = told[s]
  BY <1>1
<1>3. QED BY <1>2, InvariantHolds, PTL DEF Spec, ClosedSubscriptionsAreSilent

\* What a subscriber applies has no gaps (watchBlocks, MockTipSet and lastSent).
THEOREM NoGapInApplies == Spec => AppliesLeaveNoGap
<1> DEFINE NoGap(s) == /\ last'[s].tipset.parent <= told[s]
                       /\ last[s].type = "apply" =>
                             last[s].tipset.height <= last'[s].tipset.parent
<1>1. ASSUME MockRpcInv, [Next]_vars, NEW s \in SubIds,
             last'[s] # last[s], last'[s].type = "apply", last[s] # NoChange
      PROVE  NoGap(s)
  <2>1. TypeOK /\ NotificationInv
    BY <1>1 DEF MockRpcInv
  <2>2. CASE UNCHANGED <<closed, last, told>>
    BY <1>1, <2>2
  <2>3. CASE WatchWritten
    <3>1. s = watcher.sub
      BY <1>1, <2>1, <2>3, WatchWrites, WrittenEffect
    <3>2. last'[s] = [type |-> "apply", tipset |-> currentTipSet]
      BY <1>1, <2>1, <2>3, <3>1, WatchWrites, WrittenEffect
    <3>3. /\ watcher.pc = "writing" /\ s \in subscriptions /\ ~closed[s]
          /\ currentTipSet \in TipSets
      BY <2>1, <2>3, <3>1, WatchWrites DEF WatchWritten
    <3>4. last[s] \in HeadChanges /\ last[s].tipset.height <= told[s]
      BY <1>1, <2>1, SubscriptionTypes DEF NotificationInv, LastKnown
    <3>5. last[s].tipset.height \in Int /\ last[s].tipset.height >= 0 /\ told[s] \in Int
      BY <2>1, <3>4, SubscriptionTypes, TipSetHeights DEF HeadChanges
    <3>6. told[s] # -1
      BY <3>4, <3>5
    <3>7. currentTipSet.parent <= told[s]
      BY <2>1, <3>3, <3>6 DEF NotificationInv, HeadHeard, Heard, MuHeld
    <3>8. last[s].type = "apply" => last[s].tipset # currentTipSet
      BY <1>1, <3>2, <3>4 DEF HeadChanges
    <3>9. last[s].type = "apply" => last[s].tipset.height <= currentTipSet.parent
      BY <2>1, <3>8 DEF NotificationInv, LastKnown
    <3>10. QED BY <3>2, <3>7, <3>9
  <2>4. ASSUME NEW t \in SubIds, InitialWritten(t) PROVE FALSE
    <3>1. s = t
      BY <1>1, <2>1, <2>4, InitialWrites, WrittenEffect
    <3>2. last'[s] = [type |-> "current", tipset |-> initial[s].tipset]
      BY <1>1, <2>1, <2>4, <3>1, InitialWrites, WrittenEffect
    <3>3. QED BY <1>1, <3>2
  <2>5. ASSUME NEW c \in Conns, NEW t \in SubIds, CleanupSubscription(c, t) PROVE FALSE
    BY <1>1, <2>5 DEF CleanupSubscription, written
  <2>6. CASE UNCHANGED vars
    BY <1>1, <2>6 DEF vars, written
  <2>7. QED BY <1>1, <2>2, <2>3, <2>4, <2>5, <2>6, OnlyWritesTell
<1>2. MockRpcInv /\ [Next]_vars =>
         \A s \in SubIds :
            last'[s] # last[s] /\ last'[s].type = "apply" /\ last[s] # NoChange => NoGap(s)
  BY <1>1
<1>3. QED BY <1>2, InvariantHolds, PTL DEF Spec, AppliesLeaveNoGap
=============================================================================
