------------------------ MODULE VocalFriends_proofs -------------------------
(* Theorems about VocalFriends for every set of accounts, devices and bounds. *)
EXTENDS VocalFriends, SequenceTheorems, TLAPS

-----------------------------------------------------------------------------
(* Typing of the operators *)

LEMMA NoEntryType == NoEntry \in Entry
BY DEF NoEntry, Entry, Status

LEMMA RequestedType ==
    ASSUME NEW e \in Entry, NEW key \in Nat
    PROVE  RequestedBySelf(e, key) \in Entry /\ RequestedByFriend(e) \in Entry
BY DEF RequestedBySelf, RequestedByFriend, AcceptedBySelf, AcceptedByFriend,
       Entry, Status, NoEntry

LEMMA PersistedType ==
    ASSUME NEW list \in FriendList
    PROVE  Persisted(list) \in FriendList
BY DEF Persisted, FriendList, Entry

LEMMA UpdatedListType ==
    ASSUME NEW list \in FriendList, NEW f \in Friend, NEW e \in Entry
    PROVE  [list EXCEPT ![f] = e] \in FriendList
BY DEF FriendList

\* SyncClientInfo keeps the types of what it changes.
LEMMA SyncType ==
    ASSUME TypeOK, NEW own, NEW S \in SUBSET Login, NEW lists \in [S -> FriendList],
           SyncClientInfo(own, lists)
    PROVE  /\ stored' \in [Login -> FriendList]
           /\ info' \in [Device -> FriendList]
           /\ toClient' \in [Device -> Seq(FriendList)]
           /\ registered' = registered /\ byLogin' = byLogin
<1>1. stored' \in [Login -> FriendList]
  BY PersistedType DEF SyncClientInfo, TypeOK
<1>2. info' \in [Device -> FriendList]
  BY DEF SyncClientInfo, TypeOK, Refreshed, Notified
<1>3. toClient' \in [Device -> Seq(FriendList)]
  <2> SUFFICES ASSUME NEW d \in Device
               PROVE  (IF Notified(d, lists) THEN Append(toClient[d], lists[Owner[d]])
                       ELSE toClient[d]) \in Seq(FriendList)
    BY DEF SyncClientInfo
  <2>1. toClient[d] \in Seq(FriendList)
    BY DEF TypeOK
  <2>2. CASE Notified(d, lists)
    BY <2>1, <2>2, AppendProperties DEF Notified
  <2>3. CASE ~Notified(d, lists)
    BY <2>1, <2>3
  <2> QED BY <2>2, <2>3
<1> QED BY <1>1, <1>2, <1>3 DEF SyncClientInfo

LEMMA HeadRequest ==
    ASSUME TypeOK, NEW d \in Device, toServer[d] # <<>>
    PROVE  Head(toServer[d]) \in Request /\ Tail(toServer[d]) \in Seq(Request)
BY HeadTailProperties DEF TypeOK

LEMMA HeadPacket ==
    ASSUME TypeOK, NEW d \in Device, toClient[d] # <<>>
    PROVE  Head(toClient[d]) \in FriendList /\ Tail(toClient[d]) \in Seq(FriendList)
BY HeadTailProperties DEF TypeOK

LEMMA RequestFields ==
    ASSUME NEW r \in Request
    PROVE  /\ r.type = "AddFriend" => r.friend \in Friend /\ r.key \in Nat \ {0}
           /\ r.type = "RemoveFriend" => r.friend \in Friend
           /\ r.type = "SetFriendOfflineKey" => r.keys \in [Friend -> Nat]
BY DEF Request

-----------------------------------------------------------------------------
(* Type correctness *)

LEMMA InitType == Init => TypeOK
<1> SUFFICES ASSUME Init PROVE TypeOK
  OBVIOUS
<1>1. NoFriends \in FriendList
  BY NoEntryType DEF NoFriends, FriendList
<1>2. EmptyRoster \in [Friend -> RosterEntry]
  BY DEF EmptyRoster, RosterEntry, RosterStatus, NoRosterEntry
<1>3. \A T : <<>> \in Seq(T)
  OBVIOUS
<1> QED BY <1>1, <1>2, <1>3 DEF Init, TypeOK

\* Sessions and users.
LEMMA SessionSteps ==
    ASSUME TypeOK, FriendsAssumption, NEW d \in Device,
           Authorize(d) \/ Disconnect(d) \/ Restart(d) \/ DieOfMismatch(d)
    PROVE  TypeOK'
<1>1. NoFriends \in FriendList /\ EmptyRoster \in [Friend -> RosterEntry]
  BY NoEntryType DEF NoFriends, FriendList, EmptyRoster, RosterEntry,
     RosterStatus, NoRosterEntry
<1>2. CASE Authorize(d)
  <2>1. stored[Owner[d]] \in FriendList /\ Owner[d] \in Login
    BY DEF TypeOK, FriendsAssumption
  <2>2. <<stored[Owner[d]]>> \in Seq(FriendList)
    BY <2>1
  <2> QED BY <1>2, <2>1, <2>2 DEF Authorize, TypeOK, FriendsAssumption, clientVars
<1>3. ASSUME DropConnection(d) PROVE TypeOK' \/ roster' \notin [Device -> [Friend -> RosterEntry]]
  <2>1. <<>> \in Seq(FriendList) /\ <<>> \in Seq(Request)
    OBVIOUS
  <2> QED BY <1>1, <1>3, <2>1 DEF DropConnection, TypeOK, FriendsAssumption
<1>4. CASE Disconnect(d)
  BY <1>3, <1>4 DEF Disconnect, TypeOK
<1>5. CASE Restart(d)
  BY <1>1, <1>5 DEF Restart, TypeOK, serverVars
<1>6. CASE DieOfMismatch(d)
  BY <1>1, <1>3, <1>6 DEF DieOfMismatch, TypeOK
<1> QED BY <1>2, <1>4, <1>5, <1>6

LEMMA UserSteps ==
    ASSUME TypeOK, FriendsAssumption, NEW d \in Device, NEW f \in Friend,
           AddFriend(d, f) \/ RemoveFriend(d, f)
    PROVE  TypeOK'
<1>1. CASE AddFriend(d, f)
  <2> DEFINE r == [type |-> "AddFriend", friend |-> f, key |-> keys']
  <2>1. r \in Request /\ keys' \in Nat
    BY <1>1 DEF AddFriend, Request, TypeOK
  <2>2. toServer' \in [Device -> Seq(Request)]
    BY <1>1, <2>1, AppendProperties DEF AddFriend, TypeOK
  <2>3. roster' \in [Device -> [Friend -> RosterEntry]]
    BY <1>1 DEF AddFriend, TypeOK, RosterEntry, RosterStatus, NoRosterEntry
  <2> QED BY <1>1, <2>1, <2>2, <2>3 DEF AddFriend, TypeOK, serverVars
<1>2. CASE RemoveFriend(d, f)
  <2> DEFINE r == [type |-> "RemoveFriend", friend |-> f]
  <2>1. r \in Request
    BY DEF Request
  <2>2. toServer' \in [Device -> Seq(Request)]
    BY <1>2, <2>1, AppendProperties DEF RemoveFriend, TypeOK
  <2> QED BY <1>2, <2>2 DEF RemoveFriend, TypeOK, serverVars
<1> QED BY <1>1, <1>2

\* Requests on the server.
LEMMA PopType ==
    ASSUME TypeOK, NEW d \in Device, toServer[d] # <<>>, PopRequest(d)
    PROVE  toServer' \in [Device -> Seq(Request)]
BY HeadRequest DEF PopRequest, TypeOK

LEMMA HandlerSteps ==
    ASSUME TypeOK, FriendsAssumption, NEW d \in Device, HandleRequest(d)
    PROVE  TypeOK'
<1> DEFINE r == Head(toServer[d])
           me == Owner[d]
<1>1. toServer[d] # <<>> /\ r \in Request
  BY HeadRequest DEF HandleRequest, HandleAddLocal, HandleAddFailed, HandleAddRemote,
     HandleRemoveLocal, HandleRemoveRemote, HandleRemoveFailed,
     HandleSetFriendOfflineKey, NextRequest
<1>2. me \in Login /\ me \in Friend
  BY DEF FriendsAssumption, Friend
<1>3. info[d] \in FriendList
  BY DEF TypeOK
<1>4. \A l \in Login : stored[l] \in FriendList
  BY DEF TypeOK
<1>5. \A l \in registered : l \in Login
  BY DEF TypeOK
<1>6. ASSUME PopRequest(d), OnlyServerSteps,
             NEW S \in SUBSET Login, NEW lists \in [S -> FriendList],
             SyncClientInfo(d, lists)
      PROVE  TypeOK'
  BY <1>1, <1>6, PopType, SyncType DEF OnlyServerSteps, clientVars, TypeOK
<1>7. CASE HandleAddLocal(d)
  <2> DEFINE mine == [info[d] EXCEPT ![r.friend] = RequestedBySelf(@, r.key)]
             theirs == [stored[r.friend] EXCEPT ![me] = RequestedByFriend(@)]
             lists == [l \in {me, r.friend} |-> IF l = me THEN mine ELSE theirs]
  <2>1. r.friend \in Friend /\ r.key \in Nat /\ r.friend \in Login
    BY <1>1, <1>5, <1>7, RequestFields DEF HandleAddLocal, NextRequest
  <2>2. mine \in FriendList
    BY <1>3, <2>1, RequestedType DEF FriendList
  <2>3. theirs \in FriendList
    BY <1>2, <1>4, <2>1, RequestedType DEF FriendList
  <2>4. {me, r.friend} \in SUBSET Login /\ lists \in [{me, r.friend} -> FriendList]
    BY <1>2, <2>1, <2>2, <2>3
  <2> HIDE DEF lists
  <2>5. SyncClientInfo(d, lists) /\ PopRequest(d) /\ OnlyServerSteps
    BY <1>7 DEF HandleAddLocal, lists
  <2> QED BY <1>6, <2>4, <2>5
<1>8. ASSUME NEW e \in Entry, NEW f \in Friend, PopRequest(d), OnlyServerSteps,
             SyncClientInfo(d, [l \in {me} |-> [info[d] EXCEPT ![f] = e]])
      PROVE  TypeOK'
  <2> DEFINE lists == [l \in {me} |-> [info[d] EXCEPT ![f] = e]]
  <2>1. {me} \in SUBSET Login /\ lists \in [{me} -> FriendList]
    BY <1>2, <1>3, UpdatedListType
  <2> HIDE DEF lists
  <2>2. SyncClientInfo(d, lists)
    BY <1>8 DEF lists
  <2> QED BY <1>6, <1>8, <2>1, <2>2
<1>9. CASE HandleAddFailed(d)
  <2>1. r.friend \in Friend
    BY <1>1, <1>9, RequestFields DEF HandleAddFailed, NextRequest
  <2> QED BY <1>8, <1>9, <2>1, NoEntryType DEF HandleAddFailed
<1>10. CASE HandleAddRemote(d)
  <2>1. r.friend \in Friend /\ r.key \in Nat
    BY <1>1, <1>10, RequestFields DEF HandleAddRemote, NextRequest
  <2>2. RequestedBySelf(info[d][r.friend], r.key) \in Entry
    BY <1>3, <2>1, RequestedType DEF FriendList
  <2>3. [info[d] EXCEPT ![r.friend] = RequestedBySelf(@, r.key)]
        = [info[d] EXCEPT ![r.friend] = RequestedBySelf(info[d][r.friend], r.key)]
    OBVIOUS
  <2> QED BY <1>8, <1>10, <2>1, <2>2, <2>3 DEF HandleAddRemote
<1>11. CASE HandleRemoveLocal(d)
  <2> DEFINE mine == [info[d] EXCEPT ![r.friend] = NoEntry]
             theirs == RemovedByFriend(stored[r.friend], me)
             lists == [l \in {me, r.friend} |-> IF l = me THEN mine ELSE theirs]
  <2>1. r.friend \in Friend /\ r.friend \in Login
    BY <1>1, <1>5, <1>11, RequestFields DEF HandleRemoveLocal, NextRequest
  <2>2. mine \in FriendList
    BY <1>3, <2>1, UpdatedListType, NoEntryType
  <2>3. theirs \in FriendList
    BY <1>2, <1>4, <2>1, UpdatedListType, NoEntryType DEF RemovedByFriend
  <2>4. {me, r.friend} \in SUBSET Login /\ lists \in [{me, r.friend} -> FriendList]
    BY <1>2, <2>1, <2>2, <2>3
  <2> HIDE DEF lists
  <2>5. SyncClientInfo(d, lists) /\ PopRequest(d) /\ OnlyServerSteps
    BY <1>11 DEF HandleRemoveLocal, lists
  <2> QED BY <1>6, <2>4, <2>5
<1>12. CASE HandleRemoveRemote(d)
  <2>1. r.friend \in Friend
    BY <1>1, <1>12, RequestFields DEF HandleRemoveRemote, NextRequest
  <2> QED BY <1>8, <1>12, <2>1, NoEntryType DEF HandleRemoveRemote
<1>13. CASE HandleRemoveFailed(d)
  <2>1. r.friend \in Friend
    BY <1>1, <1>13, RequestFields DEF HandleRemoveFailed, NextRequest
  <2>2. info' \in [Device -> FriendList]
    BY <1>13, <2>1, NoEntryType DEF HandleRemoveFailed, TypeOK, FriendList
  <2>3. toServer' \in [Device -> Seq(Request)]
    BY <1>1, <1>13, PopType DEF HandleRemoveFailed
  <2> QED BY <1>13, <2>2, <2>3 DEF HandleRemoveFailed, TypeOK, OnlyServerSteps, clientVars
<1>14. ASSUME NEW f \in Friend, HandleSetFriendOfflineKey(d, f) PROVE TypeOK'
  <2> DEFINE rest == [r EXCEPT !.keys[f] = 0]
             theirs == [stored[f] EXCEPT ![me].offlineKey = r.keys[f]]
             lists == [l \in {f} |-> theirs]
  <2>1. r.keys \in [Friend -> Nat] /\ r.type = "SetFriendOfflineKey"
    BY <1>1, <1>14, RequestFields DEF HandleSetFriendOfflineKey, NextRequest
  <2>2. rest \in Request
    BY <1>1, <2>1 DEF Request
  <2>3. toServer' \in [Device -> Seq(Request)]
    <3>1. Tail(toServer[d]) \in Seq(Request)
      BY <1>1, HeadRequest
    <3>2. <<rest>> \in Seq(Request)
      BY <2>2
    <3>3. <<rest>> \o Tail(toServer[d]) \in Seq(Request)
      BY <3>1, <3>2, ConcatProperties
    <3> QED BY <1>14, <3>1, <3>3 DEF HandleSetFriendOfflineKey, TypeOK
  <2>4. CASE KeyAccepted(me, info[d], f)
    <3>1. f \in Login
      BY <1>5, <2>4 DEF KeyAccepted
    <3>2. theirs \in FriendList
      <4> DEFINE e == [stored[f][me] EXCEPT !.offlineKey = r.keys[f]]
      <4>1. stored[f] \in FriendList /\ stored[f][me] \in Entry /\ r.keys[f] \in Nat
        BY <1>2, <1>4, <2>1, <3>1 DEF FriendList
      <4>2. e \in Entry
        BY <4>1 DEF Entry
      <4>3. theirs = [stored[f] EXCEPT ![me] = e]
        OBVIOUS
      <4> HIDE DEF e, theirs
      <4> QED BY <1>2, <4>1, <4>2, <4>3, UpdatedListType
    <3>3. {f} \in SUBSET Login /\ lists \in [{f} -> FriendList]
      BY <3>1, <3>2
    <3> HIDE DEF lists
    <3>4. SyncClientInfo(NoDevice, lists) /\ OnlyServerSteps
      BY <1>14, <2>4 DEF HandleSetFriendOfflineKey, lists
    <3> QED BY <2>3, <3>3, <3>4, SyncType DEF OnlyServerSteps, clientVars, TypeOK
  <2>5. CASE ~KeyAccepted(me, info[d], f)
    BY <1>14, <2>3, <2>5 DEF HandleSetFriendOfflineKey, TypeOK, OnlyServerSteps,
       clientVars, serverVars
  <2> QED BY <2>4, <2>5
<1> QED BY <1>7, <1>9, <1>10, <1>11, <1>12, <1>13, <1>14 DEF HandleRequest

LEMMA SyncedType ==
    ASSUME NEW r \in RosterEntry, NEW e \in Entry
    PROVE  Synced(r, e) \in RosterEntry
BY DEF Synced, SyncedStatus, RosterEntry, RosterStatus, NoRosterEntry, Entry, Status

LEMMA ReceiveStep ==
    ASSUME TypeOK, NEW d \in Device, ReceiveSyncInfo(d)
    PROVE  TypeOK'
<1> DEFINE packet == Head(toClient[d])
           synced == [f \in Friend |-> Synced(roster[d][f], packet[f])]
           wanted == [f \in Friend |-> IF packet[f].needOfflineKey THEN synced[f].selfKey ELSE 0]
           r == [type |-> "SetFriendOfflineKey", keys |-> wanted]
<1>1. packet \in FriendList /\ Tail(toClient[d]) \in Seq(FriendList)
  BY HeadPacket DEF ReceiveSyncInfo
<1>2. synced \in [Friend -> RosterEntry]
  BY <1>1, SyncedType DEF TypeOK, FriendList
<1>3. r \in Request
  BY <1>2 DEF Request, RosterEntry
<1>4. toServer' \in [Device -> Seq(Request)]
  <2> HIDE DEF r
  <2>1. toServer' = toServer \/ toServer' = [toServer EXCEPT ![d] = Append(@, r)]
    BY DEF ReceiveSyncInfo, r
  <2>2. toServer[d] \in Seq(Request) /\ Append(toServer[d], r) \in Seq(Request)
    BY <1>3, AppendProperties DEF TypeOK
  <2> QED BY <2>1, <2>2 DEF TypeOK
<1>5. roster' \in [Device -> [Friend -> RosterEntry]]
  BY <1>2 DEF ReceiveSyncInfo, TypeOK
<1>6. toClient' \in [Device -> Seq(FriendList)]
  BY <1>1 DEF ReceiveSyncInfo, TypeOK
<1> QED BY <1>4, <1>5, <1>6 DEF ReceiveSyncInfo, TypeOK, serverVars

LEMMA NextType == FriendsAssumption /\ TypeOK /\ [Next]_vars => TypeOK'
<1> SUFFICES ASSUME FriendsAssumption, TypeOK, [Next]_vars PROVE TypeOK'
  OBVIOUS
<1>1. ASSUME NEW l \in Login, Register(l) PROVE TypeOK'
  BY <1>1 DEF Register, TypeOK, clientVars
<1>2. CASE UNCHANGED vars
  BY <1>2 DEF vars, TypeOK
<1> QED BY <1>1, <1>2, SessionSteps, UserSteps, HandlerSteps, ReceiveStep DEF Next

\* Every reachable state of the server and its clients is well typed, whatever the
\* accounts, devices and bounds.
THEOREM TypeCorrect == Spec => []TypeOK
<1> USE FriendsAssumption
<1> QED BY InitType, NextType, PTL DEF Spec

-----------------------------------------------------------------------------
(* The keys of every entry, on the server and under way *)

KeysOfList(list) == \A f \in Friend : KeysOf(list[f])

LEMMA RequestedKeys ==
    ASSUME NEW e \in Entry, KeysOf(e), NEW key \in Nat \ {0}
    PROVE  KeysOf(RequestedBySelf(e, key)) /\ KeysOf(RequestedByFriend(e))
BY DEF KeysOf, RequestedBySelf, RequestedByFriend, AcceptedBySelf, AcceptedByFriend,
       Entry, Status, NoEntry

LEMMA NoEntryKeys == KeysOf(NoEntry) /\ KeysOfList(NoFriends)
BY DEF KeysOf, KeysOfList, NoEntry, NoFriends

LEMMA PersistedKeys ==
    ASSUME NEW list \in FriendList, KeysOfList(list)
    PROVE  KeysOfList(Persisted(list))
BY DEF KeysOf, KeysOfList, Persisted, FriendList, Entry

LEMMA UpdatedKeys ==
    ASSUME NEW list \in FriendList, KeysOfList(list),
           NEW f \in Friend, NEW e \in Entry, KeysOf(e)
    PROVE  KeysOfList([list EXCEPT ![f] = e])
BY DEF KeysOfList, FriendList

\* The three places where KeysPresent looks.
LEMMA KeysPresentByList ==
    KeysPresent <=>
        /\ \A l \in Login : KeysOfList(stored[l])
        /\ \A d \in Device : KeysOfList(info[d])
        /\ \A d \in Device : \A i \in 1..Len(toClient[d]) : KeysOfList(toClient[d][i])
BY DEF KeysPresent, KeysOfList

LEMMA SyncKeys ==
    ASSUME TypeOK, KeysPresent, NEW own, NEW S \in SUBSET Login,
           NEW lists \in [S -> FriendList], \A l \in S : KeysOfList(lists[l]),
           SyncClientInfo(own, lists)
    PROVE  KeysPresent'
<1>1. ASSUME NEW l \in Login PROVE KeysOfList(stored'[l])
  BY KeysPresentByList, PersistedKeys DEF SyncClientInfo
<1>2. ASSUME NEW d \in Device PROVE KeysOfList(info'[d])
  BY KeysPresentByList DEF SyncClientInfo, Refreshed, Notified
<1>3. ASSUME NEW d \in Device, NEW i \in 1..Len(toClient'[d])
      PROVE  KeysOfList(toClient'[d][i])
  <2>1. CASE ~Notified(d, lists)
    BY <1>3, <2>1, KeysPresentByList DEF SyncClientInfo
  <2>2. CASE Notified(d, lists)
    <3>1. toClient'[d] = Append(toClient[d], lists[Owner[d]])
      BY <2>2 DEF SyncClientInfo
    <3>2. toClient[d] \in Seq(FriendList) /\ lists[Owner[d]] \in FriendList
      BY <2>2 DEF TypeOK, Notified
    <3>3. CASE i \in 1..Len(toClient[d])
      BY <3>1, <3>2, <3>3, KeysPresentByList, AppendProperties
    <3>4. CASE i = Len(toClient[d]) + 1
      BY <2>2, <3>1, <3>2, <3>4, AppendProperties DEF Notified
    <3> QED BY <3>1, <3>2, <3>3, <3>4, AppendProperties
  <2> QED BY <2>1, <2>2
<1> QED BY <1>1, <1>2, <1>3, KeysPresentByList DEF KeysPresent, KeysOfList

LEMMA HandlerKeys ==
    ASSUME TypeOK, FriendsAssumption, KeysPresent, NEW d \in Device, HandleRequest(d)
    PROVE  KeysPresent'
<1> DEFINE r == Head(toServer[d])
           me == Owner[d]
<1>1. toServer[d] # <<>> /\ r \in Request
  BY HeadRequest DEF HandleRequest, HandleAddLocal, HandleAddFailed, HandleAddRemote,
     HandleRemoveLocal, HandleRemoveRemote, HandleRemoveFailed,
     HandleSetFriendOfflineKey, NextRequest
<1>2. me \in Login /\ me \in Friend
  BY DEF FriendsAssumption, Friend
<1>3. info[d] \in FriendList /\ KeysOfList(info[d])
  BY KeysPresentByList DEF TypeOK
<1>4. \A l \in Login : stored[l] \in FriendList /\ KeysOfList(stored[l])
  BY KeysPresentByList DEF TypeOK
<1>5. \A l \in registered : l \in Login
  BY DEF TypeOK
<1>6. ASSUME NEW f \in Login, NEW mine \in FriendList, NEW theirs \in FriendList,
             KeysOfList(mine), KeysOfList(theirs),
             SyncClientInfo(d, [l \in {me, f} |-> IF l = me THEN mine ELSE theirs])
      PROVE  KeysPresent'
  <2> DEFINE lists == [l \in {me, f} |-> IF l = me THEN mine ELSE theirs]
  <2>1. /\ {me, f} \in SUBSET Login /\ lists \in [{me, f} -> FriendList]
        /\ \A l \in {me, f} : KeysOfList(lists[l])
    BY <1>2, <1>6
  <2> HIDE DEF lists
  <2>2. SyncClientInfo(d, lists)
    BY <1>6 DEF lists
  <2> QED BY <2>1, <2>2, SyncKeys
<1>7. ASSUME NEW e \in Entry, KeysOf(e), NEW f \in Friend,
             SyncClientInfo(d, [l \in {me} |-> [info[d] EXCEPT ![f] = e]])
      PROVE  KeysPresent'
  <2> DEFINE lists == [l \in {me} |-> [info[d] EXCEPT ![f] = e]]
  <2>1. /\ {me} \in SUBSET Login /\ lists \in [{me} -> FriendList]
        /\ \A l \in {me} : KeysOfList(lists[l])
    BY <1>2, <1>3, <1>7, UpdatedListType, UpdatedKeys
  <2> HIDE DEF lists
  <2>2. SyncClientInfo(d, lists)
    BY <1>7 DEF lists
  <2> QED BY <2>1, <2>2, SyncKeys
<1>8. CASE HandleAddLocal(d)
  <2> DEFINE mine == [info[d] EXCEPT ![r.friend] = RequestedBySelf(@, r.key)]
             theirs == [stored[r.friend] EXCEPT ![me] = RequestedByFriend(@)]
  <2>1. r.friend \in Friend /\ r.key \in Nat \ {0} /\ r.friend \in Login
    BY <1>1, <1>5, <1>8, RequestFields DEF HandleAddLocal, NextRequest
  <2>2. info[d][r.friend] \in Entry /\ stored[r.friend][me] \in Entry
    BY <1>2, <1>3, <1>4, <2>1 DEF FriendList
  <2>3. KeysOf(info[d][r.friend]) /\ KeysOf(stored[r.friend][me])
    BY <1>2, <1>3, <1>4, <2>1 DEF KeysOfList
  <2>4. mine \in FriendList /\ KeysOfList(mine)
    BY <1>3, <2>1, <2>2, <2>3, RequestedType, RequestedKeys, UpdatedListType, UpdatedKeys
  <2>5. theirs \in FriendList /\ KeysOfList(theirs)
    <3>1. RequestedByFriend(stored[r.friend][me]) \in Entry
      BY <2>1, <2>2, RequestedType
    <3>2. KeysOf(RequestedByFriend(stored[r.friend][me]))
      BY <2>1, <2>2, <2>3, RequestedKeys
    <3> QED BY <1>2, <1>4, <2>1, <3>1, <3>2, UpdatedListType, UpdatedKeys
  <2>6. SyncClientInfo(d, [l \in {me, r.friend} |-> IF l = me THEN mine ELSE theirs])
    BY <1>8 DEF HandleAddLocal
  <2> HIDE DEF mine, theirs
  <2> QED BY <1>6, <2>1, <2>4, <2>5, <2>6
<1>9. CASE HandleAddFailed(d)
  <2>1. r.friend \in Friend
    BY <1>1, <1>9, RequestFields DEF HandleAddFailed, NextRequest
  <2> QED BY <1>7, <1>9, <2>1, NoEntryType, NoEntryKeys DEF HandleAddFailed
<1>10. CASE HandleAddRemote(d)
  <2>1. r.friend \in Friend /\ r.key \in Nat \ {0}
    BY <1>1, <1>10, RequestFields DEF HandleAddRemote, NextRequest
  <2>2. /\ RequestedBySelf(info[d][r.friend], r.key) \in Entry
        /\ KeysOf(RequestedBySelf(info[d][r.friend], r.key))
    BY <1>3, <2>1, RequestedType, RequestedKeys DEF FriendList, KeysOfList
  <2>3. [info[d] EXCEPT ![r.friend] = RequestedBySelf(@, r.key)]
        = [info[d] EXCEPT ![r.friend] = RequestedBySelf(info[d][r.friend], r.key)]
    OBVIOUS
  <2> QED BY <1>7, <1>10, <2>1, <2>2, <2>3 DEF HandleAddRemote
<1>11. CASE HandleRemoveLocal(d)
  <2> DEFINE mine == [info[d] EXCEPT ![r.friend] = NoEntry]
             theirs == RemovedByFriend(stored[r.friend], me)
  <2>1. r.friend \in Friend /\ r.friend \in Login
    BY <1>1, <1>5, <1>11, RequestFields DEF HandleRemoveLocal, NextRequest
  <2>2. mine \in FriendList /\ KeysOfList(mine)
    BY <1>3, <2>1, UpdatedListType, UpdatedKeys, NoEntryType, NoEntryKeys
  <2>3. theirs \in FriendList /\ KeysOfList(theirs)
    BY <1>2, <1>4, <2>1, UpdatedListType, UpdatedKeys, NoEntryType, NoEntryKeys
       DEF RemovedByFriend
  <2>4. SyncClientInfo(d, [l \in {me, r.friend} |-> IF l = me THEN mine ELSE theirs])
    BY <1>11 DEF HandleRemoveLocal
  <2> HIDE DEF mine, theirs
  <2> QED BY <1>6, <2>1, <2>2, <2>3, <2>4
<1>12. CASE HandleRemoveRemote(d)
  <2>1. r.friend \in Friend
    BY <1>1, <1>12, RequestFields DEF HandleRemoveRemote, NextRequest
  <2> QED BY <1>7, <1>12, <2>1, NoEntryType, NoEntryKeys DEF HandleRemoveRemote
<1>13. CASE HandleRemoveFailed(d)
  <2>1. r.friend \in Friend
    BY <1>1, <1>13, RequestFields DEF HandleRemoveFailed, NextRequest
  <2>2. info' = [info EXCEPT ![d] = [info[d] EXCEPT ![r.friend] = NoEntry]]
    BY <1>13 DEF HandleRemoveFailed
  <2>3. KeysOfList([info[d] EXCEPT ![r.friend] = NoEntry])
    BY <1>3, <2>1, UpdatedKeys, NoEntryType, NoEntryKeys
  <2>4. \A x \in Device : KeysOfList(info'[x])
    BY <2>2, <2>3, KeysPresentByList DEF TypeOK
  <2> QED BY <1>13, <2>4, KeysPresentByList DEF HandleRemoveFailed, KeysPresent, KeysOfList
<1>14. ASSUME NEW f \in Friend, HandleSetFriendOfflineKey(d, f) PROVE KeysPresent'
  <2> DEFINE e == [stored[f][me] EXCEPT !.offlineKey = r.keys[f]]
             theirs == [stored[f] EXCEPT ![me].offlineKey = r.keys[f]]
             lists == [l \in {f} |-> theirs]
  <2>1. CASE KeyAccepted(me, info[d], f)
    <3>1. f \in Login /\ r.keys[f] \in Nat
      BY <1>1, <1>5, <1>14, <2>1, RequestFields
         DEF KeyAccepted, HandleSetFriendOfflineKey, NextRequest
    <3>2. stored[f] \in FriendList /\ stored[f][me] \in Entry /\ KeysOf(stored[f][me])
      BY <1>2, <1>4, <3>1 DEF FriendList, KeysOfList
    <3>3. e \in Entry /\ KeysOf(e)
      BY <3>1, <3>2 DEF Entry, KeysOf
    <3>4. theirs = [stored[f] EXCEPT ![me] = e]
      OBVIOUS
    <3> HIDE DEF e, theirs
    <3>5. theirs \in FriendList /\ KeysOfList(theirs)
      BY <1>2, <1>4, <3>1, <3>3, <3>4, UpdatedListType, UpdatedKeys
    <3>6. /\ {f} \in SUBSET Login /\ lists \in [{f} -> FriendList]
          /\ \A l \in {f} : KeysOfList(lists[l])
      BY <3>1, <3>5
    <3>7. SyncClientInfo(NoDevice, lists)
      BY <1>14, <2>1 DEF HandleSetFriendOfflineKey, theirs
    <3> HIDE DEF lists
    <3> QED BY <3>6, <3>7, SyncKeys
  <2>2. CASE ~KeyAccepted(me, info[d], f)
    BY <1>14, <2>2 DEF HandleSetFriendOfflineKey, serverVars, KeysPresent
  <2> QED BY <2>1, <2>2
<1> QED BY <1>8, <1>9, <1>10, <1>11, <1>12, <1>13, <1>14 DEF HandleRequest

LEMMA NextKeys ==
    FriendsAssumption /\ TypeOK /\ KeysPresent /\ [Next]_vars => KeysPresent'
<1> SUFFICES ASSUME FriendsAssumption, TypeOK, KeysPresent, [Next]_vars
             PROVE  KeysPresent'
  OBVIOUS
<1>1. ASSUME UNCHANGED <<stored, info, toClient>> PROVE KeysPresent'
  BY <1>1 DEF KeysPresent
<1>2. ASSUME NEW d \in Device, Authorize(d) PROVE KeysPresent'
  <2>1. KeysOfList(stored[Owner[d]])
    BY KeysPresentByList DEF FriendsAssumption
  <2>2. \A x \in Device : KeysOfList(info'[x])
    BY <1>2, <2>1, KeysPresentByList DEF Authorize, TypeOK
  <2>3. ASSUME NEW x \in Device, NEW i \in 1..Len(toClient'[x])
        PROVE  KeysOfList(toClient'[x][i])
    BY <1>2, <2>1, <2>3, KeysPresentByList DEF Authorize, TypeOK
  <2> QED BY <1>2, <2>2, <2>3, KeysPresentByList DEF Authorize, KeysPresent, KeysOfList
<1>3. ASSUME NEW d \in Device, DropConnection(d) PROVE KeysPresent'
  <2>1. \A x \in Device : KeysOfList(info'[x])
    BY <1>3, NoEntryKeys, KeysPresentByList DEF DropConnection, TypeOK
  <2>2. ASSUME NEW x \in Device, NEW i \in 1..Len(toClient'[x])
        PROVE  KeysOfList(toClient'[x][i])
    BY <1>3, <2>2, KeysPresentByList DEF DropConnection, TypeOK
  <2> QED BY <1>3, <2>1, <2>2 DEF DropConnection, KeysPresent, KeysOfList
<1>4. ASSUME NEW d \in Device, ReceiveSyncInfo(d) PROVE KeysPresent'
  <2>1. toClient[d] \in Seq(FriendList) /\ toClient[d] # <<>>
    BY <1>4 DEF ReceiveSyncInfo, TypeOK
  <2>2. ASSUME NEW x \in Device, NEW i \in 1..Len(toClient'[x])
        PROVE  KeysOfList(toClient'[x][i])
    <3>1. CASE x = d
      <4>1. toClient'[x] = Tail(toClient[d])
        BY <1>4, <3>1 DEF ReceiveSyncInfo, TypeOK
      <4>2. i + 1 \in 1..Len(toClient[d]) /\ toClient'[x][i] = toClient[d][i + 1]
        BY <2>1, <2>2, <4>1, HeadTailProperties
      <4> QED BY <4>2, KeysPresentByList
    <3>2. CASE x # d
      BY <1>4, <2>2, <3>2, KeysPresentByList DEF ReceiveSyncInfo, TypeOK
    <3> QED BY <3>1, <3>2
  <2> QED BY <1>4, <2>2, KeysPresentByList DEF ReceiveSyncInfo, serverVars, KeysPresent, KeysOfList
<1>5. ASSUME NEW l \in Login, Register(l) PROVE KeysPresent'
  BY <1>1, <1>5 DEF Register
<1>6. CASE UNCHANGED vars
  BY <1>1, <1>6 DEF vars
<1>7. ASSUME NEW d \in Device, NEW f \in Friend, AddFriend(d, f) \/ RemoveFriend(d, f)
      PROVE  KeysPresent'
  BY <1>1, <1>7 DEF AddFriend, RemoveFriend, serverVars
<1>8. ASSUME NEW d \in Device, Disconnect(d) \/ Restart(d) \/ DieOfMismatch(d)
      PROVE  KeysPresent'
  BY <1>1, <1>3, <1>8 DEF Disconnect, Restart, DieOfMismatch, serverVars
<1> QED BY <1>2, <1>4, <1>5, <1>6, <1>7, <1>8, HandlerKeys DEF Next

\* No assertion about the keys of a friend can fail, on the server or on a client,
\* however many devices an account uses and whatever fails or is lost.
THEOREM KeysAlwaysPresent == Spec => []KeysPresent
<1>1. Init => KeysPresent
  <2> SUFFICES ASSUME Init PROVE KeysPresent
    OBVIOUS
  <2> QED BY NoEntryKeys, KeysPresentByList DEF Init
<1> QED BY <1>1, NextKeys, TypeCorrect, FriendsAssumption, PTL DEF Spec

-----------------------------------------------------------------------------
(* Sessions *)

\* What is registered or has something under way is connected, and only existing
\* accounts are.
Connected ==
    \A d \in Device :
        /\ toServer[d] # <<>> => d \in online
        /\ toClient[d] # <<>> => d \in online
        /\ byLogin[Owner[d]] = d => d \in online
        /\ d \in online => Owner[d] \in registered

LEMMA SyncConnected ==
    ASSUME TypeOK, Connected, NEW own, NEW S \in SUBSET Login,
           NEW lists \in [S -> FriendList],
           SyncClientInfo(own, lists), UNCHANGED online,
           \A d \in Device : toServer'[d] # <<>> => toServer[d] # <<>>
    PROVE  Connected'
BY DEF SyncClientInfo, Notified, Connected, TypeOK

LEMMA HandlerConnected ==
    ASSUME TypeOK, FriendsAssumption, Connected, NEW d \in Device, HandleRequest(d)
    PROVE  Connected'
<1>1. \A x \in Device : toServer'[x] # <<>> => toServer[x] # <<>>
  BY DEF HandleRequest, HandleAddLocal, HandleAddFailed, HandleAddRemote,
     HandleRemoveLocal, HandleRemoveRemote, HandleRemoveFailed,
     HandleSetFriendOfflineKey, NextRequest, PopRequest, TypeOK
<1>2. UNCHANGED <<online, registered, byLogin>>
  BY DEF HandleRequest, HandleAddLocal, HandleAddFailed, HandleAddRemote,
     HandleRemoveLocal, HandleRemoveRemote, HandleRemoveFailed,
     HandleSetFriendOfflineKey, OnlyServerSteps, SyncClientInfo, serverVars
<1>3. \A x \in Device : toClient'[x] # <<>> => toClient[x] # <<>> \/ byLogin[Owner[x]] = x
  BY DEF HandleRequest, HandleAddLocal, HandleAddFailed, HandleAddRemote,
     HandleRemoveLocal, HandleRemoveRemote, HandleRemoveFailed,
     HandleSetFriendOfflineKey, SyncClientInfo, Notified
<1> QED BY <1>1, <1>2, <1>3 DEF Connected

LEMMA NextConnected ==
    FriendsAssumption /\ TypeOK /\ Connected /\ [Next]_vars => Connected'
<1> SUFFICES ASSUME FriendsAssumption, TypeOK, Connected, [Next]_vars
             PROVE  Connected'
  OBVIOUS
<1>1. ASSUME NEW l \in Login, Register(l) PROVE Connected'
  BY <1>1 DEF Register, Connected
<1>2. ASSUME NEW d \in Device, Authorize(d) PROVE Connected'
  BY <1>2 DEF Authorize, Connected, TypeOK, FriendsAssumption
<1>3. ASSUME NEW d \in Device, DropConnection(d) PROVE Connected'
  BY <1>3 DEF DropConnection, Connected, TypeOK, FriendsAssumption
<1>4. ASSUME NEW d \in Device, Disconnect(d) \/ DieOfMismatch(d) PROVE Connected'
  BY <1>3, <1>4 DEF Disconnect, DieOfMismatch
<1>5. ASSUME NEW d \in Device, Restart(d) PROVE Connected'
  BY <1>5 DEF Restart, serverVars, Connected
<1>6. ASSUME NEW d \in Device, NEW f \in Friend, AddFriend(d, f) \/ RemoveFriend(d, f)
      PROVE  Connected'
  BY <1>6 DEF AddFriend, RemoveFriend, serverVars, Connected, TypeOK
<1>7. ASSUME NEW d \in Device, ReceiveSyncInfo(d) PROVE Connected'
  <2>1. d \in online /\ UNCHANGED <<online, registered, byLogin>>
    BY <1>7 DEF ReceiveSyncInfo, serverVars, Connected
  <2>2. \A x \in Device : x # d => toServer'[x] = toServer[x] /\ toClient'[x] = toClient[x]
    BY <1>7 DEF ReceiveSyncInfo, TypeOK
  <2> QED BY <2>1, <2>2 DEF Connected
<1>8. CASE UNCHANGED vars
  BY <1>8 DEF vars, Connected
<1> QED BY <1>1, <1>2, <1>4, <1>5, <1>6, <1>7, <1>8, HandlerConnected DEF Next

LEMMA AlwaysConnected == Spec => []Connected
<1>1. Init => Connected
  BY FriendsAssumption DEF Init, Connected
<1> QED BY <1>1, NextConnected, TypeCorrect, FriendsAssumption, PTL DEF Spec

-----------------------------------------------------------------------------
(* The Info of the registered session is what is stored *)

Plain(e) == [e EXCEPT !.needOfflineKey = FALSE]

StoredPlain == \A l \in Login, f \in Friend : stored[l][f] = Plain(stored[l][f])

\* Nobody lists a login without account.
UnknownAbsent ==
    \A f \in Login \ registered :
        /\ \A l \in Login : stored[l][f] = NoEntry
        /\ \A d \in Device : info[d][f] = NoEntry

SessionInv == SessionInfoCurrent /\ StoredPlain /\ UnknownAbsent

LEMMA EntryFields ==
    ASSUME NEW a \in Entry, NEW b \in Entry,
           a.status = b.status, a.publicKey = b.publicKey,
           a.encryptedKey = b.encryptedKey, a.offlineKey = b.offlineKey,
           a.needOfflineKey = b.needOfflineKey
    PROVE  a = b
BY DEF Entry

LEMMA PlainFields ==
    ASSUME NEW e \in Entry
    PROVE  /\ Plain(e) \in Entry
           /\ Plain(e).status = e.status
           /\ Plain(e).publicKey = e.publicKey
           /\ Plain(e).encryptedKey = e.encryptedKey
           /\ Plain(e).offlineKey = e.offlineKey
           /\ Plain(e).needOfflineKey = FALSE
BY DEF Plain, Entry

LEMMA PlainTwice ==
    ASSUME NEW e \in Entry
    PROVE  Plain(Plain(e)) = Plain(e)
<1>1. ASSUME NEW p \in Entry, p.needOfflineKey = FALSE PROVE Plain(p) = p
  <2>1. Plain(p) \in Entry /\ Plain(p).needOfflineKey = p.needOfflineKey
    BY <1>1, PlainFields, Zenon
  <2>2. /\ Plain(p).status = p.status /\ Plain(p).publicKey = p.publicKey
        /\ Plain(p).encryptedKey = p.encryptedKey /\ Plain(p).offlineKey = p.offlineKey
    BY <1>1, PlainFields, Zenon
  <2> QED BY <1>1, <2>1, <2>2, EntryFields, Zenon
<1>2. Plain(e) \in Entry /\ Plain(e).needOfflineKey = FALSE
  BY PlainFields
<1> QED BY <1>1, <1>2

LEMMA PlainNothing == Plain(NoEntry) = NoEntry
<1>1. NoEntry.needOfflineKey = FALSE
  BY DEF NoEntry
<1> QED BY <1>1, NoEntryType, PlainFields, EntryFields

\* SyncClientInfo, entry by entry.
LEMMA SyncEntries ==
    ASSUME TypeOK, NEW own, NEW S \in SUBSET Login, NEW lists \in [S -> FriendList],
           SyncClientInfo(own, lists)
    PROVE  /\ \A l \in S, f \in Friend : stored'[l][f] = Plain(lists[l][f])
           /\ \A l \in Login \ S : stored'[l] = stored[l]
           /\ \A d \in Device : info'[d] = lists[Owner[d]] \/ info'[d] = info[d]
           /\ \A d \in Device : Owner[d] \notin S => info'[d] = info[d]
           /\ \A d \in Device : Owner[d] \in S /\ byLogin[Owner[d]] = d =>
                  info'[d] = lists[Owner[d]]
           /\ \A d \in Device : info'[d] # info[d] => Owner[d] \in S
<1>1. \A l \in S, f \in Friend : stored'[l][f] = Plain(lists[l][f])
  BY DEF SyncClientInfo, Persisted, Plain
<1> QED BY <1>1 DEF SyncClientInfo, Refreshed, Notified

StoredAre(S, lists) ==
    /\ \A l \in S, f \in Friend : stored'[l][f] = Plain(lists[l][f])
    /\ \A l \in Login \ S : stored'[l] = stored[l]

LEMMA SyncStored ==
    ASSUME TypeOK, NEW own, NEW S \in SUBSET Login, NEW lists \in [S -> FriendList],
           SyncClientInfo(own, lists)
    PROVE  StoredAre(S, lists)
BY DEF StoredAre, SyncClientInfo, Persisted, Plain

LEMMA SyncSession ==
    ASSUME TypeOK, FriendsAssumption, SessionInv,
           NEW own, NEW S \in SUBSET Login, NEW lists \in [S -> FriendList],
           \A l \in S, f \in Login \ registered : lists[l][f] = NoEntry,
           SyncClientInfo(own, lists)
    PROVE  SessionInv'
<1>0. /\ \A l \in S, f \in Friend : stored'[l][f] = Plain(lists[l][f])
      /\ \A l \in Login \ S : stored'[l] = stored[l]
      /\ \A d \in Device : info'[d] = lists[Owner[d]] \/ info'[d] = info[d]
      /\ \A d \in Device : Owner[d] \notin S => info'[d] = info[d]
      /\ \A d \in Device : Owner[d] \in S /\ byLogin[Owner[d]] = d =>
             info'[d] = lists[Owner[d]]
      /\ \A d \in Device : info'[d] # info[d] => Owner[d] \in S
  BY SyncEntries
<1>1. registered' = registered /\ byLogin' = byLogin
  BY DEF SyncClientInfo
<1>2. \A f \in Login : f \in Friend
  BY DEF Friend
<1>3. SessionInfoCurrent'
  <2> SUFFICES ASSUME NEW d \in Device, byLogin[Owner[d]] = d, NEW f \in Login
               PROVE  Plain(info'[d][f]) = stored'[Owner[d]][f]
    BY <1>1 DEF SessionInfoCurrent, Plain
  <2>1. Owner[d] \in Login /\ byLogin[Owner[d]] = d
    BY DEF FriendsAssumption
  <2>2. f \in Friend
    BY DEF Friend
  <2>3. CASE Owner[d] \in S
    <3>1. info'[d] = lists[Owner[d]]
      BY <2>3, <1>0
    <3>2. stored'[Owner[d]][f] = Plain(lists[Owner[d]][f])
      BY <2>2, <2>3, <1>0
    <3> QED BY <3>1, <3>2
  <2>4. CASE Owner[d] \notin S
    <3>1. info'[d] = info[d]
      BY <2>4, <1>0
    <3>2. stored'[Owner[d]] = stored[Owner[d]]
      BY <2>1, <2>4, <1>0
    <3>3. Plain(info[d][f]) = stored[Owner[d]][f]
      BY DEF SessionInv, SessionInfoCurrent, Plain
    <3> QED BY <3>1, <3>2, <3>3
  <2> QED BY <2>3, <2>4
<1>4. StoredPlain'
  <2> SUFFICES ASSUME NEW l \in Login, NEW f \in Friend
               PROVE  stored'[l][f] = Plain(stored'[l][f])
    BY DEF StoredPlain
  <2>1. CASE l \in S
    <3>1. lists[l][f] \in Entry
      BY <2>1 DEF FriendList
    <3>2. Plain(Plain(lists[l][f])) = Plain(lists[l][f])
      BY <3>1, PlainTwice
    <3>3. stored'[l][f] = Plain(lists[l][f])
      BY <2>1, <1>0
    <3> QED BY <3>2, <3>3
  <2>2. CASE l \notin S
    <3>1. stored'[l] = stored[l]
      BY <2>2, <1>0
    <3>2. stored[l][f] = Plain(stored[l][f])
      BY DEF SessionInv, StoredPlain
    <3> QED BY <3>1, <3>2
  <2> QED BY <2>1, <2>2
<1>5. UnknownAbsent'
  <2> SUFFICES ASSUME NEW f \in Login \ registered
               PROVE  /\ \A l \in Login : stored'[l][f] = NoEntry
                      /\ \A d \in Device : info'[d][f] = NoEntry
    BY <1>1 DEF UnknownAbsent
  <2>0. /\ f \in Friend
        /\ \A l \in Login : stored[l][f] = NoEntry
        /\ \A d \in Device : info[d][f] = NoEntry
        /\ \A l \in S : lists[l][f] = NoEntry
    BY <1>2 DEF SessionInv, UnknownAbsent
  <2>1. ASSUME NEW l \in Login PROVE stored'[l][f] = NoEntry
    <3>1. CASE l \in S
      <4>1. stored'[l][f] = Plain(NoEntry)
        BY <2>0, <3>1, <1>0
      <4> QED BY <4>1, PlainNothing
    <3>2. CASE l \notin S
      <4>1. stored'[l] = stored[l]
        BY <3>2, <1>0
      <4> QED BY <2>0, <4>1
    <3> QED BY <3>1, <3>2
  <2>2. ASSUME NEW d \in Device PROVE info'[d][f] = NoEntry
    <3>1. CASE info'[d] = info[d]
      BY <2>0, <3>1
    <3>2. CASE info'[d] # info[d]
      <4>1. info'[d] = lists[Owner[d]] /\ Owner[d] \in S
        BY <3>2, <1>0
      <4> QED BY <2>0, <4>1
    <3> QED BY <3>1, <3>2
  <2> QED BY <2>1, <2>2
<1> QED BY <1>3, <1>4, <1>5 DEF SessionInv

\* A handler that stores lists in which only existing accounts appear.
LEMMA HandlerSession ==
    ASSUME TypeOK, FriendsAssumption, Connected, SessionInv,
           NEW d \in Device, HandleRequest(d)
    PROVE  SessionInv'
<1> DEFINE r == Head(toServer[d])
           me == Owner[d]
<1>1. toServer[d] # <<>> /\ r \in Request
  BY HeadRequest DEF HandleRequest, HandleAddLocal, HandleAddFailed, HandleAddRemote,
     HandleRemoveLocal, HandleRemoveRemote, HandleRemoveFailed,
     HandleSetFriendOfflineKey, NextRequest
<1>2. me \in Login /\ me \in Friend /\ me \in registered
  BY <1>1 DEF FriendsAssumption, Friend, Connected
<1>3. info[d] \in FriendList /\ registered \subseteq Login
  BY DEF TypeOK
<1>4. \A l \in Login : stored[l] \in FriendList
  BY DEF TypeOK
<1>5. \A f \in Login \ registered :
        f \in Friend /\ info[d][f] = NoEntry /\ \A l \in Login : stored[l][f] = NoEntry
  BY DEF SessionInv, UnknownAbsent, Friend
<1>6. ASSUME NEW f \in registered, NEW own,
             NEW mine \in FriendList, NEW theirs \in FriendList,
             \A g \in Login \ registered : mine[g] = NoEntry /\ theirs[g] = NoEntry,
             SyncClientInfo(own, [l \in {me, f} |-> IF l = me THEN mine ELSE theirs])
      PROVE  SessionInv'
  <2> DEFINE lists == [l \in {me, f} |-> IF l = me THEN mine ELSE theirs]
  <2>1. {me, f} \in SUBSET Login /\ lists \in [{me, f} -> FriendList]
    BY <1>2, <1>3
  <2>2. \A l \in {me, f}, g \in Login \ registered : lists[l][g] = NoEntry
    BY <1>6
  <2> HIDE DEF lists
  <2>3. SyncClientInfo(own, lists)
    BY <1>6 DEF lists
  <2> QED BY <2>1, <2>2, <2>3, SyncSession
<1>7. ASSUME NEW l0 \in Login, NEW own, NEW list \in FriendList,
             \A g \in Login \ registered : list[g] = NoEntry,
             SyncClientInfo(own, [l \in {l0} |-> list])
      PROVE  SessionInv'
  <2> DEFINE lists == [l \in {l0} |-> list]
  <2>1. {l0} \in SUBSET Login /\ lists \in [{l0} -> FriendList]
    OBVIOUS
  <2>2. \A l \in {l0}, g \in Login \ registered : lists[l][g] = NoEntry
    BY <1>7
  <2> HIDE DEF lists
  <2>3. SyncClientInfo(own, lists)
    BY <1>7 DEF lists
  <2> QED BY <2>1, <2>2, <2>3, SyncSession
<1>8. CASE HandleAddLocal(d)
  <2> DEFINE mine == [info[d] EXCEPT ![r.friend] = RequestedBySelf(@, r.key)]
             theirs == [stored[r.friend] EXCEPT ![me] = RequestedByFriend(@)]
  <2>1. r.friend \in Friend /\ r.key \in Nat /\ r.friend \in Login /\ r.friend \in registered
    BY <1>1, <1>3, <1>8, RequestFields DEF HandleAddLocal, NextRequest
  <2>2. mine \in FriendList
    BY <1>3, <2>1, RequestedType DEF FriendList
  <2>3. theirs \in FriendList
    BY <1>2, <1>4, <2>1, RequestedType DEF FriendList
  <2>4. \A g \in Login \ registered : mine[g] = NoEntry
    BY <1>3, <1>5, <2>1 DEF FriendList
  <2>5. \A g \in Login \ registered : theirs[g] = NoEntry
    BY <1>2, <1>4, <1>5, <2>1 DEF FriendList
  <2>6. SyncClientInfo(d, [l \in {me, r.friend} |-> IF l = me THEN mine ELSE theirs])
    BY <1>8 DEF HandleAddLocal
  <2> HIDE DEF mine, theirs, r, me
  <2> QED BY <1>6, <2>1, <2>2, <2>3, <2>4, <2>5, <2>6
<1>9. CASE HandleAddFailed(d) \/ HandleRemoveRemote(d)
  <2> DEFINE list == [info[d] EXCEPT ![r.friend] = NoEntry]
  <2>1. r.friend \in Friend
    BY <1>1, <1>9, RequestFields DEF HandleAddFailed, HandleRemoveRemote, NextRequest
  <2>2. list \in FriendList
    BY <1>3, <2>1, UpdatedListType, NoEntryType
  <2>3. \A g \in Login \ registered : list[g] = NoEntry
    BY <1>3, <1>5, <2>1 DEF FriendList
  <2>4. SyncClientInfo(d, [l \in {me} |-> list])
    BY <1>9 DEF HandleAddFailed, HandleRemoveRemote
  <2> HIDE DEF list, r, me
  <2> QED BY <1>2, <1>7, <2>2, <2>3, <2>4
<1>10. CASE HandleAddRemote(d)
  <2> DEFINE list == [info[d] EXCEPT ![r.friend] = RequestedBySelf(@, r.key)]
  <2>1. r.friend \in Friend /\ r.key \in Nat /\ r.friend \in Remote
    BY <1>1, <1>10, RequestFields DEF HandleAddRemote, NextRequest
  <2>2. list \in FriendList
    BY <1>3, <2>1, RequestedType DEF FriendList
  <2>3. \A g \in Login \ registered : list[g] = NoEntry
    BY <1>3, <1>5, <2>1 DEF FriendList, FriendsAssumption
  <2>4. SyncClientInfo(d, [l \in {me} |-> list])
    BY <1>10 DEF HandleAddRemote
  <2> HIDE DEF list, r, me
  <2> QED BY <1>2, <1>7, <2>2, <2>3, <2>4
<1>11. CASE HandleRemoveLocal(d)
  <2> DEFINE mine == [info[d] EXCEPT ![r.friend] = NoEntry]
             theirs == RemovedByFriend(stored[r.friend], me)
  <2>1. r.friend \in Friend /\ r.friend \in Login /\ r.friend \in registered
    BY <1>1, <1>3, <1>11, RequestFields DEF HandleRemoveLocal, NextRequest
  <2>2. mine \in FriendList
    BY <1>3, <2>1, UpdatedListType, NoEntryType
  <2>3. theirs \in FriendList
    BY <1>2, <1>4, <2>1, UpdatedListType, NoEntryType DEF RemovedByFriend
  <2>4. \A g \in Login \ registered : mine[g] = NoEntry
    BY <1>3, <1>5, <2>1 DEF FriendList
  <2>5. \A g \in Login \ registered : theirs[g] = NoEntry
    BY <1>2, <1>4, <1>5, <2>1 DEF FriendList, RemovedByFriend
  <2>6. SyncClientInfo(d, [l \in {me, r.friend} |-> IF l = me THEN mine ELSE theirs])
    BY <1>11 DEF HandleRemoveLocal
  <2> HIDE DEF mine, theirs, r, me
  <2> QED BY <1>6, <2>1, <2>2, <2>3, <2>4, <2>5, <2>6
<1>12. CASE HandleRemoveFailed(d)
  <2>1. r.friend \in Friend /\ r.friend \notin registered
    BY <1>1, <1>12, RequestFields DEF HandleRemoveFailed, NextRequest
  <2>2. UNCHANGED <<registered, stored, byLogin>>
    BY <1>12 DEF HandleRemoveFailed
  <2>3. \A x \in Device, f \in Login : info'[x][f] = info[x][f]
    <3>1. info' = [info EXCEPT ![d][r.friend] = NoEntry]
      BY <1>12 DEF HandleRemoveFailed
    <3>2. info \in [Device -> FriendList]
      BY DEF TypeOK
    <3>3. r.friend \in Login => info[d][r.friend] = NoEntry
      BY <1>5, <2>1
    <3> QED BY <3>1, <3>2, <3>3, <2>1 DEF FriendList, Friend
  <2> QED BY <2>2, <2>3 DEF SessionInv, SessionInfoCurrent, StoredPlain, UnknownAbsent
<1>13. ASSUME NEW f \in Friend, HandleSetFriendOfflineKey(d, f) PROVE SessionInv'
  <2> DEFINE e == [stored[f][me] EXCEPT !.offlineKey = r.keys[f]]
             theirs == [stored[f] EXCEPT ![me].offlineKey = r.keys[f]]
  <2>1. r.keys \in [Friend -> Nat]
    BY <1>1, <1>13, RequestFields DEF HandleSetFriendOfflineKey, NextRequest
  <2>2. CASE KeyAccepted(me, info[d], f)
    <3>1. f \in Login
      BY <1>3, <2>2 DEF KeyAccepted
    <3>2. stored[f] \in FriendList /\ stored[f][me] \in Entry /\ r.keys[f] \in Nat
      BY <1>2, <1>4, <2>1, <3>1 DEF FriendList
    <3>3. e \in Entry
      BY <3>2 DEF Entry
    <3>4. theirs = [stored[f] EXCEPT ![me] = e]
      OBVIOUS
    <3>5. SyncClientInfo(NoDevice, [l \in {f} |-> theirs])
      BY <1>13, <2>2 DEF HandleSetFriendOfflineKey
    <3> HIDE DEF e, theirs
    <3>6. theirs \in FriendList
      BY <1>2, <3>2, <3>3, <3>4, UpdatedListType
    <3>7. \A g \in Login \ registered : theirs[g] = NoEntry
      BY <1>2, <1>5, <3>1, <3>2, <3>4 DEF FriendList
    <3> HIDE DEF r, me
    <3> QED BY <1>7, <3>1, <3>5, <3>6, <3>7
  <2>3. CASE ~KeyAccepted(me, info[d], f)
    BY <1>13, <2>3 DEF HandleSetFriendOfflineKey, serverVars, SessionInv,
       SessionInfoCurrent, StoredPlain, UnknownAbsent
  <2> QED BY <2>2, <2>3
<1> QED BY <1>8, <1>9, <1>10, <1>11, <1>12, <1>13 DEF HandleRequest

LEMMA DropSession ==
    ASSUME TypeOK, FriendsAssumption, SessionInv, NEW d \in Device, DropConnection(d)
    PROVE  SessionInv'
<1>1. UNCHANGED <<registered, stored>> /\ \A f \in Friend : info'[d][f] = NoEntry
  BY DEF DropConnection, TypeOK, NoFriends
<1>2. \A x \in Device : x # d => info'[x] = info[x]
  BY DEF DropConnection, TypeOK
<1>3. \A x \in Device : byLogin'[Owner[x]] = x => x # d /\ byLogin[Owner[x]] = x
  BY DEF DropConnection, TypeOK, FriendsAssumption
<1>4. SessionInfoCurrent'
  BY <1>1, <1>2, <1>3 DEF SessionInv, SessionInfoCurrent
<1>5. UnknownAbsent'
  BY <1>1, <1>2 DEF SessionInv, UnknownAbsent, Friend
<1> QED BY <1>1, <1>4, <1>5 DEF SessionInv, StoredPlain

LEMMA AuthorizeSession ==
    ASSUME TypeOK, FriendsAssumption, SessionInv, NEW d \in Device, Authorize(d)
    PROVE  SessionInv'
<1>1. UNCHANGED <<registered, stored>> /\ info'[d] = stored[Owner[d]]
  BY DEF Authorize, TypeOK
<1>2. \A x \in Device : x # d => info'[x] = info[x]
  BY DEF Authorize, TypeOK
<1>3. \A x \in Device : byLogin'[Owner[x]] = x => x = d \/ byLogin[Owner[x]] = x
  BY DEF Authorize, TypeOK, FriendsAssumption
<1>4. Owner[d] \in Login /\ \A f \in Login : f \in Friend
  BY DEF FriendsAssumption, Friend
<1>5. SessionInfoCurrent'
  <2> SUFFICES ASSUME NEW x \in Device, byLogin'[Owner[x]] = x, NEW f \in Login
               PROVE  Plain(info'[x][f]) = stored[Owner[x]][f]
    BY <1>1 DEF SessionInfoCurrent, Plain
  <2>1. CASE x = d
    BY <1>1, <1>4, <2>1 DEF SessionInv, StoredPlain
  <2>2. CASE x # d
    <3>1. byLogin[Owner[x]] = x /\ info'[x] = info[x]
      BY <1>2, <1>3, <2>2
    <3> QED BY <3>1 DEF SessionInv, SessionInfoCurrent, Plain
  <2> QED BY <2>1, <2>2
<1>6. UnknownAbsent'
  <2> SUFFICES ASSUME NEW f \in Login \ registered, NEW x \in Device
               PROVE  info'[x][f] = NoEntry /\ \A l \in Login : stored[l][f] = NoEntry
    BY <1>1, <1>4 DEF UnknownAbsent, SessionInv
  <2> QED BY <1>1, <1>2, <1>4 DEF SessionInv, UnknownAbsent
<1> QED BY <1>1, <1>5, <1>6 DEF SessionInv, StoredPlain

LEMMA NextSession ==
    FriendsAssumption /\ TypeOK /\ Connected /\ SessionInv /\ [Next]_vars => SessionInv'
<1> SUFFICES ASSUME FriendsAssumption, TypeOK, Connected, SessionInv, [Next]_vars
             PROVE  SessionInv'
  OBVIOUS
<1>1. ASSUME NEW l \in Login, Register(l) PROVE SessionInv'
  BY <1>1 DEF Register, SessionInv, SessionInfoCurrent, StoredPlain, UnknownAbsent
<1>2. ASSUME NEW d \in Device, Disconnect(d) \/ DieOfMismatch(d) PROVE SessionInv'
  BY <1>2, DropSession DEF Disconnect, DieOfMismatch
<1>3. ASSUME UNCHANGED serverVars PROVE SessionInv'
  BY <1>3 DEF serverVars, SessionInv, SessionInfoCurrent, StoredPlain, UnknownAbsent
<1>4. ASSUME NEW d \in Device, Restart(d) \/ ReceiveSyncInfo(d) PROVE SessionInv'
  BY <1>3, <1>4 DEF Restart, ReceiveSyncInfo
<1>5. ASSUME NEW d \in Device, NEW f \in Friend, AddFriend(d, f) \/ RemoveFriend(d, f)
      PROVE  SessionInv'
  BY <1>3, <1>5 DEF AddFriend, RemoveFriend
<1>6. CASE UNCHANGED vars
  BY <1>3, <1>6 DEF vars, serverVars
<1> QED BY <1>1, <1>2, <1>4, <1>5, <1>6, AuthorizeSession, HandlerSession DEF Next

LEMMA SessionInit == Init => SessionInv
<1> SUFFICES ASSUME Init PROVE SessionInv
  OBVIOUS
<1>1. \A l \in Login : byLogin[l] = NoDevice
  BY DEF Init
<1>2. SessionInfoCurrent
  BY <1>1, FriendsAssumption DEF SessionInfoCurrent
<1>3. \A f \in Friend : /\ \A l \in Login : stored[l][f] = NoEntry
                        /\ \A d \in Device : info[d][f] = NoEntry
  BY DEF Init, NoFriends
<1>4. StoredPlain
  BY <1>3, PlainNothing DEF StoredPlain
<1>5. UnknownAbsent
  BY <1>3 DEF UnknownAbsent, Friend
<1> QED BY <1>2, <1>4, <1>5 DEF SessionInv

\* In every reachable state the session that ClientsByLogin names for an account
\* holds the friends that are stored for it, whatever the number of devices that log
\* in to one account: SyncClientInfo refreshes the registered session also when the
\* change came from a friend or from another device.
THEOREM SessionCurrent == Spec => []SessionInfoCurrent
<1>1. Init => SessionInv
  BY SessionInit
<1>2. SessionInv => SessionInfoCurrent
  BY DEF SessionInv
<1> QED BY <1>1, <1>2, NextSession, TypeCorrect, AlwaysConnected, FriendsAssumption,
           PTL DEF Spec

-----------------------------------------------------------------------------
(* Both halves of a friendship, when every account has one device *)

SingleDevice == \A a, b \in Device : Owner[a] = Owner[b] => a = b

OnlineRegistered == \A d \in online : byLogin[Owner[d]] = d

LEMMA NextOnlineRegistered ==
    ASSUME SingleDevice, FriendsAssumption, TypeOK, OnlineRegistered, [Next]_vars
    PROVE  OnlineRegistered'
<1>1. ASSUME NEW l \in Login, Register(l) PROVE OnlineRegistered'
  BY <1>1 DEF Register, OnlineRegistered
<1>2. ASSUME NEW d \in Device, Authorize(d) PROVE OnlineRegistered'
  BY <1>2 DEF Authorize, OnlineRegistered, TypeOK, FriendsAssumption, SingleDevice
<1>3. ASSUME NEW d \in Device, DropConnection(d) PROVE OnlineRegistered'
  BY <1>3 DEF DropConnection, OnlineRegistered, TypeOK, FriendsAssumption, SingleDevice
<1>4. ASSUME UNCHANGED <<online, byLogin>> PROVE OnlineRegistered'
  BY <1>4 DEF OnlineRegistered
<1>5. ASSUME NEW d \in Device, Disconnect(d) \/ DieOfMismatch(d) PROVE OnlineRegistered'
  BY <1>3, <1>5 DEF Disconnect, DieOfMismatch
<1>6. ASSUME NEW d \in Device, Restart(d) \/ ReceiveSyncInfo(d) PROVE OnlineRegistered'
  BY <1>4, <1>6 DEF Restart, ReceiveSyncInfo, serverVars
<1>7. ASSUME NEW d \in Device, NEW f \in Friend, AddFriend(d, f) \/ RemoveFriend(d, f)
      PROVE  OnlineRegistered'
  BY <1>4, <1>7 DEF AddFriend, RemoveFriend, serverVars
<1>8. ASSUME NEW d \in Device, HandleRequest(d) PROVE OnlineRegistered'
  <2>1. UNCHANGED <<online, byLogin>>
    BY <1>8 DEF HandleRequest, HandleAddLocal, HandleAddFailed, HandleAddRemote,
       HandleRemoveLocal, HandleRemoveRemote, HandleRemoveFailed,
       HandleSetFriendOfflineKey, OnlyServerSteps, SyncClientInfo, serverVars
  <2> QED BY <1>4, <2>1
<1>9. CASE UNCHANGED vars
  BY <1>4, <1>9 DEF vars
<1> QED BY <1>1, <1>2, <1>5, <1>6, <1>7, <1>8, <1>9 DEF Next

\* What a step does to the statuses of the stored friends.
SelfStatus(s) ==
    CASE s = "Absent" -> "UnAuthorized"
      [] s = "WaitingAuthorization" -> "Authorized"
      [] OTHER -> s
FriendStatus(s) ==
    CASE s = "Absent" -> "WaitingAuthorization"
      [] s = "UnAuthorized" -> "Authorized"
      [] OTHER -> s

SameStatus(a, b) == stored'[a][b].status = stored[a][b].status
AllSame == \A a, b \in Login : a # b => SameStatus(a, b)
OthersSame(me, f) == \A a, b \in Login : a # b /\ {a, b} # {me, f} => SameStatus(a, b)

RequestedStatus(me, f) ==
    /\ OthersSame(me, f)
    /\ stored'[me][f].status = SelfStatus(stored[me][f].status)
    /\ stored'[f][me].status = FriendStatus(stored[f][me].status)

EndedStatus(me, f) ==
    /\ OthersSame(me, f)
    /\ stored'[me][f].status = "Absent" /\ stored'[f][me].status = "Absent"

StatusStep ==
    AllSame \/ \E me, f \in Login : me # f /\ (RequestedStatus(me, f) \/ EndedStatus(me, f))

LEMMA RequestedStatuses ==
    ASSUME NEW e \in Entry, NEW key
    PROVE  /\ RequestedBySelf(e, key).status = SelfStatus(e.status)
           /\ RequestedByFriend(e).status = FriendStatus(e.status)
BY DEF RequestedByFriend, RequestedBySelf, AcceptedBySelf, AcceptedByFriend,
       SelfStatus, FriendStatus, Entry, Status, NoEntry

\* Both lists of one friendship are stored and nothing else changes its status.
LEMMA PairStatus ==
    ASSUME TypeOK, NEW me \in Login, NEW f \in Login, me # f,
           NEW S, S = {me, f}, NEW lists \in [S -> FriendList],
           \A g \in Login \ {me, f} : /\ lists[me][g].status = stored[me][g].status
                                      /\ lists[f][g].status = stored[f][g].status,
           StoredAre(S, lists)
    PROVE  /\ OthersSame(me, f)
           /\ stored'[me][f].status = lists[me][f].status
           /\ stored'[f][me].status = lists[f][me].status
<1> DEFINE mine == lists[me]
           theirs == lists[f]
<1>1. me \in S /\ f \in S
  OBVIOUS
<1>2. mine \in FriendList /\ theirs \in FriendList
  BY <1>1
<1>3. \A g \in Login : g \in Friend /\ mine[g] \in Entry /\ theirs[g] \in Entry
  BY <1>2 DEF Friend, FriendList
<1>5. \A l \in S, g \in Friend : stored'[l][g] = Plain(lists[l][g])
  BY DEF StoredAre
<1>6. \A l \in Login \ S : stored'[l] = stored[l]
  BY DEF StoredAre
<1>7. \A g \in Login : stored'[me][g].status = mine[g].status
  BY <1>1, <1>3, <1>5, PlainFields
<1>8. \A g \in Login : stored'[f][g].status = theirs[g].status
  BY <1>1, <1>3, <1>5, PlainFields
<1>9. ASSUME NEW a \in Login, NEW b \in Login, a # b, {a, b} # {me, f}
      PROVE  SameStatus(a, b)
  BY <1>6, <1>7, <1>8, <1>9 DEF SameStatus
<1> QED BY <1>7, <1>8, <1>9 DEF OthersSame

\* One list is stored and no status in it changes.
LEMMA OneStatus ==
    ASSUME TypeOK, FriendsAssumption,
           NEW me \in Login, NEW own, NEW list \in FriendList,
           \A g \in Login \ {me} : list[g].status = stored[me][g].status,
           SyncClientInfo(own, [l \in {me} |-> list])
    PROVE  AllSame
<1> DEFINE lists == [l \in {me} |-> list]
           S == {me}
<1>1. S \in SUBSET Login /\ lists \in [S -> FriendList] /\ lists[me] = list /\ me \in S
  OBVIOUS
<1>2. \A g \in Login : g \in Friend /\ list[g] \in Entry
  BY DEF Friend, FriendList
<1> HIDE DEF lists, S
<1>3. SyncClientInfo(own, lists)
  BY DEF lists
<1>4. \A g \in Friend : stored'[me][g] = Plain(list[g])
  <2>1. \A l \in S, g \in Friend : stored'[l][g] = Plain(lists[l][g])
    <3>1. StoredAre(S, lists)
      BY <1>1, <1>3, SyncStored
    <3> QED BY <3>1 DEF StoredAre
  <2> QED BY <1>1, <2>1
<1>5. \A l \in Login \ {me} : stored'[l] = stored[l]
  BY <1>1, <1>3, SyncEntries DEF S
<1>6. ASSUME NEW g \in Login \ {me}
      PROVE  stored'[me][g].status = stored[me][g].status
  <2>1. stored'[me][g] = Plain(list[g]) /\ list[g] \in Entry
    BY <1>2, <1>4
  <2>2. stored'[me][g].status = list[g].status
    BY <2>1, PlainFields
  <2> QED BY <2>2
<1> QED BY <1>5, <1>6 DEF AllSame, SameStatus

LEMMA HandlerStatus ==
    ASSUME TypeOK, FriendsAssumption, Connected, SessionInv, OnlineRegistered,
           NEW d \in Device, HandleRequest(d)
    PROVE  StatusStep
<1> DEFINE r == Head(toServer[d])
           me == Owner[d]
<1>1. toServer[d] # <<>> /\ r \in Request
  BY HeadRequest DEF HandleRequest, HandleAddLocal, HandleAddFailed, HandleAddRemote,
     HandleRemoveLocal, HandleRemoveRemote, HandleRemoveFailed,
     HandleSetFriendOfflineKey, NextRequest
<1>2. me \in Login /\ me \in Friend /\ byLogin[me] = d
  BY <1>1 DEF FriendsAssumption, Friend, Connected, OnlineRegistered
<1>3. info[d] \in FriendList /\ registered \subseteq Login
  BY DEF TypeOK
<1>4. \A l \in Login : stored[l] \in FriendList
  BY DEF TypeOK
<1>5. \A g \in Login : /\ g \in Friend /\ info[d][g] \in Entry
                       /\ info[d][g].status = stored[me][g].status
  <2> SUFFICES ASSUME NEW g \in Login
               PROVE  /\ g \in Friend /\ info[d][g] \in Entry
                      /\ info[d][g].status = stored[me][g].status
    OBVIOUS
  <2>1. g \in Friend /\ info[d][g] \in Entry
    BY <1>3 DEF Friend, FriendList
  <2>2. Plain(info[d][g]) = stored[me][g]
    BY <1>2 DEF SessionInv, SessionInfoCurrent, Plain
  <2> QED BY <2>1, <2>2, PlainFields
<1>6. \A f \in Login \ registered : stored[me][f].status = NoEntry.status
  BY <1>2 DEF SessionInv, UnknownAbsent
<1>7. NoEntry.status = "Absent"
  BY DEF NoEntry
<1>8. CASE HandleAddLocal(d)
  <2> DEFINE mine == [info[d] EXCEPT ![r.friend] = RequestedBySelf(@, r.key)]
             theirs == [stored[r.friend] EXCEPT ![me] = RequestedByFriend(@)]
  <2>1. r.friend \in Friend /\ r.key \in Nat /\ r.friend \in Login /\ r.friend # me
    BY <1>1, <1>3, <1>8, RequestFields DEF HandleAddLocal, NextRequest
  <2>2. mine \in FriendList
    BY <1>3, <2>1, RequestedType DEF FriendList
  <2>3. theirs \in FriendList
    BY <1>2, <1>4, <2>1, RequestedType DEF FriendList
  <2>4. \A g \in Login \ {me, r.friend} :
          /\ mine[g].status = stored[me][g].status
          /\ theirs[g].status = stored[r.friend][g].status
    BY <1>2, <1>3, <1>4, <1>5, <2>1 DEF FriendList
  <2>5. /\ mine[r.friend].status = SelfStatus(stored[me][r.friend].status)
        /\ theirs[me].status = FriendStatus(stored[r.friend][me].status)
    <3>1. /\ mine[r.friend] = RequestedBySelf(info[d][r.friend], r.key)
          /\ theirs[me] = RequestedByFriend(stored[r.friend][me])
      BY <1>2, <1>3, <1>4, <2>1 DEF FriendList
    <3>2. info[d][r.friend].status = stored[me][r.friend].status
      BY <1>5, <2>1
    <3>3. stored[r.friend][me] \in Entry /\ info[d][r.friend] \in Entry
      BY <1>2, <1>4, <1>5, <2>1 DEF FriendList
    <3> HIDE DEF mine, theirs, r, me
    <3> QED BY <3>1, <3>2, <3>3, RequestedStatuses
  <2>6. SyncClientInfo(d, [l \in {me, r.friend} |-> IF l = me THEN mine ELSE theirs])
    BY <1>8 DEF HandleAddLocal
  <2>7. me \in Login
    BY <1>2
  <2> HIDE DEF mine, theirs, me
  <2>8. ASSUME NEW f \in Login, f = r.friend PROVE StatusStep
    <3>1. me # f /\ mine \in FriendList /\ theirs \in FriendList
      BY <2>1, <2>2, <2>3, <2>8
    <3>2. \A g \in Login \ {me, f} : /\ mine[g].status = stored[me][g].status
                                     /\ theirs[g].status = stored[f][g].status
      BY <2>4, <2>8
    <3>3. /\ mine[f].status = SelfStatus(stored[me][f].status)
          /\ theirs[me].status = FriendStatus(stored[f][me].status)
      BY <2>5, <2>8
    <3> DEFINE S == {me, f}
               lists == [l \in S |-> IF l = me THEN mine ELSE theirs]
    <3>4. SyncClientInfo(d, lists)
      BY <2>6, <2>8
    <3>5. S \in SUBSET Login /\ S = {me, f} /\ lists \in [S -> FriendList]
      BY <2>7, <3>1
    <3>6. mine = lists[me] /\ theirs = lists[f]
      BY <3>1
    <3> HIDE DEF S, lists
    <3>7. StoredAre(S, lists)
      BY <3>4, <3>5, SyncStored
    <3>8. \A g \in Login \ {me, f} : /\ lists[me][g].status = stored[me][g].status
                                     /\ lists[f][g].status = stored[f][g].status
      BY <3>2, <3>6
    <3>9. /\ OthersSame(me, f)
          /\ stored'[me][f].status = lists[me][f].status
          /\ stored'[f][me].status = lists[f][me].status
      BY <2>7, <3>1, <3>5, <3>7, <3>8, PairStatus
    <3>10. RequestedStatus(me, f)
      BY <3>3, <3>6, <3>9 DEF RequestedStatus
    <3> QED BY <2>7, <3>1, <3>10 DEF StatusStep
  <2> QED BY <2>1, <2>8
<1>9. CASE HandleRemoveLocal(d)
  <2> DEFINE mine == [info[d] EXCEPT ![r.friend] = NoEntry]
             theirs == RemovedByFriend(stored[r.friend], me)
  <2>1. r.friend \in Friend /\ r.friend \in Login /\ r.friend # me
    BY <1>1, <1>3, <1>9, RequestFields DEF HandleRemoveLocal, NextRequest
  <2>2. mine \in FriendList
    BY <1>3, <2>1, UpdatedListType, NoEntryType
  <2>3. theirs \in FriendList
    BY <1>2, <1>4, <2>1, UpdatedListType, NoEntryType DEF RemovedByFriend
  <2>4. \A g \in Login \ {me, r.friend} :
          /\ mine[g].status = stored[me][g].status
          /\ theirs[g].status = stored[r.friend][g].status
    BY <1>2, <1>3, <1>4, <1>5, <2>1 DEF FriendList, RemovedByFriend
  <2>5. mine[r.friend].status = "Absent" /\ theirs[me].status = "Absent"
    <3>1. mine[r.friend] = NoEntry /\ theirs[me] = NoEntry
      BY <1>2, <1>3, <1>4, <2>1 DEF FriendList, RemovedByFriend
    <3> QED BY <3>1, <1>7
  <2>6. SyncClientInfo(d, [l \in {me, r.friend} |-> IF l = me THEN mine ELSE theirs])
    BY <1>9 DEF HandleRemoveLocal
  <2>7. me \in Login
    BY <1>2
  <2> HIDE DEF mine, theirs, me
  <2>8. ASSUME NEW f \in Login, f = r.friend PROVE StatusStep
    <3>1. me # f /\ mine \in FriendList /\ theirs \in FriendList
      BY <2>1, <2>2, <2>3, <2>8
    <3>2. \A g \in Login \ {me, f} : /\ mine[g].status = stored[me][g].status
                                     /\ theirs[g].status = stored[f][g].status
      BY <2>4, <2>8
    <3>3. mine[f].status = "Absent" /\ theirs[me].status = "Absent"
      BY <2>5, <2>8
    <3> DEFINE S == {me, f}
               lists == [l \in S |-> IF l = me THEN mine ELSE theirs]
    <3>4. SyncClientInfo(d, lists)
      BY <2>6, <2>8
    <3>5. S \in SUBSET Login /\ S = {me, f} /\ lists \in [S -> FriendList]
      BY <2>7, <3>1
    <3>6. mine = lists[me] /\ theirs = lists[f]
      BY <3>1
    <3> HIDE DEF S, lists
    <3>7. StoredAre(S, lists)
      BY <3>4, <3>5, SyncStored
    <3>8. \A g \in Login \ {me, f} : /\ lists[me][g].status = stored[me][g].status
                                     /\ lists[f][g].status = stored[f][g].status
      BY <3>2, <3>6
    <3>9. /\ OthersSame(me, f)
          /\ stored'[me][f].status = lists[me][f].status
          /\ stored'[f][me].status = lists[f][me].status
      BY <2>7, <3>1, <3>5, <3>7, <3>8, PairStatus
    <3>10. EndedStatus(me, f)
      BY <3>3, <3>6, <3>9 DEF EndedStatus
    <3> QED BY <2>7, <3>1, <3>10 DEF StatusStep
  <2> QED BY <2>1, <2>8
<1>10. CASE HandleAddFailed(d) \/ HandleRemoveRemote(d)
  <2> DEFINE list == [info[d] EXCEPT ![r.friend] = NoEntry]
  <2>1. /\ r.friend \in Friend
        /\ r.friend \in Remote \/ r.friend \notin registered \/ r.friend = me
    BY <1>1, <1>10, RequestFields DEF HandleAddFailed, HandleRemoveRemote, NextRequest
  <2>2. list \in FriendList
    BY <1>3, <2>1, UpdatedListType, NoEntryType
  <2>3. \A g \in Login \ {me} : list[g].status = stored[me][g].status
    BY <1>3, <1>5, <1>6, <2>1 DEF FriendList, FriendsAssumption
  <2>4. SyncClientInfo(d, [l \in {me} |-> list])
    BY <1>10 DEF HandleAddFailed, HandleRemoveRemote
  <2> HIDE DEF list, r, me
  <2> QED BY <1>2, <2>2, <2>3, <2>4, OneStatus DEF StatusStep
<1>11. CASE HandleAddRemote(d)
  <2> DEFINE list == [info[d] EXCEPT ![r.friend] = RequestedBySelf(@, r.key)]
  <2>1. r.friend \in Friend /\ r.key \in Nat /\ r.friend \in Remote
    BY <1>1, <1>11, RequestFields DEF HandleAddRemote, NextRequest
  <2>2. list \in FriendList
    BY <1>3, <2>1, RequestedType DEF FriendList
  <2>3. \A g \in Login \ {me} : list[g].status = stored[me][g].status
    BY <1>3, <1>5, <2>1 DEF FriendList, FriendsAssumption
  <2>4. SyncClientInfo(d, [l \in {me} |-> list])
    BY <1>11 DEF HandleAddRemote
  <2> HIDE DEF list, r, me
  <2> QED BY <1>2, <2>2, <2>3, <2>4, OneStatus DEF StatusStep
<1>12. CASE HandleRemoveFailed(d)
  BY <1>12 DEF HandleRemoveFailed, StatusStep, AllSame, SameStatus
<1>13. ASSUME NEW f \in Friend, HandleSetFriendOfflineKey(d, f) PROVE StatusStep
  <2> DEFINE e == [stored[f][me] EXCEPT !.offlineKey = r.keys[f]]
             theirs == [stored[f] EXCEPT ![me].offlineKey = r.keys[f]]
  <2>1. r.keys \in [Friend -> Nat]
    BY <1>1, <1>13, RequestFields DEF HandleSetFriendOfflineKey, NextRequest
  <2>2. CASE KeyAccepted(me, info[d], f)
    <3>1. f \in Login
      BY <1>3, <2>2 DEF KeyAccepted
    <3>2. stored[f] \in FriendList /\ stored[f][me] \in Entry /\ r.keys[f] \in Nat
      BY <1>2, <1>4, <2>1, <3>1 DEF FriendList
    <3>3. e \in Entry /\ e.status = stored[f][me].status
      BY <3>2 DEF Entry
    <3>4. theirs = [stored[f] EXCEPT ![me] = e]
      OBVIOUS
    <3>5. SyncClientInfo(NoDevice, [l \in {f} |-> theirs])
      BY <1>13, <2>2 DEF HandleSetFriendOfflineKey
    <3> HIDE DEF e, theirs
    <3>6. theirs \in FriendList
      BY <1>2, <3>2, <3>3, <3>4, UpdatedListType
    <3>7. \A g \in Login \ {f} : theirs[g].status = stored[f][g].status
      BY <1>2, <1>5, <3>2, <3>3, <3>4 DEF FriendList
    <3> HIDE DEF r, me
    <3> QED BY <3>1, <3>5, <3>6, <3>7, OneStatus DEF StatusStep
  <2>3. CASE ~KeyAccepted(me, info[d], f)
    BY <1>13, <2>3 DEF HandleSetFriendOfflineKey, serverVars, StatusStep, AllSame, SameStatus
  <2> QED BY <2>2, <2>3
<1> QED BY <1>8, <1>9, <1>10, <1>11, <1>12, <1>13 DEF HandleRequest

\* Every step, when every account has one device.
LEMMA NextStatus ==
    ASSUME TypeOK, FriendsAssumption, Connected, SessionInv, OnlineRegistered, [Next]_vars
    PROVE  StatusStep
<1>1. UNCHANGED stored \/ \E d \in Device : HandleRequest(d)
  BY DEF Next, vars, Register, Authorize, Disconnect, Restart, AddFriend,
     RemoveFriend, ReceiveSyncInfo, DieOfMismatch, DropConnection, serverVars
<1>2. CASE UNCHANGED stored
  BY <1>2 DEF StatusStep, AllSame, SameStatus
<1> QED BY <1>1, <1>2, HandlerStatus

LEMMA AlwaysSession ==
    ASSUME SingleDevice
    PROVE  Spec => [](SessionInv /\ OnlineRegistered)
<1>1. Init => SessionInv /\ OnlineRegistered
  BY SessionInit DEF Init, OnlineRegistered
<1>2. FriendsAssumption /\ TypeOK /\ OnlineRegistered /\ [Next]_vars => OnlineRegistered'
  BY NextOnlineRegistered
<1> QED BY <1>1, <1>2, NextSession, TypeCorrect, AlwaysConnected, FriendsAssumption,
           PTL DEF Spec

LEMMA StatusType ==
    ASSUME TypeOK, NEW a \in Login, NEW b \in Login
    PROVE  stored[a][b].status \in Status
<1>1. stored[a] \in FriendList /\ b \in Friend
  BY DEF TypeOK, Friend
<1>2. stored[a][b] \in Entry
  BY <1>1 DEF FriendList
<1> QED BY <1>2 DEF Entry

LEMMA StepMutual ==
    ASSUME TypeOK, FriendshipMutual, StatusStep
    PROVE  FriendshipMutual'
<1>1. ASSUME NEW a \in Login, NEW b \in Login, a # b, SameStatus(a, b), SameStatus(b, a)
      PROVE  stored'[b][a].status = Counterpart(stored'[a][b].status)
  BY <1>1 DEF SameStatus, FriendshipMutual
<1>2. ASSUME NEW me \in Login, NEW f \in Login, me # f,
             RequestedStatus(me, f) \/ EndedStatus(me, f)
      PROVE  /\ stored'[f][me].status = Counterpart(stored'[me][f].status)
             /\ stored'[me][f].status = Counterpart(stored'[f][me].status)
  <2>1. /\ stored[me][f].status \in Status
        /\ stored[f][me].status = Counterpart(stored[me][f].status)
    BY <1>2, StatusType DEF FriendshipMutual
  <2> QED BY <1>2, <2>1 DEF RequestedStatus, EndedStatus, Counterpart, SelfStatus,
             FriendStatus, Status
<1>3. ASSUME NEW me \in Login, NEW f \in Login, me # f,
             RequestedStatus(me, f) \/ EndedStatus(me, f)
      PROVE  FriendshipMutual'
  <2> SUFFICES ASSUME NEW a \in Login, NEW b \in Login, a # b
               PROVE  stored'[b][a].status = Counterpart(stored'[a][b].status)
    BY DEF FriendshipMutual
  <2>1. CASE a = me /\ b = f
    BY <1>2, <1>3, <2>1
  <2>2. CASE a = f /\ b = me
    BY <1>2, <1>3, <2>2
  <2>3. CASE {a, b} # {me, f}
    BY <1>1, <1>3, <2>3 DEF RequestedStatus, EndedStatus, OthersSame
  <2> QED BY <2>1, <2>2, <2>3
<1>4. CASE AllSame
  BY <1>1, <1>4 DEF AllSame, FriendshipMutual
<1> QED BY <1>3, <1>4 DEF StatusStep

\* When every account is used from one device, the two stored halves of a friendship
\* agree in every reachable state: requests, authorizations and removals change both
\* lists in one handler, and the requester's copy is current when it does.
THEOREM Mutual == ASSUME SingleDevice PROVE Spec => []FriendshipMutual
<1>1. Init => FriendshipMutual
  <2> SUFFICES ASSUME Init PROVE FriendshipMutual
    OBVIOUS
  <2>1. \A a, b \in Login : stored[a][b] = NoEntry
    BY DEF Init, NoFriends, Friend
  <2>2. NoEntry.status = Counterpart(NoEntry.status)
    BY DEF NoEntry, Counterpart
  <2> QED BY <2>1, <2>2 DEF FriendshipMutual
<1>2. /\ FriendsAssumption /\ TypeOK /\ Connected /\ SessionInv /\ OnlineRegistered
      /\ FriendshipMutual /\ [Next]_vars
      => FriendshipMutual'
  BY NextStatus, StepMutual
<1> QED BY <1>1, <1>2, AlwaysSession, TypeCorrect, AlwaysConnected, FriendsAssumption,
           PTL DEF Spec

-----------------------------------------------------------------------------
(* The friend lists implement Friendship *)

LEMMA PairOf ==
    ASSUME NEW p \in Pair
    PROVE  p[1] \in Login /\ p[2] \in Login /\ p[1] # p[2] /\ p = <<p[1], p[2]>>
BY DEF Pair

LEMMA StepImplements ==
    ASSUME TypeOK, FriendshipMutual, StatusStep
    PROVE  Abstract!Next \/ UNCHANGED <<Asked, Friends>>
<1>1. CASE AllSame
  <2>1. \A p \in Pair : SameStatus(p[1], p[2])
    BY <1>1, PairOf DEF AllSame
  <2> QED BY <2>1 DEF SameStatus, Asked, Friends
<1>2. ASSUME NEW me \in Login, NEW f \in Login, me # f,
             RequestedStatus(me, f) \/ EndedStatus(me, f)
      PROVE  Abstract!Ask(me, f) \/ Abstract!End(me, f)
  <2>1. /\ stored[me][f].status \in Status
        /\ stored[f][me].status = Counterpart(stored[me][f].status)
    BY <1>2, StatusType DEF FriendshipMutual
  <2>2. ASSUME NEW p \in Pair, p # <<me, f>>, p # <<f, me>>
        PROVE  /\ p \in Asked' <=> p \in Asked
               /\ p \in Friends' <=> p \in Friends
    <3>1. {p[1], p[2]} # {me, f}
      BY <2>2, PairOf
    <3>2. SameStatus(p[1], p[2])
      BY <1>2, <2>2, <3>1, PairOf DEF RequestedStatus, EndedStatus, OthersSame
    <3> QED BY <3>2 DEF SameStatus, Asked, Friends
  <2>3. <<me, f>> \in Pair /\ <<f, me>> \in Pair
    BY <1>2 DEF Pair
  <2>4. Asked \subseteq Pair /\ Friends \subseteq Pair
        /\ Asked' \subseteq Pair /\ Friends' \subseteq Pair
    BY DEF Asked, Friends
  <2>5. /\ <<me, f>> \in Asked <=> stored[me][f].status \in {"UnAuthorized", "Authorized"}
        /\ <<f, me>> \in Asked <=> stored[f][me].status \in {"UnAuthorized", "Authorized"}
        /\ <<me, f>> \in Friends <=> stored[me][f].status = "Authorized"
        /\ <<f, me>> \in Friends <=> stored[f][me].status = "Authorized"
    BY <2>3 DEF Asked, Friends
  <2>6. /\ <<me, f>> \in Asked' <=> stored'[me][f].status \in {"UnAuthorized", "Authorized"}
        /\ <<f, me>> \in Asked' <=> stored'[f][me].status \in {"UnAuthorized", "Authorized"}
        /\ <<me, f>> \in Friends' <=> stored'[me][f].status = "Authorized"
        /\ <<f, me>> \in Friends' <=> stored'[f][me].status = "Authorized"
    BY <2>3 DEF Asked, Friends
  <2> HIDE DEF Asked, Friends
  <2>7. CASE RequestedStatus(me, f)
    <3>1. /\ <<me, f>> \in Asked'
          /\ <<f, me>> \in Asked' <=> <<f, me>> \in Asked
          /\ <<me, f>> \in Friends' <=> <<f, me>> \in Asked
          /\ <<f, me>> \in Friends' <=> <<f, me>> \in Asked
          /\ <<me, f>> \in Friends => <<f, me>> \in Asked
          /\ <<f, me>> \in Friends => <<f, me>> \in Asked
      BY <2>1, <2>5, <2>6, <2>7 DEF RequestedStatus, SelfStatus, FriendStatus,
         Counterpart, Status
    <3>2. Asked' = Asked \cup {<<me, f>>}
      BY <2>2, <2>3, <2>4, <3>1
    <3>3. Friends' = IF <<f, me>> \in Asked THEN Friends \cup {<<me, f>>, <<f, me>>}
                     ELSE Friends
      BY <2>2, <2>3, <2>4, <3>1
    <3> QED BY <3>2, <3>3 DEF Abstract!Ask
  <2>8. CASE EndedStatus(me, f)
    <3>1. /\ <<me, f>> \notin Asked' /\ <<f, me>> \notin Asked'
          /\ <<me, f>> \notin Friends' /\ <<f, me>> \notin Friends'
      BY <2>6, <2>8 DEF EndedStatus
    <3>2. /\ Asked' = Asked \ {<<me, f>>, <<f, me>>}
          /\ Friends' = Friends \ {<<me, f>>, <<f, me>>}
      BY <2>2, <2>4, <3>1
    <3> QED BY <3>2 DEF Abstract!End
  <2> QED BY <1>2, <2>7, <2>8
<1>3. CASE \E me, f \in Login : me # f /\ (RequestedStatus(me, f) \/ EndedStatus(me, f))
  <2>1. PICK me \in Login, f \in Login :
          me # f /\ (RequestedStatus(me, f) \/ EndedStatus(me, f))
    BY <1>3
  <2> QED BY <1>2, <2>1 DEF Abstract!Next
<1> QED BY <1>1, <1>3 DEF StatusStep

\* When every account is used from one device, the stored lists behave as Friendship:
\* whatever crosses, repeats, fails or is lost, two users become friends with the second
\* request and stop with the first removal, in both lists at once.
THEOREM Implements == ASSUME SingleDevice PROVE Spec => ImplementsFriendship
<1>1. Init => Abstract!Init
  <2>1. Init => \A p \in Pair : stored[p[1]][p[2]] = NoEntry
    BY PairOf DEF Init, NoFriends, Friend
  <2> QED BY <2>1 DEF Abstract!Init, Asked, Friends, NoEntry
<1>2. /\ FriendsAssumption /\ TypeOK /\ Connected /\ SessionInv /\ OnlineRegistered
      /\ FriendshipMutual /\ [Next]_vars
      => [Abstract!Next]_<<Asked, Friends>>
  BY NextStatus, StepImplements
<1>3. Spec => []FriendshipMutual
  BY Mutual
<1> QED BY <1>1, <1>2, <1>3, AlwaysSession, TypeCorrect, AlwaysConnected, FriendsAssumption,
           PTL DEF Spec, ImplementsFriendship, Abstract!Spec, Abstract!vars

-----------------------------------------------------------------------------
(* The keys of a friend while he stays in a list *)

\* No key an entry has is replaced, as long as the friend stays in the list.
Kept(e, new) ==
    new.status # "Absent" =>
        /\ e.publicKey => new.publicKey
        /\ e.encryptedKey # 0 => new.encryptedKey = e.encryptedKey
        /\ e.offlineKey # 0 => new.offlineKey = e.offlineKey

\* A key of our own is new to an entry only as the one of the request that is handled.
NewKey(d, l, e, new) ==
    \/ new.encryptedKey \in {0, e.encryptedKey}
    \/ /\ l = Owner[d] /\ Head(toServer[d]).type = "AddFriend"
       /\ new.encryptedKey = Head(toServer[d]).key

Changes(d, l, e, new) == Kept(e, new) /\ NewKey(d, l, e, new)

SameFields(a, b) ==
    /\ a.status = b.status /\ a.publicKey = b.publicKey
    /\ a.encryptedKey = b.encryptedKey /\ a.offlineKey = b.offlineKey

\* Only a friend of this host who is in the list has an offline key.
KeyedEntry(f, e) == e.offlineKey # 0 => f \in Login /\ e.status # "Absent"
KeyedList(list) == \A f \in Friend : KeyedEntry(f, list[f])

OfflineKeysListed ==
    /\ \A l \in Login : KeyedList(stored[l])
    /\ \A d \in Device : KeyedList(info[d])

LEMMA RequestedKept ==
    ASSUME NEW e \in Entry, NEW i \in Entry, SameFields(e, i), KeysOf(e),
           NEW f, KeyedEntry(f, e), NEW key \in Nat
    PROVE  Kept(e, RequestedBySelf(i, key)) /\ Kept(e, RequestedByFriend(i))
BY DEF Kept, SameFields, KeysOf, KeyedEntry, RequestedBySelf, RequestedByFriend,
       AcceptedBySelf, AcceptedByFriend, Entry, Status, NoEntry

LEMMA RequestedKeyed ==
    ASSUME NEW e \in Entry, NEW f, KeyedEntry(f, e), NEW key \in Nat
    PROVE  KeyedEntry(f, RequestedBySelf(e, key)) /\ KeyedEntry(f, RequestedByFriend(e))
BY DEF KeyedEntry, RequestedBySelf, RequestedByFriend, AcceptedBySelf, AcceptedByFriend,
       Entry, Status, NoEntry

LEMMA NoEntryKept ==
    /\ \A e : Kept(e, NoEntry)
    /\ \A f : KeyedEntry(f, NoEntry)
BY DEF Kept, KeyedEntry, NoEntry

LEMMA SameChanges == \A d, l, e, i : SameFields(e, i) => Changes(d, l, e, i)
BY DEF SameFields, Kept, NewKey, Changes

LEMMA NoEntryChanges == \A d, l, e : Changes(d, l, e, NoEntry)
BY DEF NoEntry, Kept, NewKey, Changes

LEMMA RequestedChanges ==
    ASSUME NEW e \in Entry, NEW i \in Entry, SameFields(e, i), KeysOf(e),
           NEW f, KeyedEntry(f, e), NEW d
    PROVE  /\ Head(toServer[d]).type = "AddFriend" /\ Head(toServer[d]).key \in Nat =>
                  Changes(d, Owner[d], e, RequestedBySelf(i, Head(toServer[d]).key))
           /\ \A l : Changes(d, l, e, RequestedByFriend(i))
<1>1. ASSUME Head(toServer[d]).type = "AddFriend", Head(toServer[d]).key \in Nat
      PROVE  Changes(d, Owner[d], e, RequestedBySelf(i, Head(toServer[d]).key))
  <2> DEFINE key == Head(toServer[d]).key
  <2>1. Kept(e, RequestedBySelf(i, key))
    BY <1>1, RequestedKept
  <2>2. RequestedBySelf(i, key).encryptedKey \in {0, e.encryptedKey, key}
    BY <1>1 DEF RequestedBySelf, AcceptedBySelf, SameFields, Entry, NoEntry
  <2> QED BY <1>1, <2>1, <2>2 DEF Changes, NewKey
<1>2. ASSUME NEW l PROVE Changes(d, l, e, RequestedByFriend(i))
  <2>1. Kept(e, RequestedByFriend(i))
    BY RequestedKept, 0 \in Nat
  <2>2. RequestedByFriend(i).encryptedKey \in {0, e.encryptedKey}
    BY DEF RequestedByFriend, AcceptedByFriend, SameFields, Entry, NoEntry
  <2> QED BY <2>1, <2>2 DEF Changes, NewKey
<1> QED BY <1>1, <1>2

LEMMA UpdatedKeyed ==
    ASSUME NEW list \in FriendList, KeyedList(list), NEW f \in Friend, NEW e,
           KeyedEntry(f, e)
    PROVE  KeyedList([list EXCEPT ![f] = e])
BY DEF KeyedList, FriendList

\* The lists a handler stores: only listed friends of this host have offline keys; the
\* registered device of the account replaces no key and adds only that of the request; and a request for a friend always
\* stores the list of the one who asks.
Stores(d, own, S, lists) ==
    /\ S \in SUBSET Login /\ lists \in [S -> FriendList]
    /\ SyncClientInfo(own, lists)
    /\ \A l \in S : KeyedList(lists[l])
    /\ byLogin[Owner[d]] = d => \A l \in S, g \in Login : Changes(d, l, stored[l][g], lists[l][g])
    /\ Head(toServer[d]).type = "AddFriend" => Owner[d] \in S

\* One list of the owner, with one entry replaced.
LEMMA StoresOwn ==
    ASSUME TypeOK, FriendsAssumption, SessionInv, OfflineKeysListed, NEW d \in Device,
           NEW f \in Friend, NEW e \in Entry, KeyedEntry(f, e),
           f \in Login /\ byLogin[Owner[d]] = d => Changes(d, Owner[d], stored[Owner[d]][f], e),
           SyncClientInfo(d, [l \in {Owner[d]} |-> [info[d] EXCEPT ![f] = e]])
    PROVE  \E own, S, lists : Stores(d, own, S, lists)
<1> DEFINE me == Owner[d]
           list == [info[d] EXCEPT ![f] = e]
           lists == [l \in {me} |-> list]
<1>1. me \in Login /\ info[d] \in FriendList
  BY DEF FriendsAssumption, TypeOK
<1>2. list \in FriendList /\ KeyedList(list)
  BY <1>1, UpdatedListType, UpdatedKeyed DEF OfflineKeysListed
<1>3. ASSUME byLogin[me] = d, NEW g \in Login PROVE Changes(d, me, stored[me][g], list[g])
  <2>1. g \in Friend /\ info[d][g] \in Entry /\ stored[me][g] = Plain(info[d][g])
    BY <1>1, <1>3 DEF Friend, FriendList, SessionInv, SessionInfoCurrent, Plain
  <2>2. SameFields(stored[me][g], info[d][g])
    BY <2>1, PlainFields DEF SameFields
  <2>3. CASE g = f
    <3>1. list[g] = e
      BY <1>1, <2>3 DEF FriendList
    <3> QED BY <1>3, <2>3, <3>1
  <2>4. CASE g # f
    <3>1. list[g] = info[d][g]
      BY <2>4
    <3> QED BY <2>2, <3>1, SameChanges
  <2> QED BY <2>3, <2>4
<1>4. SyncClientInfo(d, lists)
  OBVIOUS
<1>5. {me} \in SUBSET Login /\ lists \in [{me} -> FriendList]
      /\ (\A l \in {me} : lists[l] = list)
  BY <1>1, <1>2
<1> HIDE DEF list, lists
<1>6. Stores(d, d, {me}, lists)
  BY <1>2, <1>3, <1>4, <1>5 DEF Stores
<1> QED BY <1>6

\* The lists of both sides of a friendship, with one entry of each replaced.
LEMMA StoresBoth ==
    ASSUME TypeOK, FriendsAssumption, SessionInv, OfflineKeysListed, NEW d \in Device,
           NEW f \in Login, f # Owner[d], NEW e \in Entry, NEW t \in Entry,
           KeyedEntry(f, e), KeyedEntry(Owner[d], t),
           byLogin[Owner[d]] = d => Changes(d, Owner[d], stored[Owner[d]][f], e),
           Changes(d, f, stored[f][Owner[d]], t),
           SyncClientInfo(d, [l \in {Owner[d], f} |->
               IF l = Owner[d] THEN [info[d] EXCEPT ![f] = e]
               ELSE [stored[f] EXCEPT ![Owner[d]] = t]])
    PROVE  \E own, S, lists : Stores(d, own, S, lists)
<1> DEFINE me == Owner[d]
           mine == [info[d] EXCEPT ![f] = e]
           theirs == [stored[f] EXCEPT ![me] = t]
           S == {me, f}
           lists == [l \in S |-> IF l = me THEN mine ELSE theirs]
<1>1. /\ me \in Login /\ info[d] \in FriendList /\ stored[f] \in FriendList
      /\ \A g \in Login : g \in Friend
  BY DEF FriendsAssumption, TypeOK, Friend
<1>2. /\ mine \in FriendList /\ KeyedList(mine)
      /\ theirs \in FriendList /\ KeyedList(theirs)
  BY <1>1, UpdatedListType, UpdatedKeyed DEF OfflineKeysListed
<1>3. ASSUME byLogin[me] = d, NEW g \in Login PROVE Changes(d, me, stored[me][g], mine[g])
  <2>1. g \in Friend /\ info[d][g] \in Entry /\ stored[me][g] = Plain(info[d][g])
    BY <1>1, <1>3 DEF FriendList, SessionInv, SessionInfoCurrent, Plain
  <2>2. SameFields(stored[me][g], info[d][g])
    BY <2>1, PlainFields DEF SameFields
  <2>3. CASE g = f
    <3>1. mine[g] = e
      BY <1>1, <2>3 DEF FriendList
    <3> QED BY <1>3, <2>3, <3>1
  <2>4. CASE g # f
    <3>1. mine[g] = info[d][g]
      BY <2>4
    <3> QED BY <2>2, <3>1, SameChanges
  <2> QED BY <2>3, <2>4
<1>4. ASSUME NEW g \in Login PROVE Changes(d, f, stored[f][g], theirs[g])
  <2>1. CASE g = me
    <3>1. theirs[g] = t
      BY <1>1, <2>1 DEF FriendList
    <3> QED BY <2>1, <3>1
  <2>2. CASE g # me
    <3>1. theirs[g] = stored[f][g]
      BY <2>2
    <3> QED BY <3>1, SameChanges DEF SameFields
  <2> QED BY <2>1, <2>2
<1>5. SyncClientInfo(d, lists)
  OBVIOUS
<1>6. /\ S \in SUBSET Login /\ lists \in [S -> FriendList] /\ me \in S
      /\ \A l \in S : (l = me /\ lists[l] = mine) \/ (l = f /\ lists[l] = theirs)
  BY <1>1, <1>2
<1> HIDE DEF mine, theirs, S, lists
<1>7. Stores(d, d, S, lists)
  BY <1>2, <1>3, <1>4, <1>5, <1>6 DEF Stores
<1> QED BY <1>7

LEMMA HandlerStores ==
    ASSUME TypeOK, FriendsAssumption, KeysPresent, SessionInv, OfflineKeysListed,
           NEW d \in Device, HandleRequest(d)
    PROVE  \/ \E own, S, lists : Stores(d, own, S, lists)
           \/ /\ UNCHANGED <<stored, toClient>>
              /\ \A x \in Device : KeyedList(info'[x])
              /\ Head(toServer[d]).type # "AddFriend"
<1> DEFINE r == Head(toServer[d])
           me == Owner[d]
<1>1. toServer[d] # <<>> /\ r \in Request
  BY HeadRequest DEF HandleRequest, HandleAddLocal, HandleAddFailed, HandleAddRemote,
     HandleRemoveLocal, HandleRemoveRemote, HandleRemoveFailed,
     HandleSetFriendOfflineKey, NextRequest
<1>2. me \in Login /\ me \in Friend
  BY DEF FriendsAssumption, Friend
<1>3. info[d] \in FriendList /\ registered \subseteq Login /\ KeyedList(info[d])
  BY DEF TypeOK, OfflineKeysListed
<1>4. \A l \in Login : stored[l] \in FriendList /\ KeyedList(stored[l]) /\ KeysOfList(stored[l])
  BY KeysPresentByList DEF TypeOK, OfflineKeysListed
<1>5. ASSUME byLogin[me] = d, NEW f \in Login
      PROVE  SameFields(stored[me][f], info[d][f])
  <2>1. info[d][f] \in Entry /\ stored[me][f] = Plain(info[d][f])
    BY <1>3, <1>5 DEF Friend, FriendList, SessionInv, SessionInfoCurrent, Plain
  <2> QED BY <2>1, PlainFields DEF SameFields
<1>6. \A l \in Login, f \in Friend : /\ stored[l][f] \in Entry /\ KeysOf(stored[l][f])
                                     /\ KeyedEntry(f, stored[l][f])
  BY <1>4 DEF FriendList, KeysOfList, KeyedList
<1>7. \A f \in Friend : info[d][f] \in Entry /\ KeyedEntry(f, info[d][f])
  BY <1>3 DEF FriendList, KeyedList
<1>8. ASSUME NEW f \in Friend, r.type = "AddFriend", r.key \in Nat, f \in Login,
             byLogin[me] = d
      PROVE  Changes(d, me, stored[me][f], RequestedBySelf(info[d][f], r.key))
  BY <1>2, <1>5, <1>6, <1>7, <1>8, RequestedChanges
<1>9. CASE HandleAddLocal(d)
  <2> DEFINE e == RequestedBySelf(info[d][r.friend], r.key)
             t == RequestedByFriend(stored[r.friend][me])
  <2>1. /\ r.friend \in Friend /\ r.key \in Nat /\ r.friend \in Login /\ r.friend # me
        /\ r.type = "AddFriend"
    BY <1>1, <1>3, <1>9, RequestFields DEF HandleAddLocal, NextRequest
  <2>2. e \in Entry /\ KeyedEntry(r.friend, e)
    BY <1>7, <2>1, RequestedType, RequestedKeyed
  <2>3. t \in Entry /\ KeyedEntry(me, t)
    BY <1>2, <1>6, <2>1, RequestedType, RequestedKeyed
  <2>4. Changes(d, r.friend, stored[r.friend][me], t)
    BY <1>2, <1>6, <2>1, RequestedChanges DEF SameFields
  <2>5. byLogin[me] = d => Changes(d, me, stored[me][r.friend], e)
    BY <1>8, <2>1
  <2>6. SyncClientInfo(d, [l \in {me, r.friend} |->
            IF l = me THEN [info[d] EXCEPT ![r.friend] = e]
            ELSE [stored[r.friend] EXCEPT ![me] = t]])
    BY <1>9 DEF HandleAddLocal
  <2> HIDE DEF e, t
  <2> QED BY <2>1, <2>2, <2>3, <2>4, <2>5, <2>6, StoresBoth
<1>10. CASE HandleAddFailed(d) \/ HandleRemoveRemote(d)
  <2>1. r.friend \in Friend
    BY <1>1, <1>10, RequestFields DEF HandleAddFailed, HandleRemoveRemote, NextRequest
  <2>2. SyncClientInfo(d, [l \in {me} |-> [info[d] EXCEPT ![r.friend] = NoEntry]])
    BY <1>10 DEF HandleAddFailed, HandleRemoveRemote
  <2> QED BY <2>1, <2>2, NoEntryType, NoEntryKept, NoEntryChanges, StoresOwn
<1>11. CASE HandleAddRemote(d)
  <2> DEFINE e == RequestedBySelf(info[d][r.friend], r.key)
  <2>1. r.friend \in Friend /\ r.key \in Nat /\ r.type = "AddFriend"
    BY <1>1, <1>11, RequestFields DEF HandleAddRemote, NextRequest
  <2>2. e \in Entry /\ KeyedEntry(r.friend, e)
    BY <1>7, <2>1, RequestedType, RequestedKeyed
  <2>3. r.friend \in Login /\ byLogin[me] = d => Changes(d, me, stored[me][r.friend], e)
    BY <1>8, <2>1
  <2>4. SyncClientInfo(d, [l \in {me} |-> [info[d] EXCEPT ![r.friend] = e]])
    BY <1>11 DEF HandleAddRemote
  <2> HIDE DEF e
  <2> QED BY <2>1, <2>2, <2>3, <2>4, StoresOwn
<1>12. CASE HandleRemoveLocal(d)
  <2>1. r.friend \in Friend /\ r.friend \in Login /\ r.friend # me
    BY <1>1, <1>3, <1>12, RequestFields DEF HandleRemoveLocal, NextRequest
  <2>2. SyncClientInfo(d, [l \in {me, r.friend} |->
            IF l = me THEN [info[d] EXCEPT ![r.friend] = NoEntry]
            ELSE [stored[r.friend] EXCEPT ![me] = NoEntry]])
    BY <1>12 DEF HandleRemoveLocal, RemovedByFriend
  <2> QED BY <2>1, <2>2, NoEntryType, NoEntryKept, NoEntryChanges, StoresBoth
<1>13. CASE HandleRemoveFailed(d)
  <2>1. r.friend \in Friend /\ r.type # "AddFriend"
    BY <1>1, <1>13, RequestFields DEF HandleRemoveFailed, NextRequest
  <2>2. info' = [info EXCEPT ![d] = [info[d] EXCEPT ![r.friend] = NoEntry]]
    BY <1>13 DEF HandleRemoveFailed
  <2>3. KeyedList([info[d] EXCEPT ![r.friend] = NoEntry])
    BY <1>3, <2>1, NoEntryKept, UpdatedKeyed
  <2>4. \A x \in Device : KeyedList(info'[x])
    BY <2>2, <2>3 DEF TypeOK, OfflineKeysListed
  <2> QED BY <1>13, <2>1, <2>4 DEF HandleRemoveFailed
<1>14. ASSUME NEW f \in Friend, HandleSetFriendOfflineKey(d, f)
       PROVE  \/ \E own, S, lists : Stores(d, own, S, lists)
              \/ /\ UNCHANGED <<stored, toClient>>
                 /\ \A x \in Device : KeyedList(info'[x])
                 /\ Head(toServer[d]).type # "AddFriend"
  <2> DEFINE e == [stored[f][me] EXCEPT !.offlineKey = r.keys[f]]
             list == [stored[f] EXCEPT ![me] = e]
             lists == [l \in {f} |-> list]
  <2>1. r.keys \in [Friend -> Nat] /\ r.type # "AddFriend"
    BY <1>1, <1>14, RequestFields DEF HandleSetFriendOfflineKey, NextRequest
  <2>2. CASE KeyAccepted(me, info[d], f)
    <3>1. f \in Login /\ stored[f][me].offlineKey = 0 /\ stored[f][me].status # "Absent"
      BY <1>3, <2>2 DEF KeyAccepted
    <3>2. stored[f] \in FriendList /\ stored[f][me] \in Entry /\ r.keys[f] \in Nat
      BY <1>2, <1>4, <2>1, <3>1 DEF FriendList
    <3>3. e \in Entry /\ KeyedEntry(me, e) /\ Changes(d, f, stored[f][me], e)
      BY <1>2, <3>1, <3>2 DEF Entry, KeyedEntry, Kept, NewKey, Changes
    <3>4. SyncClientInfo(NoDevice, lists)
      BY <1>14, <2>2 DEF HandleSetFriendOfflineKey
    <3> HIDE DEF e
    <3>5. list \in FriendList /\ KeyedList(list)
      BY <1>2, <1>4, <3>1, <3>3, UpdatedListType, UpdatedKeyed
    <3>6. ASSUME NEW g \in Login PROVE Changes(d, f, stored[f][g], list[g])
      <4>1. CASE g = me
        BY <1>2, <3>2, <3>3, <4>1 DEF FriendList
      <4>2. CASE g # me
        <5>1. list[g] = stored[f][g]
          BY <4>2
        <5> QED BY <5>1, SameChanges DEF SameFields
      <4> QED BY <4>1, <4>2
    <3>7. {f} \in SUBSET Login /\ lists \in [{f} -> FriendList]
          /\ \A l \in {f} : l = f /\ lists[l] = list
      BY <3>1, <3>5
    <3> HIDE DEF list, lists
    <3>8. Stores(d, NoDevice, {f}, lists)
      BY <2>1, <3>4, <3>5, <3>6, <3>7 DEF Stores
    <3> QED BY <3>8
  <2>3. CASE ~KeyAccepted(me, info[d], f)
    BY <1>14, <2>1, <2>3 DEF HandleSetFriendOfflineKey, serverVars, OfflineKeysListed
  <2> QED BY <2>2, <2>3
<1> QED BY <1>9, <1>10, <1>11, <1>12, <1>13, <1>14 DEF HandleRequest

\* What a handler stores, on the lists of the storage and of the sessions.
LEMMA StoresKeyed ==
    ASSUME TypeOK, OfflineKeysListed, NEW d, NEW own, NEW S, NEW lists,
           Stores(d, own, S, lists)
    PROVE  OfflineKeysListed'
<1>1. /\ S \in SUBSET Login /\ lists \in [S -> FriendList] /\ SyncClientInfo(own, lists)
      /\ \A l \in S : KeyedList(lists[l])
  BY DEF Stores
<1>2. ASSUME NEW l \in Login PROVE KeyedList(stored'[l])
  <2>1. CASE l \in S
    <3>1. \A f \in Friend : lists[l][f] \in Entry /\ stored'[l][f] = Plain(lists[l][f])
      BY <1>1, <2>1, SyncEntries DEF FriendList
    <3>2. \A f \in Friend : /\ stored'[l][f].offlineKey = lists[l][f].offlineKey
                            /\ stored'[l][f].status = lists[l][f].status
      BY <3>1, PlainFields
    <3> QED BY <1>1, <2>1, <3>2 DEF KeyedList, KeyedEntry
  <2>2. CASE l \notin S
    <3>1. stored'[l] = stored[l]
      BY <1>1, <2>2, SyncEntries
    <3> QED BY <3>1 DEF OfflineKeysListed
  <2> QED BY <2>1, <2>2
<1>3. ASSUME NEW x \in Device PROVE KeyedList(info'[x])
  <2>1. info'[x] = info[x] \/ (Owner[x] \in S /\ info'[x] = lists[Owner[x]])
    BY <1>1, SyncEntries
  <2> QED BY <1>1, <2>1 DEF OfflineKeysListed
<1> QED BY <1>2, <1>3 DEF OfflineKeysListed

LEMMA NoFriendsKeyed == KeyedList(NoFriends)
BY NoEntryKept DEF KeyedList, NoFriends

LEMMA NextKeyed ==
    /\ FriendsAssumption /\ TypeOK /\ KeysPresent /\ SessionInv /\ OfflineKeysListed
    /\ [Next]_vars
    => OfflineKeysListed'
<1> SUFFICES ASSUME FriendsAssumption, TypeOK, KeysPresent, SessionInv, OfflineKeysListed,
                    [Next]_vars
             PROVE  OfflineKeysListed'
  OBVIOUS
<1>1. ASSUME UNCHANGED <<stored, info>> PROVE OfflineKeysListed'
  BY <1>1 DEF OfflineKeysListed
<1>2. ASSUME NEW d \in Device, Authorize(d) PROVE OfflineKeysListed'
  BY <1>2 DEF Authorize, OfflineKeysListed, TypeOK, FriendsAssumption
<1>3. ASSUME NEW d \in Device, DropConnection(d) PROVE OfflineKeysListed'
  BY <1>3, NoFriendsKeyed DEF DropConnection, OfflineKeysListed, TypeOK
<1>4. ASSUME NEW d \in Device, HandleRequest(d) PROVE OfflineKeysListed'
  <2>1. CASE \E own, S, lists : Stores(d, own, S, lists)
    BY <2>1, StoresKeyed
  <2>2. CASE UNCHANGED stored /\ \A x \in Device : KeyedList(info'[x])
    BY <2>2 DEF OfflineKeysListed
  <2> QED BY <1>4, <2>1, <2>2, HandlerStores
<1>5. ASSUME NEW d \in Device, Disconnect(d) \/ DieOfMismatch(d) PROVE OfflineKeysListed'
  BY <1>3, <1>5 DEF Disconnect, DieOfMismatch
<1>6. UNCHANGED <<stored, info>> \/ \E d \in Device :
          Authorize(d) \/ Disconnect(d) \/ DieOfMismatch(d) \/ HandleRequest(d)
  BY DEF Next, vars, Register, Restart, AddFriend, RemoveFriend, ReceiveSyncInfo, serverVars
<1> QED BY <1>1, <1>2, <1>4, <1>5, <1>6

LEMMA AlwaysKeyed == Spec => [](SessionInv /\ OfflineKeysListed)
<1>1. Init => SessionInv
  BY SessionInit
<1>2. Init => OfflineKeysListed
  BY NoFriendsKeyed DEF Init, OfflineKeysListed
<1> QED BY <1>1, <1>2, NextSession, NextKeyed, TypeCorrect, KeysAlwaysPresent,
           AlwaysConnected, FriendsAssumption, PTL DEF Spec

\* A handler changes the keys of a friend of this host only so.
LEMMA HandlerChanges ==
    ASSUME FriendsAssumption, TypeOK, KeysPresent, Connected, SessionInv, OnlineRegistered,
           OfflineKeysListed, NEW d \in Device, HandleRequest(d)
    PROVE  \A l, f \in Login : Changes(d, l, stored[l][f], stored'[l][f])
<1>1. byLogin[Owner[d]] = d
  BY DEF HandleRequest, HandleAddLocal, HandleAddFailed, HandleAddRemote,
     HandleRemoveLocal, HandleRemoveRemote, HandleRemoveFailed,
     HandleSetFriendOfflineKey, NextRequest, Connected, OnlineRegistered
<1>2. ASSUME NEW own, NEW S, NEW lists, Stores(d, own, S, lists),
             NEW l \in Login, NEW f \in Login
      PROVE  Changes(d, l, stored[l][f], stored'[l][f])
  <2>1. /\ S \in SUBSET Login /\ lists \in [S -> FriendList] /\ SyncClientInfo(own, lists)
        /\ l \in S => Changes(d, l, stored[l][f], lists[l][f])
    BY <1>1, <1>2 DEF Stores
  <2>2. CASE l \in S
    <3>0. f \in Friend /\ StoredAre(S, lists)
      BY <2>1, SyncStored DEF Friend
    <3>1. lists[l][f] \in Entry /\ stored'[l][f] = Plain(lists[l][f])
      BY <2>1, <2>2, <3>0 DEF FriendList, StoredAre
    <3>2. SameFields(lists[l][f], stored'[l][f])
      BY <3>1, PlainFields DEF SameFields
    <3> QED BY <2>1, <2>2, <3>2 DEF SameFields, Kept, NewKey, Changes
  <2>3. CASE l \notin S
    <3>1. stored'[l] = stored[l]
      BY <2>1, <2>3, SyncEntries
    <3> QED BY <3>1, SameChanges DEF SameFields
  <2> QED BY <2>2, <2>3
<1>3. CASE UNCHANGED stored
  BY <1>3, SameChanges DEF SameFields
<1> QED BY <1>2, <1>3, HandlerStores

\* A step keeps the keys of every friend of this host who stays in a list.
LEMMA NextKept ==
    ASSUME FriendsAssumption, TypeOK, KeysPresent, Connected, SessionInv, OnlineRegistered,
           OfflineKeysListed, [Next]_vars
    PROVE  \A l, f \in Login : Kept(stored[l][f], stored'[l][f])
<1>1. CASE UNCHANGED stored
  BY <1>1 DEF Kept
<1>2. ASSUME NEW d \in Device, HandleRequest(d)
      PROVE  \A l, f \in Login : Kept(stored[l][f], stored'[l][f])
  BY <1>2, HandlerChanges DEF Changes
<1>3. UNCHANGED stored \/ \E d \in Device : HandleRequest(d)
  BY DEF Next, vars, Register, Authorize, Disconnect, Restart, AddFriend,
     RemoveFriend, ReceiveSyncInfo, DieOfMismatch, DropConnection, serverVars
<1> QED BY <1>1, <1>2, <1>3

\* When every account is used from one device, the key that protects the offline messages
\* of a friend is, once stored, neither replaced nor lost while the friend stays in the
\* list, whatever requests cross or repeat and however connections break: a handler only
\* ever stores a session's current copy, and a second key for the friend is refused.
THEOREM OfflineKeyKept == ASSUME SingleDevice PROVE Spec => OfflineKeyStable
<1>1. /\ FriendsAssumption /\ TypeOK /\ KeysPresent /\ Connected /\ SessionInv
      /\ OnlineRegistered /\ OfflineKeysListed /\ [Next]_vars
      => [\A l \in Login, f \in Friend :
             stored[l][f].offlineKey # 0 /\ stored'[l][f].status # "Absent" =>
                 stored'[l][f].offlineKey = stored[l][f].offlineKey]_vars
  <2> SUFFICES ASSUME FriendsAssumption, TypeOK, KeysPresent, Connected, SessionInv,
                      OnlineRegistered, OfflineKeysListed, [Next]_vars,
                      NEW l \in Login, NEW f \in Friend,
                      stored[l][f].offlineKey # 0, stored'[l][f].status # "Absent"
               PROVE  stored'[l][f].offlineKey = stored[l][f].offlineKey
    OBVIOUS
  <2>1. f \in Login
    BY DEF OfflineKeysListed, KeyedList, KeyedEntry
  <2> QED BY <2>1, NextKept DEF Kept
<1> QED BY <1>1, AlwaysKeyed, AlwaysSession, TypeCorrect, KeysAlwaysPresent,
           AlwaysConnected, FriendsAssumption, PTL DEF Spec, OfflineKeyStable

-----------------------------------------------------------------------------
(* The keys of a friendship and of the one after it *)

Registered(d) == byLogin[Owner[d]] = d

LEMMA PlainSame ==
    ASSUME NEW e \in Entry
    PROVE  SameFields(Plain(e), e) /\ SameFields(e, Plain(e))
BY PlainFields DEF SameFields

\* A handler that stores lists sends each to the registered device of the account.
LEMMA StoresPackets ==
    ASSUME TypeOK, FriendsAssumption, NEW d, NEW own, NEW S, NEW lists,
           Stores(d, own, S, lists), NEW x \in Device
    PROVE  /\ Owner[x] \notin S => stored'[Owner[x]] = stored[Owner[x]]
           /\ Owner[x] \notin S \/ ~Registered(x) => toClient'[x] = toClient[x]
           /\ Owner[x] \in S /\ Registered(x) =>
                  \E p \in FriendList :
                      /\ toClient'[x] = Append(toClient[x], p)
                      /\ \A f \in Login : SameFields(stored'[Owner[x]][f], p[f])
<1>1. /\ S \in SUBSET Login /\ lists \in [S -> FriendList] /\ SyncClientInfo(own, lists)
  BY DEF Stores
<1>2. StoredAre(S, lists) /\ Owner[x] \in Login
  BY <1>1, SyncStored DEF FriendsAssumption
<1>3. Owner[x] \notin S => stored'[Owner[x]] = stored[Owner[x]]
  BY <1>2 DEF StoredAre
<1>4. Notified(x, lists) <=> Owner[x] \in S /\ Registered(x)
  BY <1>1 DEF Notified, Registered
<1>5. toClient'[x] = IF Notified(x, lists) THEN Append(toClient[x], lists[Owner[x]])
                     ELSE toClient[x]
  BY <1>1 DEF SyncClientInfo
<1>6. ASSUME Owner[x] \in S, NEW f \in Login
      PROVE  SameFields(stored'[Owner[x]][f], lists[Owner[x]][f])
  <2>1. lists[Owner[x]] \in FriendList /\ f \in Friend
    BY <1>1, <1>6 DEF Friend
  <2>2. lists[Owner[x]][f] \in Entry
    BY <2>1 DEF FriendList
  <2>3. stored'[Owner[x]][f] = Plain(lists[Owner[x]][f])
    BY <1>2, <1>6, <2>1 DEF StoredAre
  <2> QED BY <2>2, <2>3, PlainSame
<1>7. ASSUME Owner[x] \in S, Registered(x)
      PROVE  \E p \in FriendList :
                 /\ toClient'[x] = Append(toClient[x], p)
                 /\ \A f \in Login : SameFields(stored'[Owner[x]][f], p[f])
  <2>1. lists[Owner[x]] \in FriendList
    BY <1>1, <1>7
  <2>2. toClient'[x] = Append(toClient[x], lists[Owner[x]])
    BY <1>4, <1>5, <1>7
  <2> QED BY <1>6, <1>7, <2>1, <2>2
<1> QED BY <1>3, <1>4, <1>5, <1>7

LEMMA HandlerOthers ==
    ASSUME TypeOK, NEW d \in Device, HandleRequest(d)
    PROVE  /\ UNCHANGED <<roster, online, stale, keys, byLogin>>
           /\ \A x \in Device : x # d => toServer'[x] = toServer[x]
<1>1. UNCHANGED <<roster, online, stale, keys, byLogin>>
  BY DEF HandleRequest, HandleAddLocal, HandleAddFailed, HandleAddRemote,
     HandleRemoveLocal, HandleRemoveRemote, HandleRemoveFailed,
     HandleSetFriendOfflineKey, OnlyServerSteps, SyncClientInfo, serverVars, clientVars
<1>2. \A x \in Device : x # d => toServer'[x] = toServer[x]
  BY DEF HandleRequest, HandleAddLocal, HandleAddFailed, HandleAddRemote,
     HandleRemoveLocal, HandleRemoveRemote, HandleRemoveFailed,
     HandleSetFriendOfflineKey, PopRequest, TypeOK
<1> QED BY <1>1, <1>2

Asks(r) == r.type = "AddFriend"

\* The keys of the requests in q: the later, the newer; newer than k; generated so far.
Increasing(q) ==
    \A i, j \in 1..Len(q) : i < j /\ Asks(q[i]) /\ Asks(q[j]) => q[i].key < q[j].key
Above(k, q) == \A i \in 1..Len(q) : Asks(q[i]) => k < q[i].key
UpTo(n, q) == \A i \in 1..Len(q) : Asks(q[i]) => q[i].key <= n

\* Our own keys for f that device, storage and packets know.
KnownKeys(d, f) ==
    {roster[d][f].selfKey, stored[Owner[d]][f].encryptedKey}
        \cup {toClient[d][i][f].encryptedKey : i \in 1..Len(toClient[d])}

\* A key is not used again: that of a request has not been seen before it is handled.
Newer(d) ==
    /\ UpTo(keys, toServer[d]) /\ Increasing(toServer[d])
    /\ \A f \in Login : \A k \in KnownKeys(d, f) : k <= keys /\ Above(k, toServer[d])

\* Where our own key is the same, so is the friend's, if it was known.
Paired(self, friend, e) ==
    self # 0 /\ friend # 0 /\ e.encryptedKey = self => e.offlineKey = friend

Pairs(d, f) ==
    LET r == roster[d][f]
        s == stored[Owner[d]][f]
        q == toClient[d]
    IN  /\ r.friendKey # 0 => r.selfKey # 0
        /\ Paired(r.selfKey, r.friendKey, s)
        /\ \A i \in 1..Len(q) :
             /\ Paired(r.selfKey, r.friendKey, q[i][f])
             /\ Paired(q[i][f].encryptedKey, q[i][f].offlineKey, s)
             /\ \A j \in 1..Len(q) :
                  i < j => Paired(q[i][f].encryptedKey, q[i][f].offlineKey, q[j][f])

KeyInv == \A d \in Device : Newer(d) /\ \A f \in Login : Pairs(d, f)

LEMMA TailQueue ==
    ASSUME NEW q \in Seq(Request), q # <<>>, NEW n \in Nat, UpTo(n, q), Increasing(q)
    PROVE  /\ UpTo(n, Tail(q)) /\ Increasing(Tail(q))
           /\ \A k : Above(k, q) => Above(k, Tail(q))
           /\ Asks(Head(q)) => Head(q).key <= n /\ Above(Head(q).key, Tail(q))
<1> DEFINE t == Tail(q)
<1>1. /\ Len(q) \in Nat \ {0} /\ Len(t) = Len(q) - 1 /\ Head(q) = q[1]
      /\ \A i \in 1..Len(t) : t[i] = q[i + 1] /\ i + 1 \in 1..Len(q)
      /\ 1 \in 1..Len(q)
  <2>1. Len(q) \in Nat /\ Len(q) # 0
    BY EmptySeq
  <2>2. /\ Len(t) = Len(q) - 1 /\ Head(q) = q[1]
        /\ \A i \in 1..Len(t) : t[i] = q[i + 1]
    BY <2>1, HeadTailProperties
  <2> HIDE DEF t
  <2> QED BY <2>1, <2>2
<1> HIDE DEF t
<1>2. UpTo(n, t)
  BY <1>1 DEF UpTo
<1>3. Increasing(t)
  <2> SUFFICES ASSUME NEW i \in 1..Len(t), NEW j \in 1..Len(t), i < j,
                      Asks(t[i]), Asks(t[j])
               PROVE  t[i].key < t[j].key
    BY DEF Increasing
  <2>1. i + 1 < j + 1
    OBVIOUS
  <2> QED BY <1>1, <2>1 DEF Increasing
<1>4. ASSUME NEW k, Above(k, q) PROVE Above(k, t)
  BY <1>1, <1>4 DEF Above
<1>5. ASSUME Asks(Head(q)) PROVE Head(q).key <= n /\ Above(Head(q).key, t)
  <2>1. Head(q).key <= n
    BY <1>1, <1>5 DEF UpTo
  <2>2. ASSUME NEW i \in 1..Len(t), Asks(t[i]) PROVE Head(q).key < t[i].key
    <3>1. i + 1 \in 1..Len(q) /\ 1 < i + 1 /\ t[i] = q[i + 1]
      BY <1>1
    <3> QED BY <1>1, <1>5, <2>2, <3>1 DEF Increasing
  <2> QED BY <2>1, <2>2 DEF Above
<1> QED BY <1>2, <1>3, <1>4, <1>5 DEF t

LEMMA ReplacedQueue ==
    ASSUME NEW q \in Seq(Request), q # <<>>, NEW h \in Request, ~Asks(h),
           NEW n \in Nat, UpTo(n, q), Increasing(q)
    PROVE  /\ UpTo(n, <<h>> \o Tail(q)) /\ Increasing(<<h>> \o Tail(q))
           /\ \A k : Above(k, q) => Above(k, <<h>> \o Tail(q))
<1> DEFINE t == Tail(q)
           p == <<h>> \o t
<1>1. Len(q) \in Nat \ {0} /\ t \in Seq(Request) /\ Len(t) = Len(q) - 1
      /\ \A i \in 1..Len(t) : t[i] = q[i + 1]
  <2>1. Len(q) \in Nat /\ Len(q) # 0
    BY EmptySeq
  <2> QED BY <2>1, HeadTailProperties
<1> HIDE DEF t
<1>2. Len(p) = Len(q) /\ p[1] = h /\ \A i \in 2..Len(q) : p[i] = t[i - 1]
  <2>1. Len(<<h>>) = 1 /\ <<h>> \in Seq(Request)
    OBVIOUS
  <2> QED BY <1>1, <2>1
<1> HIDE DEF p
<1>3. \A i \in 1..Len(p) : Asks(p[i]) => i \in 1..Len(q) /\ p[i] = q[i]
  <2> SUFFICES ASSUME NEW i \in 1..Len(p), Asks(p[i]) PROVE i \in 1..Len(q) /\ p[i] = q[i]
    OBVIOUS
  <2>1. i # 1
    BY <1>2
  <2>2. i \in 2..Len(q) /\ i - 1 \in 1..Len(t) /\ (i - 1) + 1 = i
    BY <1>1, <1>2, <2>1
  <2> QED BY <1>1, <1>2, <2>2
<1> QED BY <1>3 DEF UpTo, Increasing, Above, p, t

LEMMA AppendQueue ==
    ASSUME NEW q \in Seq(Request), NEW r \in Request, NEW n \in Nat, NEW m \in Nat,
           n <= m, Asks(r) => n < m /\ r.key = m, UpTo(n, q), Increasing(q)
    PROVE  /\ UpTo(m, Append(q, r)) /\ Increasing(Append(q, r))
           /\ \A k \in Nat : k <= n /\ Above(k, q) => Above(k, Append(q, r))
<1> DEFINE p == Append(q, r)
<1>1. /\ Len(q) \in Nat /\ Len(p) = Len(q) + 1 /\ p[Len(q) + 1] = r
      /\ \A i \in 1..Len(q) : p[i] = q[i]
  BY AppendProperties
<1> HIDE DEF p
<1>2. \A i \in 1..Len(p) : (i \in 1..Len(q) /\ p[i] = q[i]) \/ (i = Len(q) + 1 /\ p[i] = r)
  BY <1>1
<1>3. \A i \in 1..Len(q) : Asks(q[i]) => q[i].key \in Nat
  BY DEF Asks, Request
<1>4. UpTo(m, p)
  BY <1>1, <1>2, <1>3 DEF UpTo
<1>5. Increasing(p)
  <2> SUFFICES ASSUME NEW i \in 1..Len(p), NEW j \in 1..Len(p), i < j,
                      Asks(p[i]), Asks(p[j])
               PROVE  p[i].key < p[j].key
    BY DEF Increasing
  <2>1. i \in 1..Len(q) /\ p[i] = q[i]
    BY <1>1, <1>2
  <2>2. CASE j \in 1..Len(q) /\ p[j] = q[j]
    BY <2>1, <2>2 DEF Increasing
  <2>3. CASE p[j] = r
    <3>1. q[i].key <= n /\ q[i].key \in Nat
      BY <1>3, <2>1 DEF UpTo
    <3> QED BY <2>1, <2>3, <3>1
  <2> QED BY <1>2, <2>2, <2>3
<1>6. ASSUME NEW k \in Nat, k <= n, Above(k, q) PROVE Above(k, p)
  BY <1>2, <1>6 DEF Above
<1> QED BY <1>4, <1>5, <1>6 DEF p

LEMMA PairedKept ==
    ASSUME NEW e \in Entry, NEW n \in Entry, KeysOf(n), Kept(e, n),
           NEW self, NEW friend, Paired(self, friend, e),
           n.encryptedKey \in {0, e.encryptedKey} \/ n.encryptedKey # self
    PROVE  Paired(self, friend, n)
BY DEF Paired, Kept, KeysOf

LEMMA PairedSame ==
    ASSUME NEW e, NEW n, SameFields(e, n), NEW self, NEW friend
    PROVE  /\ Paired(self, friend, e) <=> Paired(self, friend, n)
           /\ \A x : Paired(e.encryptedKey, e.offlineKey, x)
                        <=> Paired(n.encryptedKey, n.offlineKey, x)
BY DEF Paired, SameFields

\* A roster without the friend has no key of his.
BlankRoster ==
    \A d \in Device, f \in Friend :
        roster[d][f].status = "Absent" => roster[d][f].selfKey = 0 /\ ~roster[d][f].publicKey

LEMMA AboveNothing ==
    ASSUME NEW q \in Seq(Request)
    PROVE  Above(0, q)
BY DEF Above, Asks, Request

LEMMA KnownNat ==
    ASSUME TypeOK, FriendsAssumption, NEW x \in Device, NEW f \in Login
    PROVE  KnownKeys(x, f) \subseteq Nat
<1>1. f \in Friend /\ Owner[x] \in Login
  BY DEF Friend, FriendsAssumption
<1>2. roster[x][f].selfKey \in Nat
  BY <1>1 DEF TypeOK, RosterEntry
<1>3. stored[Owner[x]][f].encryptedKey \in Nat
  BY <1>1 DEF TypeOK, FriendList, Entry
<1>4. ASSUME NEW i \in 1..Len(toClient[x]) PROVE toClient[x][i][f].encryptedKey \in Nat
  <2>1. toClient[x][i] \in FriendList
    BY DEF TypeOK
  <2> QED BY <1>1, <2>1 DEF FriendList, Entry
<1> QED BY <1>2, <1>3, <1>4 DEF KnownKeys

\* A step after which a device knows no new key, and has asked with one at most.
LEMMA SameNewer ==
    ASSUME TypeOK, TypeOK', FriendsAssumption, NEW x \in Device, Newer(x), keys <= keys',
           UpTo(keys', toServer'[x]), Increasing(toServer'[x]),
           \A k \in Nat : k <= keys /\ Above(k, toServer[x]) => Above(k, toServer'[x]),
           \A f \in Login : KnownKeys(x, f)' \subseteq KnownKeys(x, f) \cup {0}
    PROVE  Newer(x)'
<1>1. keys \in Nat /\ keys' \in Nat /\ toServer'[x] \in Seq(Request)
  BY DEF TypeOK
<1>2. ASSUME NEW f \in Login, NEW k \in KnownKeys(x, f)'
      PROVE  k <= keys' /\ Above(k, toServer'[x])
  <2>1. CASE k = 0
    BY <1>1, <2>1, AboveNothing
  <2>2. CASE k \in KnownKeys(x, f)
    <3>1. k \in Nat /\ k <= keys /\ Above(k, toServer[x])
      BY <2>2, KnownNat DEF Newer
    <3> QED BY <1>1, <3>1
  <2> QED BY <1>2, <2>1, <2>2
<1> QED BY <1>2 DEF Newer

\* What a handler does to the requests of its device, and that the key of a request is
\* newer than all the device knows.
LEMMA HandlerQueue ==
    ASSUME TypeOK, FriendsAssumption, NEW d \in Device, HandleRequest(d), Newer(d)
    PROVE  /\ UpTo(keys, toServer'[d]) /\ Increasing(toServer'[d])
           /\ \A k : Above(k, toServer[d]) => Above(k, toServer'[d])
           /\ Head(toServer[d]).type = "AddFriend" =>
                  /\ Head(toServer[d]).key <= keys
                  /\ Above(Head(toServer[d]).key, toServer'[d])
                  /\ \A k : Above(k, toServer[d]) => k < Head(toServer[d]).key
<1> DEFINE q == toServer[d]
<1>1. q \in Seq(Request) /\ q # <<>> /\ keys \in Nat /\ UpTo(keys, q) /\ Increasing(q)
  BY DEF HandleRequest, HandleAddLocal, HandleAddFailed, HandleAddRemote,
     HandleRemoveLocal, HandleRemoveRemote, HandleRemoveFailed,
     HandleSetFriendOfflineKey, NextRequest, TypeOK, Newer
<1>2. Head(q) = q[1] /\ 1 \in 1..Len(q) /\ q[1] \in Request
  BY <1>1, EmptySeq
<1>3. CASE toServer'[d] = Tail(q)
  <2>1. Asks(Head(q)) => \A k : Above(k, q) => k < Head(q).key
    BY <1>2 DEF Above
  <2> QED BY <1>1, <1>3, <2>1, TailQueue DEF Asks
<1>4. ASSUME NEW h \in Request, ~Asks(h), ~Asks(Head(q)), toServer'[d] = <<h>> \o Tail(q)
      PROVE  /\ UpTo(keys, toServer'[d]) /\ Increasing(toServer'[d])
             /\ \A k : Above(k, toServer[d]) => Above(k, toServer'[d])
             /\ Head(toServer[d]).type # "AddFriend"
  BY <1>1, <1>4, ReplacedQueue DEF Asks
<1>5. ASSUME NEW f \in Friend, HandleSetFriendOfflineKey(d, f)
      PROVE  \/ toServer'[d] = Tail(q)
             \/ \E h \in Request : /\ ~Asks(h) /\ ~Asks(Head(q))
                                   /\ toServer'[d] = <<h>> \o Tail(q)
  <2> DEFINE h == [Head(q) EXCEPT !.keys[f] = 0]
  <2>1. Head(q).type = "SetFriendOfflineKey" /\ Head(q) \in Request
    BY <1>2, <1>5 DEF HandleSetFriendOfflineKey, NextRequest
  <2>2. Head(q) \in [type : {"SetFriendOfflineKey"}, keys : [Friend -> Nat]]
    BY <2>1 DEF Request
  <2>3. h \in Request /\ h.type = "SetFriendOfflineKey"
    BY <2>2 DEF Request
  <2>4. toServer'[d] = Tail(q) \/ toServer'[d] = <<h>> \o Tail(q)
    BY <1>5 DEF HandleSetFriendOfflineKey, TypeOK
  <2> HIDE DEF h
  <2> QED BY <2>1, <2>3, <2>4 DEF Asks
<1>6. toServer'[d] = Tail(q) \/ \E f \in Friend : HandleSetFriendOfflineKey(d, f)
  BY DEF HandleRequest, HandleAddLocal, HandleAddFailed, HandleAddRemote,
     HandleRemoveLocal, HandleRemoveRemote, HandleRemoveFailed, PopRequest, TypeOK
<1> QED BY <1>3, <1>4, <1>5, <1>6

\* The packets of a device after a handler: those before, or one more that is stored.
LEMMA HandlerPackets ==
    ASSUME FriendsAssumption, TypeOK, KeysPresent, SessionInv, OfflineKeysListed,
           NEW d \in Device, HandleRequest(d), NEW x \in Device
    PROVE  \/ toClient'[x] = toClient[x]
           \/ \E p \in FriendList :
                  /\ toClient'[x] = Append(toClient[x], p)
                  /\ \A f \in Login : SameFields(stored'[Owner[x]][f], p[f])
BY HandlerStores, StoresPackets

\* A device whose own state is not touched.
LEMMA OtherKeys ==
    ASSUME KeyInv, NEW x \in Device,
           UNCHANGED <<stored, keys, toClient[x], toServer[x], roster[x]>>
    PROVE  Newer(x)' /\ \A f \in Login : Pairs(x, f)'
<1>1. Newer(x) /\ \A f \in Login : Pairs(x, f)
  BY DEF KeyInv
<1>2. \A f \in Login : KnownKeys(x, f)' = KnownKeys(x, f)
  BY DEF KnownKeys
<1>3. Newer(x)'
  BY <1>1, <1>2 DEF Newer
<1>4. \A f \in Login : Pairs(x, f)'
  BY <1>1 DEF Pairs
<1> QED BY <1>3, <1>4

LEMMA HandlerKeyInv ==
    ASSUME SingleDevice, FriendsAssumption, TypeOK, TypeOK', KeysPresent, KeysPresent',
           Connected, SessionInv, OnlineRegistered, OfflineKeysListed, KeyInv,
           NEW d \in Device, HandleRequest(d)
    PROVE  KeyInv'
<1> DEFINE head == Head(toServer[d])
<1>1. /\ UNCHANGED <<roster, keys>>
      /\ \A x \in Device : x # d => toServer'[x] = toServer[x]
  BY HandlerOthers
<1>2. SUFFICES ASSUME NEW x \in Device PROVE Newer(x)' /\ \A f \in Login : Pairs(x, f)'
  BY DEF KeyInv
<1>3. Owner[x] \in Login /\ keys \in Nat /\ Newer(x) /\ Newer(d)
  BY DEF FriendsAssumption, TypeOK, KeyInv
<1>4. ASSUME NEW f \in Login
      PROVE  /\ Kept(stored[Owner[x]][f], stored'[Owner[x]][f])
             /\ \/ stored'[Owner[x]][f].encryptedKey \in {0, stored[Owner[x]][f].encryptedKey}
                \/ /\ x = d /\ head.type = "AddFriend"
                   /\ stored'[Owner[x]][f].encryptedKey = head.key
  <2>1. Changes(d, Owner[x], stored[Owner[x]][f], stored'[Owner[x]][f])
    BY <1>3, HandlerChanges
  <2>2. Owner[x] = Owner[d] => x = d
    BY DEF SingleDevice
  <2> QED BY <2>1, <2>2 DEF Changes, NewKey
<1>5. /\ UpTo(keys, toServer'[x]) /\ Increasing(toServer'[x])
      /\ \A k : Above(k, toServer[x]) => Above(k, toServer'[x])
      /\ x = d /\ head.type = "AddFriend" =>
             /\ head.key <= keys /\ Above(head.key, toServer'[x])
             /\ \A k : Above(k, toServer[x]) => k < head.key
  <2>1. CASE x = d
    BY <1>3, <2>1, HandlerQueue
  <2>2. CASE x # d
    BY <1>1, <1>3, <2>2 DEF Newer
  <2> QED BY <2>1, <2>2
<1>6. \A f \in Login : KnownKeys(x, f) \subseteq Nat
  BY KnownNat
<1> HIDE DEF head
<1>7. toServer'[x] \in Seq(Request)
  BY DEF TypeOK
<1>8. PICK n \in Nat :
        /\ n = Len(toClient[x])
        /\ \A i \in 1..n : toClient'[x][i] = toClient[x][i]
        /\ \/ Len(toClient'[x]) = n
           \/ /\ Len(toClient'[x]) = n + 1
              /\ \A f \in Login : SameFields(stored'[Owner[x]][f], toClient'[x][n + 1][f])
  <2>1. toClient[x] \in Seq(FriendList) /\ Len(toClient[x]) \in Nat
    BY DEF TypeOK
  <2>2. CASE toClient'[x] = toClient[x]
    BY <2>1, <2>2
  <2>3. ASSUME NEW p \in FriendList, toClient'[x] = Append(toClient[x], p),
               \A f \in Login : SameFields(stored'[Owner[x]][f], p[f])
        PROVE  \E n \in Nat :
                 /\ n = Len(toClient[x])
                 /\ \A i \in 1..n : toClient'[x][i] = toClient[x][i]
                 /\ Len(toClient'[x]) = n + 1
                 /\ \A f \in Login : SameFields(stored'[Owner[x]][f], toClient'[x][n + 1][f])
    BY <2>1, <2>3, AppendProperties
  <2> QED BY <2>2, <2>3, HandlerPackets
<1>9. ASSUME NEW i \in 1..Len(toClient'[x])
      PROVE  \/ i \in 1..n
             \/ i = n + 1 /\ \A f \in Login : SameFields(stored'[Owner[x]][f], toClient'[x][i][f])
  BY <1>8, <1>9
<1>10. ASSUME NEW f \in Login, NEW k \in KnownKeys(x, f)'
       PROVE  k \in KnownKeys(x, f) \cup {0} \/ (x = d /\ head.type = "AddFriend" /\ k = head.key)
  <2>1. \/ k = roster[x][f].selfKey \/ k = stored'[Owner[x]][f].encryptedKey
        \/ \E i \in 1..n : k = toClient[x][i][f].encryptedKey
    BY <1>1, <1>8, <1>9, <1>10 DEF KnownKeys, SameFields
  <2>2. stored[Owner[x]][f].encryptedKey \in KnownKeys(x, f)
    BY DEF KnownKeys
  <2>3. CASE k = stored'[Owner[x]][f].encryptedKey
    BY <1>4, <2>2, <2>3
  <2> QED BY <1>8, <2>1, <2>3 DEF KnownKeys
<1>11. Newer(x)'
  <2>1. ASSUME NEW f \in Login, NEW k \in KnownKeys(x, f)'
        PROVE  k <= keys' /\ Above(k, toServer'[x])
    <3>1. CASE k = 0
      BY <1>1, <1>3, <1>7, <3>1, AboveNothing
    <3>2. CASE k \in KnownKeys(x, f)
      BY <1>1, <1>3, <1>5, <3>2 DEF Newer
    <3>3. CASE x = d /\ head.type = "AddFriend" /\ k = head.key
      BY <1>1, <1>5, <3>3
    <3> QED BY <1>10, <2>1, <3>1, <3>2, <3>3
  <2> QED BY <1>1, <1>5, <2>1 DEF Newer
<1>12. ASSUME NEW f \in Login PROVE Pairs(x, f)'
  <2> DEFINE e == stored[Owner[x]][f]
             new == stored'[Owner[x]][f]
             r == roster[x][f]
             q == toClient[x]
  <2>1. /\ e \in Entry /\ new \in Entry /\ KeysOf(new)
    BY <1>3 DEF TypeOK, FriendList, Friend, KeysPresent
  <2>2. Pairs(x, f)
    BY DEF KeyInv
  <2>3. ASSUME NEW self \in KnownKeys(x, f), NEW friend, Paired(self, friend, e)
        PROVE  Paired(self, friend, new)
    <3>1. new.encryptedKey \in {0, e.encryptedKey} \/ new.encryptedKey # self
      <4>1. Above(self, toServer[x]) /\ self \in Nat
        BY <1>3, <1>6 DEF Newer
      <4>2. CASE x = d /\ head.type = "AddFriend" /\ new.encryptedKey = head.key
        <5>1. self < head.key
          BY <1>5, <4>1, <4>2
        <5> QED BY <4>1, <4>2, <5>1
      <4> QED BY <1>4, <4>2
    <3> QED BY <1>4, <2>1, <2>3, <3>1, PairedKept
  <2>4. r.selfKey \in KnownKeys(x, f) /\ \A i \in 1..n : q[i][f].encryptedKey \in KnownKeys(x, f)
    BY <1>8 DEF KnownKeys
  <2>5. Paired(r.selfKey, r.friendKey, new)
    BY <2>2, <2>3, <2>4 DEF Pairs
  <2>6. \A i \in 1..n : Paired(q[i][f].encryptedKey, q[i][f].offlineKey, new)
    BY <1>8, <2>2, <2>3, <2>4 DEF Pairs
  <2> HIDE DEF e, new
  <2>7. ASSUME NEW i \in 1..Len(toClient'[x])
        PROVE  /\ Paired(r.selfKey, r.friendKey, toClient'[x][i][f])
               /\ Paired(toClient'[x][i][f].encryptedKey, toClient'[x][i][f].offlineKey, new)
               /\ \A j \in 1..Len(toClient'[x]) : i < j =>
                    Paired(toClient'[x][i][f].encryptedKey, toClient'[x][i][f].offlineKey,
                           toClient'[x][j][f])
    <3>1. CASE i \in 1..n
      <4>1. toClient'[x][i] = q[i]
        BY <1>8, <3>1
      <4>2. Paired(r.selfKey, r.friendKey, q[i][f])
        BY <1>8, <2>2, <3>1 DEF Pairs
      <4>3. ASSUME NEW j \in 1..Len(toClient'[x]), i < j
            PROVE  Paired(q[i][f].encryptedKey, q[i][f].offlineKey, toClient'[x][j][f])
        <5>1. CASE j \in 1..n
          BY <1>8, <2>2, <3>1, <4>3, <5>1 DEF Pairs
        <5>2. CASE SameFields(new, toClient'[x][j][f])
          BY <2>6, <3>1, <5>2, PairedSame
        <5> QED BY <1>9, <5>1, <5>2 DEF new
      <4> QED BY <2>6, <3>1, <4>1, <4>2, <4>3
    <3>2. CASE i = n + 1 /\ SameFields(new, toClient'[x][i][f])
      <4>1. \A j \in 1..Len(toClient'[x]) : ~(i < j)
        BY <1>8, <3>2
      <4>2. Paired(toClient'[x][i][f].encryptedKey, toClient'[x][i][f].offlineKey, new)
        BY <3>2 DEF Paired, SameFields
      <4>3. Paired(r.selfKey, r.friendKey, toClient'[x][i][f])
        BY <2>5, <3>2, PairedSame
      <4> QED BY <4>1, <4>2, <4>3
    <3> QED BY <1>9, <3>1, <3>2 DEF new
  <2> QED BY <1>1, <2>2, <2>5, <2>7 DEF Pairs, new
<1> QED BY <1>11, <1>12

\* What the roster knows after a packet is paired as the packet was.
LEMMA SyncedPaired ==
    ASSUME NEW r \in RosterEntry, NEW e \in Entry, KeysOf(e), ~Mismatch(r, e),
           r.status = "Absent" => r.selfKey = 0,
           r.friendKey # 0 => r.selfKey # 0
    PROVE  /\ Synced(r, e).friendKey # 0 => Synced(r, e).selfKey # 0
           /\ Synced(r, e).selfKey \in {0, r.selfKey, e.encryptedKey}
           /\ \A x : /\ Paired(r.selfKey, r.friendKey, x)
                     /\ Paired(e.encryptedKey, e.offlineKey, x)
                     => Paired(Synced(r, e).selfKey, Synced(r, e).friendKey, x)
BY DEF Synced, SyncedStatus, KeysOf, Mismatch, NoRosterEntry, Paired,
       RosterEntry, RosterStatus, Entry, Status

LEMMA ReceiveKeyInv ==
    ASSUME FriendsAssumption, TypeOK, TypeOK', KeysPresent, BlankRoster, KeyInv,
           NEW d \in Device, ReceiveSyncInfo(d)
    PROVE  KeyInv'
<1> DEFINE q == toClient[d]
           t == Tail(q)
<1>1. /\ q \in Seq(FriendList) /\ q # <<>> /\ Head(q) = q[1] /\ 1 \in 1..Len(q)
      /\ Len(q) \in Nat \ {0}
      /\ Len(t) = Len(q) - 1 /\ \A i \in 1..Len(t) : t[i] = q[i + 1]
  <2>1. q \in Seq(FriendList) /\ q # <<>>
    BY DEF ReceiveSyncInfo, TypeOK
  <2>2. Len(q) \in Nat /\ Len(q) # 0
    BY <2>1, EmptySeq
  <2> QED BY <2>1, <2>2, HeadTailProperties
<1>2. /\ UNCHANGED <<stored, keys>>
      /\ toClient'[d] = t
      /\ \A f \in Friend : roster'[d][f] = Synced(roster[d][f], q[1][f])
      /\ \A x \in Device : x # d => /\ roster'[x] = roster[x] /\ toClient'[x] = toClient[x]
                                    /\ toServer'[x] = toServer[x]
      /\ \A f \in Friend : ~Mismatch(roster[d][f], q[1][f])
  BY <1>1 DEF ReceiveSyncInfo, serverVars, TypeOK
<1>3. \/ toServer'[d] = toServer[d]
      \/ \E r \in Request : ~Asks(r) /\ toServer'[d] = Append(toServer[d], r)
  <2>1. UNCHANGED toServer \/ \E r : /\ r.type = "SetFriendOfflineKey"
                                     /\ toServer' = [toServer EXCEPT ![d] = Append(@, r)]
    BY DEF ReceiveSyncInfo
  <2>2. ASSUME NEW r, r.type = "SetFriendOfflineKey",
               toServer' = [toServer EXCEPT ![d] = Append(@, r)]
        PROVE  r \in Request /\ toServer'[d] = Append(toServer[d], r)
    <3>1. toServer[d] \in Seq(Request) /\ toServer'[d] \in Seq(Request)
          /\ toServer'[d] = Append(toServer[d], r)
      BY <2>2 DEF TypeOK
    <3>2. /\ toServer'[d][Len(toServer[d]) + 1] = r
          /\ Len(toServer[d]) + 1 \in 1..Len(toServer'[d])
      BY <3>1
    <3> QED BY <3>1, <3>2
  <2> QED BY <2>1, <2>2 DEF Asks
<1> HIDE DEF t
<1>4. ASSUME NEW f \in Login
      PROVE  /\ f \in Friend /\ q[1][f] \in Entry /\ KeysOf(q[1][f])
             /\ roster[d][f] \in RosterEntry /\ ~Mismatch(roster[d][f], q[1][f])
             /\ roster[d][f].status = "Absent" => roster[d][f].selfKey = 0
             /\ roster[d][f].friendKey # 0 => roster[d][f].selfKey # 0
             /\ Pairs(d, f)
  <2>1. f \in Friend /\ q[1] \in FriendList /\ Pairs(d, f)
    BY <1>1 DEF Friend, KeyInv
  <2>2. KeysOf(q[1][f])
    BY <1>1, <2>1 DEF KeysPresent
  <2>3. q[1][f] \in Entry /\ roster[d][f] \in RosterEntry
    BY <2>1 DEF FriendList, TypeOK
  <2> QED BY <1>2, <2>1, <2>2, <2>3 DEF BlankRoster, Pairs
<1>5. Newer(d)'
  <2>1. keys \in Nat /\ toServer[d] \in Seq(Request) /\ Newer(d)
    BY DEF TypeOK, KeyInv
  <2>2. /\ UpTo(keys', toServer'[d]) /\ Increasing(toServer'[d])
        /\ \A k \in Nat : k <= keys /\ Above(k, toServer[d]) => Above(k, toServer'[d])
    <3>1. CASE toServer'[d] = toServer[d]
      BY <1>2, <2>1, <3>1 DEF Newer
    <3>2. ASSUME NEW r \in Request, ~Asks(r), toServer'[d] = Append(toServer[d], r)
          PROVE  <2>2!1 /\ <2>2!2
      BY <1>2, <2>1, <3>2, AppendQueue DEF Newer
    <3> QED BY <1>3, <3>1, <3>2
  <2>3. ASSUME NEW f \in Login, NEW k \in KnownKeys(d, f)' PROVE k \in KnownKeys(d, f) \cup {0}
    <3>1. \/ k = Synced(roster[d][f], q[1][f]).selfKey
          \/ k = stored[Owner[d]][f].encryptedKey
          \/ \E i \in 1..Len(t) : k = t[i][f].encryptedKey
      BY <1>2, <1>4, <2>3 DEF KnownKeys
    <3>2. Synced(roster[d][f], q[1][f]).selfKey \in
              {0, roster[d][f].selfKey, q[1][f].encryptedKey}
      BY <1>4, SyncedPaired
    <3>3. \A i \in 1..Len(t) : i + 1 \in 1..Len(q) /\ t[i] = q[i + 1]
      BY <1>1
    <3>4. \A i \in 1..Len(q) : q[i][f].encryptedKey \in KnownKeys(d, f)
      BY DEF KnownKeys
    <3>5. roster[d][f].selfKey \in KnownKeys(d, f) /\ stored[Owner[d]][f].encryptedKey \in KnownKeys(d, f)
      BY DEF KnownKeys
    <3>6. q[1][f].encryptedKey \in KnownKeys(d, f)
      BY <1>1, <3>4
    <3>7. \A i \in 1..Len(t) : t[i][f].encryptedKey \in KnownKeys(d, f)
      BY <3>3, <3>4
    <3> QED BY <3>1, <3>2, <3>5, <3>6, <3>7
  <2> QED BY <1>2, <2>1, <2>2, <2>3, SameNewer
<1>6. ASSUME NEW f \in Login PROVE Pairs(d, f)'
  <2> DEFINE r == Synced(roster[d][f], q[1][f])
  <2>1. /\ roster'[d][f] = r /\ (r.friendKey # 0 => r.selfKey # 0)
        /\ \A x : /\ Paired(roster[d][f].selfKey, roster[d][f].friendKey, x)
                  /\ Paired(q[1][f].encryptedKey, q[1][f].offlineKey, x)
                  => Paired(r.selfKey, r.friendKey, x)
    BY <1>2, <1>4, SyncedPaired
  <2> HIDE DEF r
  <2>2. Paired(r.selfKey, r.friendKey, stored[Owner[d]][f])
    BY <1>1, <1>4, <2>1 DEF Pairs
  <2>3. ASSUME NEW i \in 1..Len(t)
        PROVE  /\ i + 1 \in 1..Len(q) /\ t[i] = q[i + 1] /\ 1 < i + 1
    BY <1>1
  <2>4. ASSUME NEW i \in 1..Len(t)
        PROVE  /\ Paired(r.selfKey, r.friendKey, t[i][f])
               /\ Paired(t[i][f].encryptedKey, t[i][f].offlineKey, stored[Owner[d]][f])
               /\ \A j \in 1..Len(t) :
                    i < j => Paired(t[i][f].encryptedKey, t[i][f].offlineKey, t[j][f])
    <3>1. /\ Paired(roster[d][f].selfKey, roster[d][f].friendKey, t[i][f])
          /\ Paired(q[1][f].encryptedKey, q[1][f].offlineKey, t[i][f])
          /\ Paired(t[i][f].encryptedKey, t[i][f].offlineKey, stored[Owner[d]][f])
      BY <1>1, <1>4, <2>3 DEF Pairs
    <3>2. ASSUME NEW j \in 1..Len(t), i < j
          PROVE  Paired(t[i][f].encryptedKey, t[i][f].offlineKey, t[j][f])
      <4>1. i + 1 < j + 1
        BY <3>2
      <4>2. Pairs(d, f)
        BY <1>4
      <4> QED BY <2>3, <4>1, <4>2 DEF Pairs
    <3> QED BY <2>1, <3>1, <3>2
  <2> QED BY <1>2, <2>1, <2>2, <2>4 DEF Pairs
<1>7. ASSUME NEW x \in Device, x # d PROVE Newer(x)' /\ \A f \in Login : Pairs(x, f)'
  BY <1>2, <1>7, OtherKeys
<1> QED BY <1>5, <1>6, <1>7 DEF KeyInv

LEMMA AuthorizeKeyInv ==
    ASSUME FriendsAssumption, TypeOK, TypeOK', KeyInv, NEW d \in Device, Authorize(d)
    PROVE  KeyInv'
<1>1. /\ UNCHANGED <<stored, roster, toServer, keys>>
      /\ toClient'[d] = <<stored[Owner[d]]>>
      /\ \A x \in Device : x # d => toClient'[x] = toClient[x]
  BY DEF Authorize, TypeOK, clientVars
<1>2. Len(toClient'[d]) = 1 /\ \A i \in 1..1 : toClient'[d][i] = stored[Owner[d]]
  BY <1>1
<1>3. ASSUME NEW f \in Login, NEW k \in KnownKeys(d, f)' PROVE k \in KnownKeys(d, f)
  BY <1>1, <1>2, <1>3 DEF KnownKeys
<1>4. Newer(d)'
  BY <1>1, <1>3 DEF Newer, KeyInv
<1>5. ASSUME NEW f \in Login PROVE Pairs(d, f)'
  <2>1. Pairs(d, f)
    BY DEF KeyInv
  <2>2. \A i, j \in 1..1 : ~(i < j)
    OBVIOUS
  <2> QED BY <1>1, <1>2, <2>1, <2>2 DEF Pairs, Paired
<1>6. ASSUME NEW x \in Device, x # d PROVE Newer(x)' /\ \A f \in Login : Pairs(x, f)'
  BY <1>1, <1>6, OtherKeys
<1> QED BY <1>4, <1>5, <1>6 DEF KeyInv

\* A device that loses its packets, its requests or its roster.
LEMMA LeaveKeyInv ==
    ASSUME FriendsAssumption, TypeOK, TypeOK', KeyInv, NEW d \in Device,
           Disconnect(d) \/ Restart(d) \/ DieOfMismatch(d)
    PROVE  KeyInv'
<1>1. /\ UNCHANGED <<stored, keys>>
      /\ \A x \in Device : x # d => /\ toClient'[x] = toClient[x]
                                    /\ toServer'[x] = toServer[x]
                                    /\ roster'[x] = roster[x]
      /\ toClient'[d] = toClient[d] \/ toClient'[d] = <<>>
      /\ toServer'[d] = toServer[d] \/ toServer'[d] = <<>>
      /\ roster'[d] = roster[d] \/ roster'[d] = EmptyRoster
  <2>1. CASE Disconnect(d)
    BY <2>1 DEF Disconnect, DropConnection, TypeOK
  <2>2. CASE DieOfMismatch(d)
    BY <2>2 DEF DieOfMismatch, DropConnection, TypeOK
  <2>3. CASE Restart(d)
    BY <2>3 DEF Restart, serverVars, TypeOK
  <2> QED BY <2>1, <2>2, <2>3
<1>2. \A f \in Login : /\ f \in Friend
                       /\ \/ roster'[d][f] = roster[d][f]
                          \/ roster'[d][f].selfKey = 0 /\ roster'[d][f].friendKey = 0
  BY <1>1 DEF EmptyRoster, NoRosterEntry, Friend
<1>3. Newer(d)'
  <2>1. keys \in Nat /\ Newer(d)
    BY DEF TypeOK, KeyInv
  <2>2. /\ UpTo(keys', toServer'[d]) /\ Increasing(toServer'[d])
        /\ \A k \in Nat : k <= keys /\ Above(k, toServer[d]) => Above(k, toServer'[d])
    BY <1>1, <2>1 DEF Newer, UpTo, Increasing, Above
  <2>3. ASSUME NEW f \in Login, NEW k \in KnownKeys(d, f)' PROVE k \in KnownKeys(d, f) \cup {0}
    BY <1>1, <1>2, <2>3 DEF KnownKeys
  <2> QED BY <1>1, <2>1, <2>2, <2>3, SameNewer
<1>4. ASSUME NEW f \in Login PROVE Pairs(d, f)'
  <2>1. Pairs(d, f)
    BY DEF KeyInv
  <2>2. Paired(0, 0, stored[Owner[d]][f]) /\ \A x : Paired(0, 0, x)
    BY DEF Paired
  <2> QED BY <1>1, <1>2, <2>1, <2>2 DEF Pairs
<1>5. ASSUME NEW x \in Device, x # d PROVE Newer(x)' /\ \A f \in Login : Pairs(x, f)'
  BY <1>1, <1>5, OtherKeys
<1> QED BY <1>3, <1>4, <1>5 DEF KeyInv

LEMMA UserKeyInv ==
    ASSUME FriendsAssumption, TypeOK, TypeOK', KeyInv, NEW d \in Device, NEW g \in Friend,
           AddFriend(d, g) \/ RemoveFriend(d, g)
    PROVE  KeyInv'
<1> DEFINE JustAsked == [NoRosterEntry EXCEPT !.status = "Unauthorized"]
<1>1. PICK r \in Request :
        /\ toServer' = [toServer EXCEPT ![d] = Append(@, r)]
        /\ keys \in Nat /\ keys' \in Nat /\ keys <= keys'
        /\ Asks(r) => keys < keys' /\ r.key = keys'
  <2>1. CASE AddFriend(d, g)
    <3> DEFINE r == [type |-> "AddFriend", friend |-> g, key |-> keys']
    <3>1. keys' = keys + 1 /\ keys \in Nat
      BY <2>1 DEF AddFriend, TypeOK
    <3>2. r \in Request /\ r.key = keys'
      BY <3>1 DEF Request
    <3>3. toServer' = [toServer EXCEPT ![d] = Append(@, r)]
      BY <2>1 DEF AddFriend
    <3>4. keys' \in Nat /\ keys < keys' /\ keys <= keys'
      BY <3>1
    <3> HIDE DEF r
    <3> QED BY <3>1, <3>2, <3>3, <3>4
  <2>2. CASE RemoveFriend(d, g)
    <3> DEFINE r == [type |-> "RemoveFriend", friend |-> g]
    <3>1. r \in Request /\ ~Asks(r)
      BY DEF Request, Asks
    <3>2. toServer' = [toServer EXCEPT ![d] = Append(@, r)] /\ keys' = keys /\ keys \in Nat
      BY <2>2 DEF RemoveFriend, TypeOK
    <3>3. keys' \in Nat /\ keys <= keys'
      BY <3>2
    <3> HIDE DEF r
    <3> QED BY <3>1, <3>2, <3>3
  <2> QED BY <2>1, <2>2
<1>2. /\ UNCHANGED <<stored, toClient>>
      /\ \A x \in Device : x # d => toServer'[x] = toServer[x]
      /\ toServer'[d] = Append(toServer[d], r)
  BY <1>1 DEF AddFriend, RemoveFriend, serverVars, TypeOK
<1>3. \A x \in Device, f \in Login :
        \/ roster'[x][f] = roster[x][f]
        \/ roster'[x][f].selfKey = 0 /\ roster'[x][f].friendKey = 0
  <2>1. JustAsked.selfKey = 0 /\ JustAsked.friendKey = 0
    BY DEF NoRosterEntry
  <2>2. UNCHANGED roster \/ roster' = [roster EXCEPT ![d][g] = JustAsked]
    BY DEF AddFriend, RemoveFriend
  <2> HIDE DEF JustAsked
  <2>3. ASSUME NEW x \in Device, NEW f \in Login
        PROVE  roster'[x][f] = roster[x][f] \/ roster'[x][f] = JustAsked
    <3>1. f \in Friend /\ roster \in [Device -> [Friend -> RosterEntry]]
      BY DEF TypeOK, Friend
    <3>2. CASE UNCHANGED roster
      BY <3>2
    <3>3. CASE roster' = [roster EXCEPT ![d][g] = JustAsked]
      <4>1. roster[x] \in [Friend -> RosterEntry] /\ roster[d] \in [Friend -> RosterEntry]
        BY <3>1
      <4>2. CASE x = d /\ f = g
        <5>1. roster'[d] = [roster[d] EXCEPT ![g] = JustAsked]
          BY <3>1, <3>3
        <5> QED BY <4>1, <4>2, <5>1
      <4>3. CASE x # d \/ f # g
        BY <3>1, <3>3, <4>1, <4>3
      <4> QED BY <4>2, <4>3
    <3> QED BY <2>2, <3>2, <3>3
  <2> QED BY <2>1, <2>3
<1>4. ASSUME NEW x \in Device PROVE Newer(x)'
  <2>1. Newer(x) /\ toServer[x] \in Seq(Request)
    BY DEF KeyInv, TypeOK
  <2>2. /\ UpTo(keys', toServer'[x]) /\ Increasing(toServer'[x])
        /\ \A k \in Nat : k <= keys /\ Above(k, toServer[x]) => Above(k, toServer'[x])
    <3>1. CASE x = d
      BY <1>1, <1>2, <2>1, <3>1, AppendQueue DEF Newer
    <3>2. CASE x # d
      <4>1. \A i \in 1..Len(toServer[x]) : Asks(toServer[x][i]) => toServer[x][i].key \in Nat
        BY <2>1 DEF Asks, Request
      <4> QED BY <1>1, <1>2, <2>1, <3>2, <4>1 DEF Newer, UpTo
    <3> QED BY <3>1, <3>2
  <2>3. ASSUME NEW f \in Login, NEW k \in KnownKeys(x, f)' PROVE k \in KnownKeys(x, f) \cup {0}
    BY <1>2, <1>3, <2>3 DEF KnownKeys
  <2> QED BY <1>1, <2>1, <2>2, <2>3, SameNewer
<1>5. ASSUME NEW x \in Device, NEW f \in Login PROVE Pairs(x, f)'
  <2>1. Pairs(x, f)
    BY DEF KeyInv
  <2>2. \A e : Paired(0, 0, e)
    BY DEF Paired
  <2> QED BY <1>2, <1>3, <2>1, <2>2 DEF Pairs
<1> QED BY <1>4, <1>5 DEF KeyInv

LEMMA NextKeyInv ==
    /\ SingleDevice /\ FriendsAssumption /\ TypeOK /\ TypeOK' /\ KeysPresent /\ KeysPresent'
    /\ Connected /\ SessionInv /\ OnlineRegistered /\ OfflineKeysListed
    /\ BlankRoster /\ KeyInv /\ [Next]_vars
    => KeyInv'
<1> SUFFICES ASSUME SingleDevice, FriendsAssumption, TypeOK, TypeOK', KeysPresent,
                    KeysPresent', Connected, SessionInv, OnlineRegistered,
                    OfflineKeysListed, BlankRoster, KeyInv, [Next]_vars
             PROVE  KeyInv'
  OBVIOUS
<1>1. ASSUME UNCHANGED <<stored, toClient, toServer, roster, keys>> PROVE KeyInv'
  BY <1>1 DEF KeyInv, Newer, KnownKeys, Pairs
<1>2. ASSUME NEW l \in Login, Register(l) PROVE KeyInv'
  BY <1>1, <1>2 DEF Register, clientVars
<1>3. CASE UNCHANGED vars
  BY <1>1, <1>3 DEF vars
<1> QED BY <1>2, <1>3, AuthorizeKeyInv, LeaveKeyInv, UserKeyInv, HandlerKeyInv,
           ReceiveKeyInv DEF Next

LEMMA KeyInvInit == Init => KeyInv
<1> SUFFICES ASSUME Init, NEW d \in Device
             PROVE  Newer(d) /\ \A f \in Login : Pairs(d, f)
  BY DEF KeyInv
<1>1. /\ toServer[d] = <<>> /\ toClient[d] = <<>> /\ keys = 0
      /\ \A g \in Login : /\ roster[d][g].selfKey = 0 /\ roster[d][g].friendKey = 0
                          /\ stored[Owner[d]][g].encryptedKey = 0
  BY FriendsAssumption DEF Init, EmptyRoster, NoRosterEntry, NoFriends, NoEntry, Friend
<1>2. Newer(d)
  BY <1>1 DEF Newer, UpTo, Increasing, Above, KnownKeys
<1>3. \A f \in Login : Pairs(d, f)
  BY <1>1 DEF Pairs, Paired
<1> QED BY <1>2, <1>3

-----------------------------------------------------------------------------
(* What the roster of a registered device shows *)

\* The last packet under way to a registered device is the list that is stored.
LastCurrent ==
    \A d \in Device : Registered(d) /\ toClient[d] # <<>> =>
        \A f \in Login :
            SameFields(stored[Owner[d]][f], toClient[d][Len(toClient[d])][f])

Shows(r, e) ==
    /\ r.status = SyncedStatus(e.status)
    /\ e.encryptedKey # 0 => r.selfKey = e.encryptedKey
    /\ e.status = "Authorized" => r.friendKey = e.offlineKey

\* The user has asked for f and the server has not handled it.
Asking(d, f) ==
    \E i \in 1..Len(toServer[d]) :
        toServer[d][i].type = "AddFriend" /\ toServer[d][i].friend = f

\* Once every packet has arrived the roster shows what is stored, but for a friend whom
\* the user has just asked.
RosterShown ==
    \A d \in Device : Registered(d) /\ toClient[d] = <<>> =>
        \A f \in Login : Shows(roster[d][f], stored[Owner[d]][f]) \/ Asking(d, f)

RosterInv == LastCurrent /\ RosterShown /\ BlankRoster

LEMMA SyncedShows ==
    ASSUME NEW r \in RosterEntry, NEW e \in Entry, NEW s \in Entry, KeysOf(e),
           SameFields(s, e), ~Mismatch(r, e), r.status = "Absent" => r.selfKey = 0,
           r.friendKey # 0 => r.selfKey # 0, Paired(r.selfKey, r.friendKey, s)
    PROVE  Shows(Synced(r, e), s)
BY DEF Shows, Paired, Synced, SyncedStatus, KeysOf, SameFields, Mismatch, NoRosterEntry,
       RosterEntry, RosterStatus, Entry, Status

LEMMA SyncedBlank ==
    ASSUME NEW r, NEW e \in Entry, Synced(r, e).status = "Absent"
    PROVE  Synced(r, e).selfKey = 0 /\ ~Synced(r, e).publicKey
BY DEF Synced, SyncedStatus, NoRosterEntry, Entry, Status

\* A request that is not for a friend leaves the others where they are.
LEMMA AskingPopped ==
    ASSUME TypeOK, NEW d \in Device, HandleRequest(d),
           Head(toServer[d]).type # "AddFriend", NEW f, Asking(d, f)
    PROVE  Asking(d, f)'
<1> DEFINE q == toServer[d]
<1>0. q # <<>>
  BY DEF HandleRequest, HandleAddLocal, HandleAddFailed, HandleAddRemote,
     HandleRemoveLocal, HandleRemoveRemote, HandleRemoveFailed,
     HandleSetFriendOfflineKey, NextRequest
<1>1. q # <<>> /\ q \in Seq(Request) /\ q[1].type # "AddFriend"
  BY <1>0 DEF TypeOK
<1>2. \/ toServer'[d] = Tail(q)
      \/ \E h : toServer'[d] = <<h>> \o Tail(q)
  BY DEF HandleRequest, HandleAddLocal, HandleAddFailed, HandleAddRemote,
     HandleRemoveLocal, HandleRemoveRemote, HandleRemoveFailed,
     HandleSetFriendOfflineKey, PopRequest, TypeOK
<1>3. PICK i \in 1..Len(q) : q[i].type = "AddFriend" /\ q[i].friend = f
  BY DEF Asking
<1>4. i \in 2..Len(q)
  BY <1>1, <1>3
<1>5. /\ Tail(q) \in Seq(Request) /\ Len(Tail(q)) = Len(q) - 1
      /\ Len(q) \in Nat /\ i - 1 \in 1..Len(Tail(q)) /\ Tail(q)[i - 1] = q[i]
  BY <1>1, <1>4, HeadTailProperties
<1>6. CASE toServer'[d] = Tail(q)
  BY <1>3, <1>5, <1>6 DEF Asking
<1>7. ASSUME NEW h, toServer'[d] = <<h>> \o Tail(q) PROVE Asking(d, f)'
  <2>1. Len(toServer'[d]) = Len(q) /\ toServer'[d][i] = q[i]
    BY <1>4, <1>5, <1>7
  <2> QED BY <1>3, <2>1 DEF Asking
<1> QED BY <1>2, <1>6, <1>7

LEMMA HandlerRoster ==
    ASSUME TypeOK, FriendsAssumption, KeysPresent, SessionInv, OfflineKeysListed,
           RosterInv, NEW d \in Device, HandleRequest(d)
    PROVE  RosterInv'
<1>1. /\ UNCHANGED <<roster, byLogin>>
      /\ \A x \in Device : x # d => toServer'[x] = toServer[x]
  BY HandlerOthers
<1>2. BlankRoster'
  BY <1>1 DEF RosterInv, BlankRoster
<1>3. ASSUME NEW x \in Device, Registered(x),
             stored'[Owner[x]] = stored[Owner[x]], toClient'[x] = toClient[x],
             x = d => Head(toServer[d]).type # "AddFriend", NEW f \in Login
      PROVE  /\ toClient'[x] # <<>> =>
                    SameFields(stored'[Owner[x]][f], toClient'[x][Len(toClient'[x])][f])
             /\ toClient'[x] = <<>> =>
                    Shows(roster'[x][f], stored'[Owner[x]][f]) \/ Asking(x, f)'
  <2>1. Asking(x, f) => Asking(x, f)'
    BY <1>1, <1>3, AskingPopped DEF Asking
  <2> QED BY <1>1, <1>3, <2>1 DEF RosterInv, LastCurrent, RosterShown
<1>4. ASSUME NEW own, NEW S, NEW lists, Stores(d, own, S, lists) PROVE RosterInv'
  <2>1. ASSUME NEW x \in Device, Registered(x), NEW f \in Login
        PROVE  /\ toClient'[x] # <<>> =>
                      SameFields(stored'[Owner[x]][f], toClient'[x][Len(toClient'[x])][f])
               /\ toClient'[x] = <<>> =>
                      Shows(roster'[x][f], stored'[Owner[x]][f]) \/ Asking(x, f)'
    <3>1. CASE Owner[x] \in S
      <4>1. PICK p \in FriendList :
              /\ toClient'[x] = Append(toClient[x], p)
              /\ \A g \in Login : SameFields(stored'[Owner[x]][g], p[g])
        BY <1>4, <2>1, <3>1, StoresPackets
      <4>2. toClient[x] \in Seq(FriendList)
        BY DEF TypeOK
      <4>3. toClient'[x] # <<>> /\ toClient'[x][Len(toClient'[x])] = p
        BY <4>1, <4>2, AppendProperties
      <4> QED BY <4>1, <4>3
    <3>2. CASE Owner[x] \notin S
      <4>1. stored'[Owner[x]] = stored[Owner[x]] /\ toClient'[x] = toClient[x]
        BY <1>4, <3>2, StoresPackets
      <4>2. x = d => Head(toServer[d]).type # "AddFriend"
        BY <1>4, <3>2 DEF Stores
      <4> QED BY <1>3, <2>1, <4>1, <4>2
    <3> QED BY <3>1, <3>2
  <2>2. \A x \in Device : Registered(x)' = Registered(x)
    BY <1>1 DEF Registered
  <2> QED BY <1>2, <2>1, <2>2 DEF RosterInv, LastCurrent, RosterShown
<1>5. CASE UNCHANGED <<stored, toClient>> /\ Head(toServer[d]).type # "AddFriend"
  <2>1. \A x \in Device : Registered(x)' = Registered(x)
    BY <1>1 DEF Registered
  <2> QED BY <1>2, <1>3, <1>5, <2>1 DEF RosterInv, LastCurrent, RosterShown
<1> QED BY <1>4, <1>5, HandlerStores

LEMMA ReceiveRoster ==
    ASSUME TypeOK, FriendsAssumption, KeysPresent, KeyInv, RosterInv,
           NEW d \in Device, ReceiveSyncInfo(d)
    PROVE  RosterInv'
<1> DEFINE packet == Head(toClient[d])
           rest == Tail(toClient[d])
<1>1. /\ toClient[d] \in Seq(FriendList) /\ toClient[d] # <<>>
      /\ packet \in FriendList /\ packet = toClient[d][1]
      /\ \A f \in Friend : ~Mismatch(roster[d][f], packet[f])
  BY HeadPacket, HeadTailProperties DEF ReceiveSyncInfo, TypeOK
<1>2. /\ Len(rest) = Len(toClient[d]) - 1 /\ Len(toClient[d]) \in Nat \ {0}
      /\ rest # <<>> => Len(rest) # 0 /\ rest[Len(rest)] = toClient[d][Len(toClient[d])]
      /\ rest = <<>> => Len(toClient[d]) = 1
  <2>1. /\ rest \in Seq(FriendList) /\ Len(rest) = Len(toClient[d]) - 1
        /\ Len(toClient[d]) \in Nat \ {0}
        /\ \A i \in 1..Len(rest) : rest[i] = toClient[d][i + 1]
    <3>1. Len(toClient[d]) \in Nat /\ Len(toClient[d]) # 0
      BY <1>1
    <3> QED BY <1>1, <3>1, HeadTailProperties
  <2> HIDE DEF rest
  <2>2. rest # <<>> => Len(rest) \in 1..Len(rest)
    BY <2>1, EmptySeq
  <2>3. Len(rest) + 1 = Len(toClient[d])
    BY <2>1
  <2>4. rest # <<>> => rest[Len(rest)] = toClient[d][Len(rest) + 1]
    BY <2>1, <2>2
  <2>5. rest = <<>> => Len(rest) = 0
    OBVIOUS
  <2> QED BY <2>1, <2>2, <2>3, <2>4, <2>5
<1>3. /\ toClient' = [toClient EXCEPT ![d] = rest]
      /\ roster' = [roster EXCEPT ![d] = [f \in Friend |-> Synced(roster[d][f], packet[f])]]
      /\ UNCHANGED serverVars
      /\ \A x \in Device : x # d => toServer'[x] = toServer[x]
  BY DEF ReceiveSyncInfo, TypeOK
<1>4. /\ toClient'[d] = rest
      /\ \A f \in Friend : roster'[d][f] = Synced(roster[d][f], packet[f])
      /\ \A x \in Device : x # d => toClient'[x] = toClient[x] /\ roster'[x] = roster[x]
      /\ UNCHANGED <<stored, byLogin>>
  BY <1>3 DEF serverVars, TypeOK
<1>5. \A f \in Login : f \in Friend
  BY DEF Friend
<1>6. \A f \in Friend : packet[f] \in Entry /\ KeysOf(packet[f])
  <2>1. 1 \in 1..Len(toClient[d])
    BY <1>2
  <2>2. KeysOfList(packet)
    BY <1>1, <2>1, KeysPresentByList
  <2> QED BY <1>1, <2>2 DEF KeysOfList, FriendList
<1>7. BlankRoster'
  <2> SUFFICES ASSUME NEW x \in Device, NEW f \in Friend, roster'[x][f].status = "Absent"
               PROVE  roster'[x][f].selfKey = 0 /\ ~roster'[x][f].publicKey
    BY DEF BlankRoster
  <2>1. CASE x = d
    BY <1>4, <1>6, <2>1, SyncedBlank
  <2>2. CASE x # d
    BY <1>4, <2>2 DEF RosterInv, BlankRoster
  <2> QED BY <2>1, <2>2
<1>8. ASSUME NEW x \in Device, Registered(x), NEW f \in Login
      PROVE  /\ toClient'[x] # <<>> =>
                    SameFields(stored[Owner[x]][f], toClient'[x][Len(toClient'[x])][f])
             /\ toClient'[x] = <<>> =>
                    Shows(roster'[x][f], stored[Owner[x]][f]) \/ Asking(x, f)'
  <2>1. CASE x # d
    BY <1>3, <1>4, <1>8, <2>1 DEF RosterInv, LastCurrent, RosterShown, Asking
  <2>2. CASE x = d
    <3>1. SameFields(stored[Owner[d]][f], toClient[d][Len(toClient[d])][f])
      BY <1>1, <1>8, <2>2 DEF RosterInv, LastCurrent
    <3>2. CASE rest # <<>>
      BY <1>2, <1>4, <2>2, <3>1, <3>2
    <3>3. CASE rest = <<>>
      <4>1. SameFields(stored[Owner[d]][f], packet[f])
        BY <1>1, <1>2, <3>1, <3>3
      <4>2. /\ stored[Owner[d]][f] \in Entry /\ roster[d][f] \in RosterEntry
        BY <1>5 DEF TypeOK, FriendsAssumption, FriendList
      <4>3. roster[d][f].status = "Absent" => roster[d][f].selfKey = 0
        BY <1>5 DEF RosterInv, BlankRoster
      <4>5. /\ roster[d][f].friendKey # 0 => roster[d][f].selfKey # 0
            /\ Paired(roster[d][f].selfKey, roster[d][f].friendKey, stored[Owner[d]][f])
        BY DEF KeyInv, Pairs
      <4>4. Shows(Synced(roster[d][f], packet[f]), stored[Owner[d]][f])
        BY <1>1, <1>5, <1>6, <4>1, <4>2, <4>3, <4>5, SyncedShows
      <4> QED BY <1>4, <1>5, <2>2, <3>3, <4>4
    <3> QED BY <3>2, <3>3
  <2> QED BY <2>1, <2>2
<1>9. \A x \in Device : Registered(x)' = Registered(x)
  BY <1>4 DEF Registered
<1> QED BY <1>4, <1>7, <1>8, <1>9 DEF RosterInv, LastCurrent, RosterShown

\* The steps that change neither a list, nor a packet, nor who is registered.
LEMMA SameRoster ==
    ASSUME RosterInv, UNCHANGED <<stored, byLogin, toClient>>, BlankRoster',
           \A x \in Device : Registered(x) => \A f \in Login :
               \/ roster'[x][f] = roster[x][f] /\ (Asking(x, f) => Asking(x, f)')
               \/ Asking(x, f)'
    PROVE  RosterInv'
<1>1. \A x \in Device : Registered(x)' = Registered(x)
  BY DEF Registered
<1>2. LastCurrent'
  BY <1>1 DEF RosterInv, LastCurrent
<1>3. RosterShown'
  BY <1>1 DEF RosterInv, RosterShown
<1> QED BY <1>2, <1>3 DEF RosterInv

LEMMA UserRoster ==
    ASSUME TypeOK, RosterInv, NEW d \in Device, NEW f \in Friend,
           AddFriend(d, f) \/ RemoveFriend(d, f)
    PROVE  RosterInv'
<1> DEFINE JustAsked == [NoRosterEntry EXCEPT !.status = "Unauthorized"]
<1>1. PICK r \in Request :
        /\ toServer' = [toServer EXCEPT ![d] = Append(@, r)]
        /\ \/ UNCHANGED roster
           \/ /\ r.type = "AddFriend" /\ r.friend = f
              /\ roster' = [roster EXCEPT ![d][f] = JustAsked]
  <2>1. CASE AddFriend(d, f)
    <3> DEFINE r == [type |-> "AddFriend", friend |-> f, key |-> keys']
    <3>1. r \in Request /\ r.type = "AddFriend" /\ r.friend = f
      BY <2>1 DEF AddFriend, Request, TypeOK
    <3>2. toServer' = [toServer EXCEPT ![d] = Append(@, r)]
      BY <2>1 DEF AddFriend
    <3>3. UNCHANGED roster \/ roster' = [roster EXCEPT ![d][f] = JustAsked]
      BY <2>1 DEF AddFriend
    <3> HIDE DEF r, JustAsked
    <3> QED BY <3>1, <3>2, <3>3
  <2>2. CASE RemoveFriend(d, f)
    <3> DEFINE r == [type |-> "RemoveFriend", friend |-> f]
    <3>1. r \in Request
      BY DEF Request
    <3>2. toServer' = [toServer EXCEPT ![d] = Append(@, r)] /\ UNCHANGED roster
      BY <2>2 DEF RemoveFriend
    <3> HIDE DEF r
    <3> QED BY <3>1, <3>2
  <2> QED BY <2>1, <2>2
<1>2. UNCHANGED <<stored, byLogin, toClient>>
  BY DEF AddFriend, RemoveFriend, serverVars
<1>3. /\ Len(toServer[d]) \in Nat
      /\ Len(toServer'[d]) = Len(toServer[d]) + 1
      /\ \A i \in 1..Len(toServer[d]) : toServer'[d][i] = toServer[d][i]
      /\ toServer'[d][Len(toServer[d]) + 1] = r
      /\ \A x \in Device : x # d => toServer'[x] = toServer[x]
  <2>1. toServer[d] \in Seq(Request) /\ toServer'[d] = Append(toServer[d], r)
    BY <1>1 DEF TypeOK
  <2>2. \A x \in Device : x # d => toServer'[x] = toServer[x]
    BY <1>1 DEF TypeOK
  <2> QED BY <2>1, <2>2, AppendProperties
<1>4. ASSUME NEW x \in Device, NEW g, Asking(x, g) PROVE Asking(x, g)'
  <2>1. PICK i \in 1..Len(toServer[x]) :
          toServer[x][i].type = "AddFriend" /\ toServer[x][i].friend = g
    BY <1>4 DEF Asking
  <2>2. i \in 1..Len(toServer'[x]) /\ toServer'[x][i] = toServer[x][i]
    BY <1>3, <2>1
  <2> QED BY <2>1, <2>2 DEF Asking
<1>5. r.type = "AddFriend" /\ r.friend = f => Asking(d, f)'
  <2>1. Len(toServer[d]) + 1 \in 1..Len(toServer'[d])
    BY <1>3
  <2> QED BY <1>3, <2>1 DEF Asking
<1>6. BlankRoster'
  <2>1. CASE UNCHANGED roster
    BY <2>1 DEF RosterInv, BlankRoster
  <2>2. CASE roster' = [roster EXCEPT ![d][f] = JustAsked]
    BY <2>2 DEF RosterInv, BlankRoster, NoRosterEntry, TypeOK
  <2> QED BY <1>1, <2>1, <2>2
<1>7. ASSUME NEW x \in Device, NEW g \in Login
      PROVE  roster'[x][g] = roster[x][g] \/ Asking(x, g)'
  <2>1. g \in Friend
    BY DEF Friend
  <2>2. CASE x = d /\ g = f /\ r.type = "AddFriend" /\ r.friend = f
    BY <1>5, <2>2
  <2>3. CASE UNCHANGED roster
    BY <2>3
  <2>4. CASE (x # d \/ g # f) /\ roster' = [roster EXCEPT ![d][f] = JustAsked]
    BY <2>1, <2>4 DEF TypeOK
  <2> QED BY <1>1, <2>2, <2>3, <2>4
<1> QED BY <1>2, <1>4, <1>6, <1>7, SameRoster

LEMMA AuthorizeRoster ==
    ASSUME TypeOK, FriendsAssumption, RosterInv, NEW d \in Device, Authorize(d)
    PROVE  RosterInv'
<1>1. /\ UNCHANGED <<stored, roster, toServer>>
      /\ toClient'[d] = <<stored[Owner[d]]>>
      /\ \A x \in Device : x # d => toClient'[x] = toClient[x]
      /\ \A x \in Device : x # d => (Registered(x)' => Registered(x))
  BY DEF Authorize, clientVars, TypeOK, Registered, FriendsAssumption
<1>2. /\ toClient'[d] # <<>> /\ toClient'[d][Len(toClient'[d])] = stored[Owner[d]]
  BY <1>1
<1>3. ASSUME NEW x \in Device, Registered(x)', NEW f \in Login
      PROVE  /\ toClient'[x] # <<>> =>
                    SameFields(stored'[Owner[x]][f], toClient'[x][Len(toClient'[x])][f])
             /\ toClient'[x] = <<>> =>
                    Shows(roster'[x][f], stored'[Owner[x]][f]) \/ Asking(x, f)'
  <2>1. CASE x = d
    BY <1>1, <1>2, <2>1 DEF SameFields
  <2>2. CASE x # d
    BY <1>1, <1>3, <2>2 DEF RosterInv, LastCurrent, RosterShown, Asking
  <2> QED BY <2>1, <2>2
<1>4. BlankRoster'
  BY <1>1 DEF RosterInv, BlankRoster
<1> QED BY <1>3, <1>4 DEF RosterInv, LastCurrent, RosterShown

\* A device that loses its roster is not registered.
LEMMA LeaveRoster ==
    ASSUME TypeOK, FriendsAssumption, Connected, RosterInv, NEW d \in Device,
           Disconnect(d) \/ Restart(d) \/ DieOfMismatch(d)
    PROVE  RosterInv'
<1>1. /\ UNCHANGED stored
      /\ \A x \in Device : x # d => /\ toClient'[x] = toClient[x]
                                    /\ toServer'[x] = toServer[x]
                                    /\ roster'[x] = roster[x]
      /\ \A x \in Device : Registered(x)' => x # d /\ Registered(x)
      /\ roster'[d] = roster[d] \/ roster'[d] = EmptyRoster
  <2>1. CASE Disconnect(d)
    BY <2>1 DEF Disconnect, DropConnection, TypeOK, Registered, FriendsAssumption
  <2>2. CASE DieOfMismatch(d)
    BY <2>2 DEF DieOfMismatch, DropConnection, TypeOK, Registered, FriendsAssumption
  <2>3. CASE Restart(d)
    BY <2>3 DEF Restart, serverVars, TypeOK, Registered, Connected
  <2> QED BY <2>1, <2>2, <2>3
<1>2. BlankRoster'
  BY <1>1 DEF RosterInv, BlankRoster, EmptyRoster, NoRosterEntry
<1>3. ASSUME NEW x \in Device, Registered(x)', NEW f \in Login
      PROVE  /\ toClient'[x] # <<>> =>
                    SameFields(stored'[Owner[x]][f], toClient'[x][Len(toClient'[x])][f])
             /\ toClient'[x] = <<>> =>
                    Shows(roster'[x][f], stored'[Owner[x]][f]) \/ Asking(x, f)'
  BY <1>1, <1>3 DEF RosterInv, LastCurrent, RosterShown, Asking
<1> QED BY <1>2, <1>3 DEF RosterInv, LastCurrent, RosterShown

LEMMA NextRoster ==
    /\ FriendsAssumption /\ TypeOK /\ KeysPresent /\ Connected /\ SessionInv
    /\ OfflineKeysListed /\ KeyInv /\ RosterInv /\ [Next]_vars
    => RosterInv'
<1> SUFFICES ASSUME FriendsAssumption, TypeOK, KeysPresent, Connected, SessionInv,
                    OfflineKeysListed, KeyInv, RosterInv, [Next]_vars
             PROVE  RosterInv'
  OBVIOUS
<1>1. ASSUME UNCHANGED <<stored, byLogin, toClient, toServer, roster>> PROVE RosterInv'
  BY <1>1 DEF RosterInv, LastCurrent, RosterShown, BlankRoster, Asking, Registered
<1>2. ASSUME NEW l \in Login, Register(l) PROVE RosterInv'
  BY <1>1, <1>2 DEF Register, clientVars
<1>3. CASE UNCHANGED vars
  BY <1>1, <1>3 DEF vars
<1> QED BY <1>2, <1>3, AuthorizeRoster, LeaveRoster, UserRoster, HandlerRoster,
           ReceiveRoster DEF Next

LEMMA RosterInit == Init => RosterInv
<1> SUFFICES ASSUME Init PROVE RosterInv
  OBVIOUS
<1>1. \A d \in Device : ~Registered(d)
  BY FriendsAssumption DEF Init, Registered
<1>2. BlankRoster
  BY DEF Init, BlankRoster, EmptyRoster, NoRosterEntry
<1> QED BY <1>1, <1>2 DEF RosterInv, LastCurrent, RosterShown

LEMMA AlwaysRoster == ASSUME SingleDevice PROVE Spec => [](RosterInv /\ KeyInv)
<1>1. RosterInv => BlankRoster
  BY DEF RosterInv
<1> QED BY <1>1, RosterInit, KeyInvInit, NextRoster, NextKeyInv, NextType, NextKeys,
           AlwaysKeyed, AlwaysSession, TypeCorrect, KeysAlwaysPresent, AlwaysConnected,
           FriendsAssumption, PTL DEF Spec

\* When every account is used from one device and nothing is under way to or from it, it
\* shows the friends that are stored, with our key and the friend's as they are stored:
\* whatever crossed, failed or was lost before, and also where the roster is one it kept
\* from an earlier connection.  Every handler that stores a list sends it, and no key of a
\* friendship that has ended is taken for one of the next, because no own key comes twice.
THEOREM RosterCurrent == ASSUME SingleDevice PROVE Spec => []RosterSynced
<1>1. RosterInv => RosterSynced
  <2> SUFFICES ASSUME RosterInv, NEW d \in Device, Registered(d), toServer[d] = <<>>,
                      toClient[d] = <<>>, NEW f \in Login
               PROVE  Shows(roster[d][f], stored[Owner[d]][f])
    BY DEF RosterSynced, Shows, Registered
  <2>1. ~Asking(d, f)
    BY DEF Asking
  <2> QED BY <2>1 DEF RosterInv, RosterShown
<1> QED BY <1>1, AlwaysRoster, PTL

-----------------------------------------------------------------------------
(* The keys of the packets a device receives *)

\* The keys of a roster entry are those of a list entry, or follow from it.
Known(r, e) ==
    /\ r.publicKey => e.publicKey
    /\ r.selfKey # 0 => e.encryptedKey = r.selfKey

Fits(r, e) == e.status # "Absent" => Known(r, e)

\* What the device knows of a friend fits the next packet, and each packet fits the one
\* before it, as far as what is stored now.
KeysInOrder(d, f) ==
    /\ toClient[d] = <<>> => Known(roster[d][f], stored[Owner[d]][f])
    /\ toClient[d] # <<>> => Fits(roster[d][f], toClient[d][1][f])
    /\ \A i \in 1..(Len(toClient[d]) - 1) : Kept(toClient[d][i][f], toClient[d][i + 1][f])

\* So it is for every friend whose entry was not outdated when the device was authorized.
InOrder == \A d \in online, f \in Login : <<d, f>> \notin stale => KeysInOrder(d, f)

LEMMA OutdatedFits ==
    ASSUME NEW r \in RosterEntry, NEW e \in Entry, ~Outdated(r, e)
    PROVE  Fits(r, e)
BY DEF Outdated, Fits, Known, RosterEntry, Entry

LEMMA SyncedKnown ==
    ASSUME NEW r \in RosterEntry, NEW e \in Entry, KeysOf(e), Fits(r, e)
    PROVE  Known(Synced(r, e), e)
BY DEF Synced, Known, Fits, KeysOf, NoRosterEntry, RosterEntry, Entry, Status

LEMMA SameKnown ==
    ASSUME NEW r, NEW e, NEW s, SameFields(s, e), Known(r, e)
    PROVE  Known(r, s)
BY DEF SameFields, Known

LEMMA BlankKnown == \A e : Known(NoRosterEntry, e) /\ Fits(NoRosterEntry, e)
BY DEF Known, Fits, NoRosterEntry

LEMMA KeptFields ==
    ASSUME NEW a, NEW b, NEW x, NEW y, Kept(a, b), SameFields(a, x), SameFields(b, y)
    PROVE  Kept(x, y)
BY DEF Kept, SameFields

LEMMA FitsMatches ==
    ASSUME NEW r, NEW e, Fits(r, e)
    PROVE  ~Mismatch(r, e)
BY DEF Fits, Known, Mismatch

\* A packet is appended that holds what is stored.
LEMMA AppendInOrder ==
    ASSUME TypeOK, NEW x \in Device, Registered(x), LastCurrent, NEW f \in Login,
           KeysInOrder(x, f), UNCHANGED roster,
           NEW p \in FriendList, toClient'[x] = Append(toClient[x], p),
           SameFields(stored'[Owner[x]][f], p[f]),
           Kept(stored[Owner[x]][f], stored'[Owner[x]][f])
    PROVE  KeysInOrder(x, f)'
<1> DEFINE q == toClient[x]
           s == stored[Owner[x]][f]
<1>0. q \in Seq(FriendList) /\ Len(q) \in Nat
  BY DEF TypeOK
<1>1. /\ Len(toClient'[x]) = Len(q) + 1
      /\ \A i \in 1..Len(q) : toClient'[x][i] = q[i]
      /\ toClient'[x][Len(q) + 1] = p
      /\ toClient'[x] # <<>>
  BY <1>0, AppendProperties
<1>2. Kept(s, p[f])
  BY KeptFields DEF SameFields
<1>3. Fits(roster'[x][f], toClient'[x][1][f])
  <2>1. CASE q = <<>>
    <3>1. Known(roster[x][f], s) /\ toClient'[x][1] = p
      BY <1>1, <2>1 DEF KeysInOrder
    <3> QED BY <1>2, <3>1 DEF Known, Kept, Fits
  <2>2. CASE q # <<>>
    <3>1. 1 \in 1..Len(q)
      BY <1>0, <2>2, EmptySeq
    <3> QED BY <1>1, <2>2, <3>1 DEF KeysInOrder
  <2> QED BY <2>1, <2>2
<1>4. ASSUME NEW i \in 1..(Len(toClient'[x]) - 1)
      PROVE  Kept(toClient'[x][i][f], toClient'[x][i + 1][f])
  <2>1. i \in 1..Len(q)
    BY <1>0, <1>1
  <2>2. CASE i = Len(q)
    <3>1. q # <<>> /\ toClient'[x][i] = q[Len(q)] /\ toClient'[x][i + 1] = p
      BY <1>0, <1>1, <2>1, <2>2, EmptySeq
    <3>2. SameFields(s, q[Len(q)][f])
      BY <3>1 DEF LastCurrent
    <3> QED BY <1>2, <3>1, <3>2, KeptFields DEF SameFields
  <2>3. CASE i # Len(q)
    <3>1. i \in 1..(Len(q) - 1) /\ i + 1 \in 1..Len(q)
      BY <1>0, <2>1, <2>3
    <3>2. toClient'[x][i] = q[i] /\ toClient'[x][i + 1] = q[i + 1]
      BY <1>1, <2>1, <3>1
    <3> QED BY <3>1, <3>2 DEF KeysInOrder
  <2> QED BY <2>2, <2>3
<1> QED BY <1>1, <1>3, <1>4 DEF KeysInOrder

LEMMA HandlerInOrder ==
    ASSUME FriendsAssumption, TypeOK, KeysPresent, Connected, SessionInv, OnlineRegistered,
           OfflineKeysListed, LastCurrent, InOrder, [Next]_vars,
           NEW d \in Device, HandleRequest(d)
    PROVE  InOrder'
<1>1. UNCHANGED <<roster, online, stale, byLogin>>
  BY HandlerOthers
<1>3. ASSUME NEW x \in online, NEW f \in Login, <<x, f>> \notin stale
      PROVE  KeysInOrder(x, f)'
  <2>1. x \in Device /\ Registered(x) /\ KeysInOrder(x, f)
    BY <1>3 DEF TypeOK, OnlineRegistered, Registered, InOrder
  <2>2. Owner[x] \in Login
    BY <2>1 DEF FriendsAssumption
  <2>3. CASE stored'[Owner[x]] = stored[Owner[x]] /\ toClient'[x] = toClient[x]
    BY <1>1, <2>1, <2>3 DEF KeysInOrder
  <2>4. ASSUME NEW own, NEW S, NEW lists, Stores(d, own, S, lists)
        PROVE  KeysInOrder(x, f)'
    <3>1. CASE Owner[x] \in S
      <4>1. PICK p \in FriendList :
              /\ toClient'[x] = Append(toClient[x], p)
              /\ \A g \in Login : SameFields(stored'[Owner[x]][g], p[g])
        BY <2>1, <2>4, <3>1, StoresPackets
      <4>2. Kept(stored[Owner[x]][f], stored'[Owner[x]][f])
        BY <2>2, NextKept
      <4> QED BY <1>1, <2>1, <4>1, <4>2, AppendInOrder
    <3>2. CASE Owner[x] \notin S
      BY <2>1, <2>3, <2>4, <3>2, StoresPackets
    <3> QED BY <3>1, <3>2
  <2> QED BY <2>3, <2>4, HandlerStores
<1> QED BY <1>1, <1>3 DEF InOrder

LEMMA ReceiveInOrder ==
    ASSUME FriendsAssumption, TypeOK, KeysPresent, OnlineRegistered, Connected,
           LastCurrent, InOrder, NEW d \in Device, ReceiveSyncInfo(d)
    PROVE  InOrder'
<1> DEFINE q == toClient[d]
           rest == Tail(toClient[d])
<1>1. q \in Seq(FriendList) /\ q # <<>> /\ Len(q) \in Nat \ {0} /\ Head(q) = q[1]
  BY EmptySeq DEF ReceiveSyncInfo, TypeOK
<1>2. /\ rest \in Seq(FriendList) /\ Len(rest) = Len(q) - 1
      /\ \A i \in 1..Len(rest) : rest[i] = q[i + 1]
  BY <1>1, HeadTailProperties
<1>3. /\ toClient'[d] = rest
      /\ \A f \in Friend : roster'[d][f] = Synced(roster[d][f], q[1][f])
      /\ \A x \in Device : x # d => toClient'[x] = toClient[x] /\ roster'[x] = roster[x]
      /\ UNCHANGED <<stored, byLogin, online, stale>>
  BY <1>1 DEF ReceiveSyncInfo, serverVars, TypeOK
<1> HIDE DEF rest
<1>4. d \in online /\ Registered(d)
  BY <1>1 DEF Connected, OnlineRegistered, Registered
<1>6. ASSUME NEW f \in Login, <<d, f>> \notin stale PROVE KeysInOrder(d, f)'
  <2>1. f \in Friend /\ q[1] \in FriendList /\ q[1][f] \in Entry /\ KeysOf(q[1][f])
    <3>1. f \in Friend /\ 1 \in 1..Len(q)
      BY <1>1 DEF Friend
    <3>2. q[1] \in FriendList
      BY <1>1, <3>1
    <3>3. KeysOfList(q[1])
      BY <3>1, KeysPresentByList
    <3> QED BY <3>1, <3>2, <3>3 DEF FriendList, KeysOfList
  <2>2. KeysInOrder(d, f)
    BY <1>4, <1>6 DEF InOrder
  <2>3. roster[d][f] \in RosterEntry
    BY <2>1 DEF TypeOK
  <2>4. Known(roster'[d][f], q[1][f])
    <3>1. Fits(roster[d][f], q[1][f])
      BY <1>1, <2>2 DEF KeysInOrder
    <3> QED BY <1>3, <2>1, <2>3, <3>1, SyncedKnown
  <2>5. CASE rest = <<>>
    <3>1. Len(q) = 1
      <4>1. Len(rest) = 0
        BY <2>5, EmptySeq
      <4> QED BY <1>1, <1>2, <4>1
    <3>2. SameFields(stored[Owner[d]][f], q[1][f])
      BY <1>1, <1>4, <3>1 DEF LastCurrent
    <3>3. Known(roster'[d][f], stored'[Owner[d]][f])
      BY <1>3, <2>4, <3>2, SameKnown
    <3>4. 1..(Len(toClient'[d]) - 1) = {}
      BY <1>2, <1>3, <3>1
    <3> QED BY <1>3, <2>5, <3>3, <3>4 DEF KeysInOrder
  <2>6. CASE rest # <<>>
    <3>1. Len(rest) \in Nat \ {0}
      BY <1>2, <2>6, EmptySeq
    <3>2. 1 \in 1..(Len(q) - 1) /\ rest[1] = q[2]
      <4>1. 1 \in 1..Len(rest) /\ 1 + 1 = 2
        BY <3>1
      <4>2. 1 \in 1..(Len(q) - 1)
        BY <1>2, <4>1
      <4>3. rest[1] = q[1 + 1]
        BY <1>2, <4>1
      <4> QED BY <4>1, <4>2, <4>3
    <3>3. Kept(q[1][f], q[2][f])
      BY <2>2, <3>2 DEF KeysInOrder
    <3>4. Fits(roster'[d][f], rest[1][f])
      BY <2>4, <3>2, <3>3 DEF Known, Kept, Fits
    <3>5. ASSUME NEW i \in 1..(Len(rest) - 1) PROVE Kept(rest[i][f], rest[i + 1][f])
      <4>1. /\ i \in 1..Len(rest) /\ i + 1 \in 1..Len(rest)
            /\ i + 1 \in 1..(Len(q) - 1)
        BY <1>1, <1>2, <3>1
      <4>2. rest[i] = q[i + 1] /\ rest[i + 1] = q[i + 2]
        BY <1>2, <4>1
      <4>3. Kept(q[i + 1][f], q[i + 1 + 1][f])
        BY <2>2, <4>1 DEF KeysInOrder
      <4> QED BY <4>2, <4>3
    <3> QED BY <1>3, <2>6, <3>4, <3>5 DEF KeysInOrder
  <2> QED BY <2>5, <2>6
<1>7. ASSUME NEW x \in online, x # d, NEW f \in Login, <<x, f>> \notin stale
      PROVE  KeysInOrder(x, f)'
  <2>1. x \in Device /\ KeysInOrder(x, f)
    BY <1>7 DEF TypeOK, InOrder
  <2> QED BY <1>3, <1>7, <2>1 DEF KeysInOrder
<1> QED BY <1>3, <1>6, <1>7 DEF InOrder

LEMMA NextInOrder ==
    ASSUME SingleDevice, FriendsAssumption, TypeOK, KeysPresent, Connected, SessionInv,
           OnlineRegistered, OfflineKeysListed, RosterInv, InOrder, [Next]_vars
    PROVE  InOrder'
<1>1. ASSUME UNCHANGED <<stored, toClient, roster, online, stale>> PROVE InOrder'
  BY <1>1 DEF InOrder, KeysInOrder
<1>2. ASSUME NEW d \in Device, Authorize(d) PROVE InOrder'
  <2>1. /\ online' = online \cup {d}
        /\ stale' = stale \cup
                ({d} \X {f \in Friend : Outdated(roster[d][f], stored[Owner[d]][f])})
        /\ toClient'[d] = <<stored[Owner[d]]>>
        /\ \A x \in Device : x # d => toClient'[x] = toClient[x]
        /\ UNCHANGED <<stored, roster>>
    BY <1>2 DEF Authorize, TypeOK, clientVars
  <2>2. ASSUME NEW f \in Login, <<d, f>> \notin stale' PROVE KeysInOrder(d, f)'
    <3>1. f \in Friend /\ Owner[d] \in Login
      BY DEF Friend, FriendsAssumption
    <3>2. roster[d][f] \in RosterEntry /\ stored[Owner[d]][f] \in Entry
      BY <3>1 DEF TypeOK, FriendList
    <3>3. ~Outdated(roster[d][f], stored[Owner[d]][f])
      BY <2>1, <2>2, <3>1
    <3>4. Fits(roster'[d][f], toClient'[d][1][f])
      BY <2>1, <3>2, <3>3, OutdatedFits
    <3>5. toClient'[d] # <<>> /\ Len(toClient'[d]) = 1
      BY <2>1
    <3>6. 1..(Len(toClient'[d]) - 1) = {}
      BY <3>5
    <3> QED BY <3>4, <3>5, <3>6 DEF KeysInOrder
  <2>3. ASSUME NEW x \in online, x # d, NEW f \in Login, <<x, f>> \notin stale'
        PROVE  KeysInOrder(x, f)'
    BY <2>1, <2>3 DEF TypeOK, InOrder, KeysInOrder
  <2> QED BY <2>1, <2>2, <2>3 DEF InOrder
<1>3. ASSUME NEW d \in Device, Disconnect(d) \/ Restart(d) \/ DieOfMismatch(d)
      PROVE  InOrder'
  <2>1. /\ UNCHANGED stored /\ online' = online \ {d}
        /\ \A x \in Device : x # d => toClient'[x] = toClient[x] /\ roster'[x] = roster[x]
        /\ \A x \in Device, f \in Login : x # d /\ <<x, f>> \in stale => <<x, f>> \in stale'
    <3>1. CASE Disconnect(d)
      BY <3>1 DEF Disconnect, DropConnection, TypeOK
    <3>2. CASE DieOfMismatch(d)
      BY <3>2 DEF DieOfMismatch, DropConnection, TypeOK
    <3>3. CASE Restart(d)
      BY <3>3 DEF Restart, serverVars, TypeOK
    <3> QED BY <1>3, <3>1, <3>2, <3>3
  <2> QED BY <2>1 DEF InOrder, KeysInOrder, TypeOK
<1>4. ASSUME NEW d \in Device, NEW f \in Friend, AddFriend(d, f) \/ RemoveFriend(d, f)
      PROVE  InOrder'
  <2> DEFINE new == [NoRosterEntry EXCEPT !.status = "Unauthorized"]
  <2>0. UNCHANGED <<stored, toClient, online, stale>>
    BY <1>4 DEF AddFriend, RemoveFriend, serverVars
  <2>1. \A x \in Device, g \in Friend : roster'[x][g] = roster[x][g] \/ roster'[x][g] = new
    <3>1. UNCHANGED roster \/ roster' = [roster EXCEPT ![d][f] = new]
      BY <1>4 DEF AddFriend, RemoveFriend
    <3>2. ASSUME NEW x \in Device, NEW g \in Friend,
                 roster' = [roster EXCEPT ![d][f] = new]
          PROVE  roster'[x][g] = roster[x][g] \/ roster'[x][g] = new
      <4> HIDE DEF new
      <4>1. roster[x] \in [Friend -> RosterEntry]
        BY DEF TypeOK
      <4> QED BY <3>2, <4>1 DEF TypeOK
    <3> QED BY <3>1, <3>2
  <2>4. ASSUME NEW x \in Device, NEW g \in Login, KeysInOrder(x, g) PROVE KeysInOrder(x, g)'
    <3>1. g \in Friend
      BY DEF Friend
    <3>2. CASE roster'[x][g] = roster[x][g]
      BY <2>0, <2>4, <3>2 DEF KeysInOrder
    <3>3. CASE roster'[x][g] = new
      <4>1. ~roster'[x][g].publicKey /\ roster'[x][g].selfKey = 0
        BY <3>3 DEF NoRosterEntry
      <4> HIDE DEF new
      <4> QED BY <2>0, <2>4, <4>1 DEF KeysInOrder, Known, Fits
    <3> QED BY <2>1, <3>1, <3>2, <3>3
  <2> QED BY <2>0, <2>4 DEF InOrder, TypeOK
<1>5. ASSUME NEW l \in Login, Register(l) PROVE InOrder'
  BY <1>1, <1>5 DEF Register, clientVars
<1>6. CASE UNCHANGED vars
  BY <1>1, <1>6 DEF vars
<1>7. LastCurrent
  BY DEF RosterInv
<1> QED BY <1>2, <1>3, <1>4, <1>5, <1>6, <1>7, HandlerInOrder, ReceiveInOrder DEF Next

\* When every account is used from one device, a client meets "public keys missmatch" for a
\* friend of this host only if the entry it kept of him was outdated when it was
\* authorized: the packets of a connection are the successive lists of the storage, and
\* between two of them no key of a friend who stays in the list is replaced.
THEOREM KeysMatch == ASSUME SingleDevice PROVE Spec => []NoMismatch
<1>1. Init => InOrder
  BY DEF Init, InOrder
<1>2. InOrder /\ TypeOK /\ Connected => NoMismatch
  <2> SUFFICES ASSUME InOrder, TypeOK, Connected,
                      NEW d \in Device, toClient[d] # <<>>, NEW f \in Login,
                      <<d, f>> \notin stale
               PROVE  ~Mismatch(roster[d][f], Head(toClient[d])[f])
    BY DEF NoMismatch
  <2>1. d \in online
    BY DEF Connected, TypeOK
  <2>2. Fits(roster[d][f], toClient[d][1][f]) /\ Head(toClient[d]) = toClient[d][1]
    BY <2>1 DEF InOrder, KeysInOrder, TypeOK
  <2> QED BY <2>2, FitsMatches
<1>3. /\ FriendsAssumption /\ TypeOK /\ KeysPresent /\ Connected /\ SessionInv
      /\ OnlineRegistered /\ OfflineKeysListed /\ RosterInv /\ InOrder /\ [Next]_vars
      => InOrder'
  BY NextInOrder
<1> QED BY <1>1, <1>2, <1>3, AlwaysRoster, AlwaysKeyed, AlwaysSession, TypeCorrect,
           KeysAlwaysPresent, AlwaysConnected, FriendsAssumption, PTL DEF Spec
=============================================================================
