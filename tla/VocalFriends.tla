---------------------------- MODULE VocalFriends ----------------------------
(***************************************************************************)
(* Friend lists of the vocal messenger: one TServer (vocal_server_lib/     *)
(* server.cpp), its TClientInfoStorage, and the TClient processes          *)
(* ("devices", vocal_client_lib/client.cpp) that are authorized on it.     *)
(*                                                                         *)
(* Every handler of TServer runs on the event thread of TEventQueue, one   *)
(* at a time, so a handler is one action.  What interleaves are the two    *)
(* directions of each connection (in-order UDT streams), the users, the    *)
(* loss of connections and the restart of client processes.                *)
(*                                                                         *)
(* A friend list is total: a login that is not in the TFriendList has the  *)
(* status "Absent".  Keys are numbers, 0 is the empty string; encryption   *)
(* and signatures of honest parties are abstracted (what is decrypted is   *)
(* what was encrypted).  Logins of other hosts are in Remote.              *)
(***************************************************************************)
EXTENDS Naturals, Sequences

CONSTANTS
    Login,        \* accounts this server may hold
    Remote,       \* logins of other hosts a user may want as friends
    Device,       \* client processes, each with a connection of its own
    Owner,        \* the account a device logs in to
    NoDevice,
    MaxKeys,      \* bound: friend keys generated, i.e. AddFriend calls
    MaxRemoves,   \* bound: RemoveFriend calls
    MaxConnects   \* bound: authorizations of each device

Friend == Login \cup Remote

ASSUME FriendsAssumption ==
    /\ Login \cap Remote = {}
    /\ Owner \in [Device -> Login]
    /\ NoDevice \notin Device
    /\ MaxKeys \in Nat /\ MaxRemoves \in Nat /\ MaxConnects \in Nat

VARIABLES
    registered,   \* ClientInfoStorage: the accounts that exist
    stored,       \* ClientInfoStorage: the friend list stored for each account
    byLogin,      \* ClientsByLogin
    online,       \* devices with a connection in status CS_Authorized
    info,         \* TClient::Info.Friends of each device's server-side session
    toServer,     \* requests on their way to the server, per device
    toClient,     \* SP_SyncInfo packets on their way to the device
    roster,       \* TClient::Friends of each client process
    keys,         \* number of friend keys generated so far
    removes,      \* number of RemoveFriend calls so far
    connects,     \* number of authorizations of each device so far
    stale         \* history, read by no action: <<d, f>> if what d kept of f over the
                  \* loss of its last connection no longer fits the list it meets

serverVars == <<registered, stored, byLogin, info>>
clientVars == <<roster, keys, removes>>
vars == <<registered, stored, byLogin, online, info, toServer, toClient,
          roster, keys, removes, connects, stale>>

-----------------------------------------------------------------------------
(* Data *)

Status == {"Absent", "UnAuthorized", "WaitingAuthorization", "Authorized"}

Entry == [status: Status, publicKey: BOOLEAN, encryptedKey: Nat,
          offlineKey: Nat, needOfflineKey: BOOLEAN]

NoEntry == [status |-> "Absent", publicKey |-> FALSE, encryptedKey |-> 0,
            offlineKey |-> 0, needOfflineKey |-> FALSE]

NoFriends == [f \in Friend |-> NoEntry]
FriendList == [Friend -> Entry]

RosterStatus == {"Absent", "Unauthorized", "AddRequest", "Friend"}

RosterEntry == [status: RosterStatus, publicKey: BOOLEAN,
                selfKey: Nat, friendKey: Nat]

NoRosterEntry == [status |-> "Absent", publicKey |-> FALSE,
                  selfKey |-> 0, friendKey |-> 0]

EmptyRoster == [f \in Friend |-> NoRosterEntry]

Request == [type: {"AddFriend"}, friend: Friend, key: Nat \ {0}]
           \cup [type: {"RemoveFriend"}, friend: Friend]
           \cup [type: {"SetFriendOfflineKey"}, keys: [Friend -> Nat]]

-----------------------------------------------------------------------------
(* What the two sides of a friend request do to one entry *)

\* An accepted request, on either side; the mutant forgets the key of the other.
AcceptedBySelf(e, key) ==
    [e EXCEPT !.status = "Authorized", !.encryptedKey = key, !.needOfflineKey = TRUE]

AcceptedByFriend_NoPublicKey(e) ==
    [e EXCEPT !.status = "Authorized", !.needOfflineKey = TRUE]
AcceptedByFriend(e) ==
    [e EXCEPT !.status = "Authorized", !.publicKey = TRUE, !.needOfflineKey = TRUE]

\* Mutant: a repeated request replaces the key.
RequestedBySelf_Rekey(e, key) ==
    IF e.status = "Absent"
    THEN [NoEntry EXCEPT !.status = "UnAuthorized", !.encryptedKey = key]
    ELSE AcceptedBySelf(e, key)

\* RT_AddFriend on the requester's own list.
RequestedBySelf(e, key) ==
    CASE e.status = "Absent" ->
           [NoEntry EXCEPT !.status = "UnAuthorized", !.encryptedKey = key]
      [] e.status = "WaitingAuthorization" -> AcceptedBySelf(e, key)
      [] OTHER -> e

\* OnAddFriendRequest on the list of the login that was asked.  The mutants begin anew
\* with a friend who asks again, and take any request for an acceptance.
RequestedByFriend_Anew(e) ==
    IF e.status = "Absent"
    THEN [NoEntry EXCEPT !.status = "WaitingAuthorization", !.publicKey = TRUE]
    ELSE AcceptedByFriend([e EXCEPT !.offlineKey = 0])
RequestedByFriend_Accepted(e) == AcceptedByFriend(e)

RequestedByFriend(e) ==
    CASE e.status = "Absent" ->
           [NoEntry EXCEPT !.status = "WaitingAuthorization", !.publicKey = TRUE]
      [] e.status = "UnAuthorized" -> AcceptedByFriend(e)
      [] OTHER -> e

\* OnRemoveFriendRequest on the list of the login that was removed; in the mutant
\* he keeps his half of the friendship.
RemovedByFriend_Kept(list, f) == list
RemovedByFriend(list, f) == [list EXCEPT ![f] = NoEntry]

\* TClientInfoStorage::Put followed by Get: NeedOfflineKey is not a field of
\* the stored record.
Persisted(list) == [f \in Friend |-> [list[f] EXCEPT !.needOfflineKey = FALSE]]

\* SyncClientInfo for the accounts in DOMAIN lists: store each list, replace the
\* Info of the session registered for that account and send it the list.  "own" is
\* the session whose Info the calling handler has modified in place.  Mutants: the
\* registered session is not told, or keeps its old Info.
Notified_Never(d, lists) == FALSE
Notified(d, lists) == Owner[d] \in DOMAIN lists /\ byLogin[Owner[d]] = d

Refreshed_OwnOnly(d, own, lists) == d = own /\ Owner[d] \in DOMAIN lists
Refreshed(d, own, lists) ==
    \/ d = own /\ Owner[d] \in DOMAIN lists
    \/ Notified(d, lists)

SyncClientInfo(own, lists) ==
    /\ stored' = [l \in Login |-> IF l \in DOMAIN lists THEN Persisted(lists[l])
                                  ELSE stored[l]]
    /\ info' = [d \in Device |-> IF Refreshed(d, own, lists) THEN lists[Owner[d]]
                                 ELSE info[d]]
    /\ toClient' = [d \in Device |-> IF Notified(d, lists)
                                     THEN Append(toClient[d], lists[Owner[d]])
                                     ELSE toClient[d]]
    /\ UNCHANGED <<registered, byLogin>>

-----------------------------------------------------------------------------
(* Sessions *)

\* The end of CS_Registering: the account did not exist and now does.
Register(l) ==
    /\ l \notin registered
    /\ registered' = registered \cup {l}
    /\ UNCHANGED <<stored, byLogin, online, info, toServer, toClient,
                   clientVars, connects, stale>>

\* CS_Authorizing succeeds: the session takes a copy of the stored account,
\* replaces any other session of that login in ClientsByLogin, and is sent its
\* friend list.  The Friends map of the process may be one it has kept from before.
Outdated(r, e) ==
    /\ e.status # "Absent"
    /\ \/ r.publicKey /\ ~e.publicKey
       \/ r.selfKey # 0 /\ r.selfKey # e.encryptedKey

Authorize(d) ==
    LET l == Owner[d] IN
    /\ d \notin online /\ l \in registered
    /\ connects[d] < MaxConnects
    /\ connects' = [connects EXCEPT ![d] = @ + 1]
    /\ online' = online \cup {d}
    /\ byLogin' = [byLogin EXCEPT ![l] = d]
    /\ info' = [info EXCEPT ![d] = stored[l]]
    /\ toClient' = [toClient EXCEPT ![d] = <<stored[l]>>]
    /\ stale' = stale \cup ({d} \X {f \in Friend : Outdated(roster[d][f], stored[l][f])})
    /\ UNCHANGED <<registered, stored, toServer, clientVars>>

\* The connection breaks: what is in flight is lost, OnClientDisconnected drops
\* the session and, if it is the registered one, its entry of ClientsByLogin.
DropConnection(d) ==
    /\ online' = online \ {d}
    /\ byLogin' = [byLogin EXCEPT ![Owner[d]] = IF @ = d THEN NoDevice ELSE @]
    /\ toServer' = [toServer EXCEPT ![d] = <<>>]
    /\ toClient' = [toClient EXCEPT ![d] = <<>>]
    /\ info' = [info EXCEPT ![d] = NoFriends]
    /\ stale' = stale \ ({d} \X Friend)
    /\ UNCHANGED <<registered, stored, connects, keys, removes>>

\* The process keeps its Friends map and may connect again later.
Disconnect(d) ==
    /\ d \in online
    /\ DropConnection(d)
    /\ UNCHANGED roster

\* The process ends; LoadState restores the account but no friends.
Restart(d) ==
    /\ d \notin online
    /\ roster[d] # EmptyRoster
    /\ roster' = [roster EXCEPT ![d] = EmptyRoster]
    /\ UNCHANGED <<serverVars, online, toServer, toClient, keys, removes, connects, stale>>

-----------------------------------------------------------------------------
(* The user of a device *)

\* TClient::AddFriend: a new key for every call, an Unauthorized roster entry
\* if there was none.
AddFriend(d, f) ==
    /\ d \in online /\ f # Owner[d]
    /\ keys < MaxKeys
    /\ keys' = keys + 1
    /\ toServer' = [toServer EXCEPT ![d] =
                      Append(@, [type |-> "AddFriend", friend |-> f, key |-> keys'])]
    /\ roster' = IF roster[d][f].status = "Absent"
                 THEN [roster EXCEPT ![d][f] =
                         [NoRosterEntry EXCEPT !.status = "Unauthorized"]]
                 ELSE roster
    /\ UNCHANGED <<serverVars, online, toClient, removes, connects, stale>>

\* TClient::RemoveFriend, for a friend or (the "No" of application.cpp:173, however late)
\* one who asked; the roster changes only with the next SP_SyncInfo.
RemoveFriend(d, f) ==
    /\ d \in online /\ f # Owner[d]
    /\ removes < MaxRemoves
    /\ removes' = removes + 1
    /\ toServer' = [toServer EXCEPT ![d] =
                      Append(@, [type |-> "RemoveFriend", friend |-> f])]
    /\ UNCHANGED <<serverVars, online, toClient, roster, keys, connects, stale>>

-----------------------------------------------------------------------------
(* RT_AddFriend, RT_RemoveFriend and RT_SetFriendOfflineKey on the server *)

NextRequest(d, type) ==
    /\ toServer[d] # <<>>
    /\ Head(toServer[d]).type = type

PopRequest(d) == toServer' = [toServer EXCEPT ![d] = Tail(@)]

OnlyServerSteps == UNCHANGED <<online, clientVars, connects, stale>>

\* The friend has an account here: both lists change in one handler.
HandleAddLocal(d) ==
    LET r == Head(toServer[d])
        me == Owner[d]
        mine == [info[d] EXCEPT ![r.friend] = RequestedBySelf(@, r.key)]
        theirs == [stored[r.friend] EXCEPT ![me] = RequestedByFriend(@)]
    IN  /\ NextRequest(d, "AddFriend")
        /\ r.friend \in registered \ {me}
        /\ SyncClientInfo(d, [l \in {me, r.friend} |-> IF l = me THEN mine ELSE theirs])
        /\ PopRequest(d)
        /\ OnlyServerSteps

\* SendAddFriendRequest threw: the entry is erased and the rest is stored.
\* Locally that is a login without account; for a login of another host
\* SendToServer may queue the request or throw.
HandleAddFailed(d) ==
    LET r == Head(toServer[d])
        me == Owner[d]
    IN  /\ NextRequest(d, "AddFriend")
        /\ r.friend \notin registered \/ r.friend = me
        /\ SyncClientInfo(d, [l \in {me} |-> [info[d] EXCEPT ![r.friend] = NoEntry]])
        /\ PopRequest(d)
        /\ OnlyServerSteps

HandleAddRemote(d) ==
    LET r == Head(toServer[d])
        me == Owner[d]
    IN  /\ NextRequest(d, "AddFriend")
        /\ r.friend \in Remote
        /\ SyncClientInfo(d, [l \in {me} |->
                                [info[d] EXCEPT ![r.friend] = RequestedBySelf(@, r.key)]])
        /\ PopRequest(d)
        /\ OnlyServerSteps

HandleRemoveLocal(d) ==
    LET r == Head(toServer[d])
        me == Owner[d]
        mine == [info[d] EXCEPT ![r.friend] = NoEntry]
        theirs == RemovedByFriend(stored[r.friend], me)
    IN  /\ NextRequest(d, "RemoveFriend")
        /\ r.friend \in registered \ {me}
        /\ SyncClientInfo(d, [l \in {me, r.friend} |-> IF l = me THEN mine ELSE theirs])
        /\ PopRequest(d)
        /\ OnlyServerSteps

HandleRemoveRemote(d) ==
    LET r == Head(toServer[d])
        me == Owner[d]
    IN  /\ NextRequest(d, "RemoveFriend")
        /\ r.friend \in Remote
        /\ SyncClientInfo(d, [l \in {me} |-> [info[d] EXCEPT ![r.friend] = NoEntry]])
        /\ PopRequest(d)
        /\ OnlyServerSteps

\* SendRemoveFriendRequest threw after the entry was erased from the session's
\* Info: SyncClientInfo is skipped, nothing is stored and nobody is told.
HandleRemoveFailed(d) ==
    LET r == Head(toServer[d]) IN
    /\ NextRequest(d, "RemoveFriend")
    /\ r.friend \notin registered
    /\ info' = [info EXCEPT ![d][r.friend] = NoEntry]
    /\ PopRequest(d)
    /\ UNCHANGED <<registered, stored, byLogin, toClient>>
    /\ OnlyServerSteps

\* One TFriendOfflineKey of those the device sent for one SP_SyncInfo (in no
\* particular order).  The key is stored with the friend only if the friend
\* still lists this account and has no key for it yet.
KeyAccepted(me, mine, f) ==
    /\ mine[f].status # "Absent"
    /\ f \in registered /\ stored[f][me].status # "Absent"
    /\ stored[f][me].offlineKey = 0

HandleSetFriendOfflineKey(d, f) ==
    LET r == Head(toServer[d])
        me == Owner[d]
        rest == [r EXCEPT !.keys[f] = 0]
        theirs == [stored[f] EXCEPT ![me].offlineKey = r.keys[f]]
    IN  /\ NextRequest(d, "SetFriendOfflineKey")
        /\ r.keys[f] # 0
        /\ toServer' = [toServer EXCEPT ![d] =
                          IF \A g \in Friend : rest.keys[g] = 0 THEN Tail(@)
                          ELSE <<rest>> \o Tail(@)]
        /\ IF KeyAccepted(me, info[d], f)
           THEN SyncClientInfo(NoDevice, [l \in {f} |-> theirs])
           ELSE UNCHANGED <<serverVars, toClient>>
        /\ OnlyServerSteps

-----------------------------------------------------------------------------
(* SP_SyncInfo on the client *)

\* "public keys missmatch", thrown out of OnPacketReceived.
Mismatch(r, e) ==
    /\ r.status # "Absent" /\ e.status # "Absent"
    /\ \/ r.publicKey /\ ~e.publicKey
       \/ r.selfKey # 0 /\ e.encryptedKey # 0 /\ r.selfKey # e.encryptedKey

SyncedStatus(new) ==
    CASE new = "Absent"               -> "Absent"
      [] new = "WaitingAuthorization" -> "AddRequest"
      [] new = "UnAuthorized"         -> "Unauthorized"
      [] new = "Authorized"           -> "Friend"

\* Mutant: a friend who is missing from the packet is kept.
Synced_NoDelete(r, e) ==
    IF e.status = "Absent" THEN r
    ELSE [status |-> SyncedStatus(e.status),
          publicKey |-> r.publicKey \/ e.publicKey,
          selfKey |-> IF r.selfKey = 0 THEN e.encryptedKey ELSE r.selfKey,
          friendKey |-> IF r.friendKey = 0 THEN e.offlineKey ELSE r.friendKey]

\* One friend of the packet e merged into the roster entry r.
Synced(r, e) ==
    IF e.status = "Absent" THEN NoRosterEntry
    ELSE LET status == SyncedStatus(e.status)
             friendKey == IF r.friendKey = 0 /\ status = "Friend" THEN e.offlineKey
                          ELSE r.friendKey
         IN  [status |-> status,
              publicKey |-> r.publicKey \/ e.publicKey,
              selfKey |-> IF r.selfKey = 0 THEN e.encryptedKey ELSE r.selfKey,
              friendKey |-> friendKey]

ReceiveSyncInfo(d) ==
    LET packet == Head(toClient[d])
        synced == [f \in Friend |-> Synced(roster[d][f], packet[f])]
        wanted == [f \in Friend |-> IF packet[f].needOfflineKey THEN synced[f].selfKey ELSE 0]
    IN  /\ toClient[d] # <<>>
        /\ \A f \in Friend : ~Mismatch(roster[d][f], packet[f])
        /\ roster' = [roster EXCEPT ![d] = synced]
        /\ toClient' = [toClient EXCEPT ![d] = Tail(@)]
        /\ toServer' = IF \E f \in Friend : wanted[f] # 0
                       THEN [toServer EXCEPT ![d] =
                               Append(@, [type |-> "SetFriendOfflineKey", keys |-> wanted])]
                       ELSE toServer
        /\ UNCHANGED <<serverVars, online, keys, removes, connects, stale>>

\* Nobody catches the exception on the event thread: the process ends.
DieOfMismatch(d) ==
    /\ toClient[d] # <<>>
    /\ \E f \in Friend : Mismatch(roster[d][f], Head(toClient[d])[f])
    /\ DropConnection(d)
    /\ roster' = [roster EXCEPT ![d] = EmptyRoster]

-----------------------------------------------------------------------------

Init ==
    /\ registered = {}
    /\ stored = [l \in Login |-> NoFriends]
    /\ byLogin = [l \in Login |-> NoDevice]
    /\ online = {}
    /\ info = [d \in Device |-> NoFriends]
    /\ toServer = [d \in Device |-> <<>>]
    /\ toClient = [d \in Device |-> <<>>]
    /\ roster = [d \in Device |-> EmptyRoster]
    /\ keys = 0 /\ removes = 0 /\ connects = [d \in Device |-> 0]
    /\ stale = {}

HandleRequest(d) ==
    \/ HandleAddLocal(d)
    \/ HandleAddFailed(d)
    \/ HandleAddRemote(d)
    \/ HandleRemoveLocal(d)
    \/ HandleRemoveRemote(d)
    \/ HandleRemoveFailed(d)
    \/ \E f \in Friend : HandleSetFriendOfflineKey(d, f)

Next ==
    \/ \E l \in Login : Register(l)
    \/ \E d \in Device :
         \/ Authorize(d)
         \/ Disconnect(d)
         \/ Restart(d)
         \/ \E f \in Friend : AddFriend(d, f) \/ RemoveFriend(d, f)
         \/ HandleRequest(d)
         \/ ReceiveSyncInfo(d)
         \/ DieOfMismatch(d)

Spec == Init /\ [][Next]_vars

\* The threads of the server and of a connected client keep processing what has
\* arrived.  Nothing is assumed of users, nor that a connection lasts or returns.
Fairness == \A d \in Device : WF_vars(HandleRequest(d)) /\ WF_vars(ReceiveSyncInfo(d))

FairSpec == Spec /\ Fairness

-----------------------------------------------------------------------------
(* Properties *)

\* Every variable holds values of its type.
TypeOK ==
    /\ registered \subseteq Login
    /\ stored \in [Login -> FriendList]
    /\ byLogin \in [Login -> Device \cup {NoDevice}]
    /\ online \subseteq Device
    /\ info \in [Device -> FriendList]
    /\ toServer \in [Device -> Seq(Request)]
    /\ toClient \in [Device -> Seq(FriendList)]
    /\ roster \in [Device -> [Friend -> RosterEntry]]
    /\ keys \in Nat /\ removes \in Nat /\ connects \in [Device -> Nat]
    /\ stale \subseteq Device \X Friend

\* The keys an entry must have in its status.
KeysOf(e) ==
    /\ e.status \in {"WaitingAuthorization", "Authorized"} <=> e.publicKey
    /\ e.status \in {"UnAuthorized", "Authorized"} <=> e.encryptedKey # 0
    /\ e.needOfflineKey => e.status = "Authorized"

\* An authorized friend has a public key ("friend has no public key",
\* server.cpp:320; "no public key for friend", client.cpp:365 and friend.cpp:203)
\* and our own key for him, also when a key is asked for ("missing friend public
\* key", "missing self offline key for friend", client.cpp:384): in the storage, in
\* every session, even one another device has superseded, and in every packet
\* under way.
KeysPresent ==
    /\ \A l \in Login, f \in Friend : KeysOf(stored[l][f])
    /\ \A d \in Device, f \in Friend :
         /\ KeysOf(info[d][f])
         /\ \A i \in 1..Len(toClient[d]) : KeysOf(toClient[d][i][f])

\* The status the other side of a friendship must have.
Counterpart(status) ==
    CASE status = "Absent"               -> "Absent"
      [] status = "UnAuthorized"         -> "WaitingAuthorization"
      [] status = "WaitingAuthorization" -> "UnAuthorized"
      [] status = "Authorized"           -> "Authorized"

\* The two stored halves of a friendship always agree: a request is waiting with
\* the one who was asked, an authorization or a removal is on both sides.
FriendshipMutual ==
    \A a, b \in Login : a # b => stored[b][a].status = Counterpart(stored[a][b].status)

\* The friends of the registered session are those of the storage, so that no
\* request works on a stale copy (of the logins of this server: a failed
\* RT_RemoveFriend of a login of another host does leave the two apart).
SessionInfoCurrent ==
    \A d \in Device : byLogin[Owner[d]] = d =>
        \A f \in Login : [info[d][f] EXCEPT !.needOfflineKey = FALSE] = stored[Owner[d]][f]

\* When nothing is under way to or from the registered device of an account, its
\* roster shows the friends that are stored, with our key for each one it has asked and
\* the key of each authorized one for offline messages (none, if none is stored yet):
\* neither is left over from a friendship that has ended, also in a roster that was kept
\* from an earlier connection.
RosterSynced ==
    \A d \in Device :
        byLogin[Owner[d]] = d /\ toServer[d] = <<>> /\ toClient[d] = <<>> =>
            \A f \in Login :
                LET e == stored[Owner[d]][f]
                    r == roster[d][f]
                IN  /\ r.status = SyncedStatus(e.status)
                    /\ e.encryptedKey # 0 => r.selfKey = e.encryptedKey
                    /\ e.status = "Authorized" => r.friendKey = e.offlineKey

\* The offline key of a friend, once stored, is not replaced or lost while the
\* friend stays in the list ("trying to set not-empty offline key", server.cpp:594).
OfflineKeyStable ==
    [][\A l \in Login, f \in Friend :
         stored[l][f].offlineKey # 0 /\ stored'[l][f].status # "Absent" =>
             stored'[l][f].offlineKey = stored[l][f].offlineKey]_vars

\* A client meets "public keys missmatch" (client.cpp:328, 337) for a friend of this host
\* only where the roster it kept from an earlier connection was outdated when it was
\* authorized: of all that is removed and asked again while it is connected, nothing makes
\* a packet contradict what it knows.  (For a friend of another host it may: nobody is
\* told of a removal that failed.)
NoMismatch ==
    \A d \in Device : toClient[d] # <<>> =>
        \A f \in Login : Mismatch(roster[d][f], Head(toClient[d])[f]) => <<d, f>> \in stale

\* Friendship, as the server has stored it: one who has asked is UnAuthorized or, when
\* both have, Authorized.
Pair == {p \in Login \X Login : p[1] # p[2]}
Asked == {p \in Pair : stored[p[1]][p[2]].status \in {"UnAuthorized", "Authorized"}}
Friends == {p \in Pair : stored[p[1]][p[2]].status = "Authorized"}

Abstract == INSTANCE Friendship WITH asked <- Asked, friends <- Friends

\* Crossing requests, repeated ones, removals, failures and lost connections only ever
\* change the stored lists as Friendship allows, in both halves at once.
ImplementsFriendship == Abstract!Spec

\* When two users have authorized each other and stay connected, each receives the
\* other's key for offline messages.
KeysEventuallyExchanged ==
    \A a, b \in Device : Owner[a] # Owner[b] =>
        (stored[Owner[a]][Owner[b]].status = "Authorized" /\ {a, b} \subseteq online)
            ~> (roster[a][Owner[b]].friendKey # 0 \/ ~({a, b} \subseteq online))
=============================================================================
