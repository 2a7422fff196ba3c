---------------------------- MODULE Subscriptions ----------------------------
(***************************************************************************)
(* catalog.gateway.ts and avatar.gateway.ts: the sockets of a namespace,   *)
(* the users they belong to, the rooms they are in and the books the       *)
(* gateways keep of them.  A handler runs to its end without an await.     *)
(***************************************************************************)
EXTENDS Naturals, FiniteSets

CONSTANTS
    Sockets,      \* socket ids; a connection takes one that is not in use
    Namespace,    \* Namespace[s]: "catalog" or "avatar"
    Members,      \* users; who gives none is "anonymous"
    Categories,   \* of catalog items
    Topics,       \* ids of catalog items and of avatars
    MaxEvents     \* bound on the handlers that run

VARIABLES
    user,          \* client.data.userId of the open sockets
    rooms,         \* pairs <<socket, room>>
    userSockets,   \* per namespace: for each user there are sockets of, their ids
    categorySubscriptions,
    received,      \* received[s]: copies of the last announcement
    events

subscriptionVars == <<user, rooms, userSockets, categorySubscriptions, received, events>>

-----------------------------------------------------------------------------
Open == DOMAIN user
Rooms ==
    [catalog |-> {<<"catalog", "updates:all">>, <<"catalog", "trending">>} \cup
                 ({"catalog:category"} \X Categories) \cup ({"catalog:item"} \X Topics),
     avatar |-> {"avatar"} \X Topics]
NobodyYet == [u \in {} |-> {}]

TypeOK ==
    /\ Open \subseteq Sockets /\ \A s \in Open : user[s] \in Members \cup {"anonymous"}
    /\ rooms \subseteq Sockets \X (Rooms.catalog \cup Rooms.avatar)
    /\ \A n \in {"catalog", "avatar"} : \A u \in DOMAIN userSockets[n] : userSockets[n][u] \subseteq Sockets
    /\ DOMAIN categorySubscriptions \subseteq Categories
    /\ \A s \in Sockets : received[s] \in 0..3
    /\ events \in 0..MaxEvents

Init ==
    /\ user = [s \in {} |-> "anonymous"] /\ rooms = {}
    /\ userSockets = [n \in {"catalog", "avatar"} |-> NobodyYet]
    /\ categorySubscriptions = [c \in {} |-> {}]
    /\ received = [s \in Sockets |-> 0] /\ events = 0

Handles == events < MaxEvents /\ events' = events + 1

(* A map of sets: an id is added to the set of a key, or taken out of it,  *)
(* and a set that has become empty is dropped.                             *)
Added(map, key, id) ==
    [k \in DOMAIN map \cup {key} |-> (IF k \in DOMAIN map THEN map[k] ELSE {}) \cup (IF k = key THEN {id} ELSE {})]
Removed(map, keys, id) ==
    [k \in {j \in DOMAIN map : j \notin keys \/ map[j] \ {id} # {}} |->
        IF k \in keys THEN map[k] \ {id} ELSE map[k]]

-----------------------------------------------------------------------------
(* handleConnection.  The avatar's gateway disconnects a client without a   *)
(* token before it is in any book, the catalog's lets it browse.           *)
HandleConnection(s) ==
    /\ s \notin Open /\ Handles
    /\ \E u \in Members \cup {"anonymous"} :
         /\ user' = [t \in Open \cup {s} |-> IF t = s THEN u ELSE user[t]]
         /\ userSockets' = [userSockets EXCEPT ![Namespace[s]] = Added(@, u, s)]
    /\ received' = [received EXCEPT ![s] = 0]
    /\ UNCHANGED <<rooms, categorySubscriptions>>

(* Mutant: the books of the categories are not looked at.                  *)
DisconnectFromUser(s) ==
    /\ s \in Open /\ Handles
    /\ user' = [t \in Open \ {s} |-> user[t]]
    /\ rooms' = {r \in rooms : r[1] # s}
    /\ userSockets' = [userSockets EXCEPT ![Namespace[s]] = Removed(@, {user[s]}, s)]
    /\ UNCHANGED <<categorySubscriptions, received>>

(* The socket has left its rooms when handleDisconnect runs.               *)
HandleDisconnect(s) ==
    /\ s \in Open /\ Handles
    /\ user' = [t \in Open \ {s} |-> user[t]]
    /\ rooms' = {r \in rooms : r[1] # s}
    /\ userSockets' = [userSockets EXCEPT ![Namespace[s]] = Removed(@, {user[s]}, s)]
    /\ categorySubscriptions' = Removed(categorySubscriptions, DOMAIN categorySubscriptions, s)
    /\ UNCHANGED received

Join(s, room) ==
    /\ s \in Open /\ Handles
    /\ rooms' = rooms \cup {<<s, room>>}
    /\ UNCHANGED <<user, userSockets, received>>

HandleSubscribeAll(s) ==
    Namespace[s] = "catalog" /\ Join(s, <<"catalog", "updates:all">>) /\ UNCHANGED categorySubscriptions
HandleSubscribeTrending(s) ==
    Namespace[s] = "catalog" /\ Join(s, <<"catalog", "trending">>) /\ UNCHANGED categorySubscriptions
HandleSubscribeItem(s) ==
    /\ Namespace[s] = "catalog" /\ \E i \in Topics : Join(s, <<"catalog:item", i>>)
    /\ UNCHANGED categorySubscriptions
HandleSubscribeCategory(s) ==
    /\ Namespace[s] = "catalog"
    /\ \E c \in Categories :
         /\ Join(s, <<"catalog:category", c>>)
         /\ categorySubscriptions' = Added(categorySubscriptions, c, s)
HandleSubscribe(s) ==
    /\ Namespace[s] = "avatar" /\ \E a \in Topics : Join(s, <<"avatar", a>>)
    /\ UNCHANGED categorySubscriptions

(* leave(data.channel), and no book is corrected.  The channel that a      *)
(* subscription was answered with is not the name of its room: a client    *)
(* that sends it back leaves nothing.                                      *)
Answered == [catalog |-> {"category"} \X Categories, avatar |-> {}]
HandleUnsubscribe(s) ==
    /\ s \in Open /\ Handles
    /\ \E room \in Rooms[Namespace[s]] \cup Answered[Namespace[s]] : rooms' = rooms \ {<<s, room>>}
    /\ UNCHANGED <<user, userSockets, categorySubscriptions, received>>

-----------------------------------------------------------------------------
(* An announcement to rooms reaches a socket once for every room it is in. *)
Announce(to) ==
    /\ received' = [s \in Sockets |-> Cardinality({r \in to : <<s, r>> \in rooms})]
    /\ Handles
    /\ UNCHANGED <<user, rooms, userSockets, categorySubscriptions>>

NotifyItemCreated == \E c \in Categories : Announce({<<"catalog", "updates:all">>, <<"catalog:category", c>>})
NotifyItemUpdated ==
    \E c \in Categories, i \in Topics :
        Announce({<<"catalog", "updates:all">>, <<"catalog:item", i>>, <<"catalog:category", c>>})
NotifyItemDeleted ==
    \E i \in Topics : \E c \in {{}} \cup {{<<"catalog:category", x>>} : x \in Categories} :
        Announce({<<"catalog", "updates:all">>, <<"catalog:item", i>>} \cup c)
NotifyTrending == Announce({<<"catalog", "trending">>})
EmitProcessing == \E a \in Topics : Announce({<<"avatar", a>>})

(* notifyCollectionUpdated and notifySearchIndexUpdated.                   *)
NotifyAll ==
    /\ received' = [s \in Sockets |-> IF s \in Open /\ Namespace[s] = "catalog" THEN 1 ELSE 0]
    /\ Handles
    /\ UNCHANGED <<user, rooms, userSockets, categorySubscriptions>>

(* An announcement to a user goes to the sockets the book has of them.     *)
Known(n, u) == IF u \in DOMAIN userSockets[n] THEN userSockets[n][u] \cap Open ELSE {}
NotifyUserRecommendation ==
    /\ Handles
    /\ \E u \in Members : received' = [s \in Sockets |-> IF s \in Known("catalog", u) THEN 1 ELSE 0]
    /\ UNCHANGED <<user, rooms, userSockets, categorySubscriptions>>

(* The end of a processing is announced to the avatar's room and to its    *)
(* owner: a socket of theirs in the room hears of it twice.                *)
HandleProcessingSettled ==
    /\ Handles
    /\ \E u \in Members, a \in Topics :
         received' = [s \in Sockets |->
             Cardinality({r \in {<<"avatar", a>>} : <<s, r>> \in rooms}) +
             (IF s \in Known("avatar", u) THEN 1 ELSE 0)]
    /\ UNCHANGED <<user, rooms, userSockets, categorySubscriptions>>

-----------------------------------------------------------------------------
Next ==
    \/ \E s \in Sockets :
        \/ HandleConnection(s) \/ HandleDisconnect(s) \/ HandleSubscribeAll(s)
        \/ HandleSubscribeTrending(s) \/ HandleSubscribeItem(s) \/ HandleSubscribeCategory(s)
        \/ HandleSubscribe(s) \/ HandleUnsubscribe(s)
    \/ NotifyItemCreated \/ NotifyItemUpdated \/ NotifyItemDeleted \/ NotifyTrending \/ NotifyAll
    \/ NotifyUserRecommendation \/ EmitProcessing \/ HandleProcessingSettled

Spec == Init /\ [][Next]_subscriptionVars

-----------------------------------------------------------------------------
(* In whatever order sockets connect, subscribe and close, the books are   *)
(* those of the open sockets: a user's entry has exactly their sockets and *)
(* is not empty, who is in a category's room is in its book, and a socket  *)
(* that has closed is in no book and in no room.                           *)
NoGhosts ==
    /\ \A n \in {"catalog", "avatar"} : \A u \in Members \cup {"anonymous"} :
         LET theirs == {s \in Open : Namespace[s] = n /\ user[s] = u}
         IN  IF theirs = {} THEN u \notin DOMAIN userSockets[n]
             ELSE u \in DOMAIN userSockets[n] /\ userSockets[n][u] = theirs
    /\ \A r \in rooms : r[1] \in Open
    /\ \A c \in DOMAIN categorySubscriptions :
         categorySubscriptions[c] # {} /\ categorySubscriptions[c] \subseteq Open
    /\ \A s \in Open, c \in Categories :
         <<s, <<"catalog:category", c>>>> \in rooms =>
             c \in DOMAIN categorySubscriptions /\ s \in categorySubscriptions[c]
=============================================================================
