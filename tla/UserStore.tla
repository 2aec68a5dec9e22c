----------------------------- MODULE UserStore -----------------------------
(***************************************************************************)
(* useUserStore, the browser's copy of the users and their PINs, and the   *)
(* handlers of /api/users that answer it.                                  *)
(*                                                                         *)
(* Of the store only what the page reads is kept: policies, isLoading and  *)
(* error are written and never shown.  fetchCredentials, fetchPolicies,    *)
(* updateUser and selectUser have no caller in a component, so that        *)
(* a PIN is listed only if it was set since the page was loaded.  Saving a *)
(* policy changes nothing on the server: a new policy comes without an id, *)
(* is given a random one and is then updated, which finds no row.          *)
(***************************************************************************)
EXTENDS ApiClient, Integers, SequencesExt

CONSTANTS
    User,       \* the users, those still to be created included
    Pin,        \* PIN credentials, those still to be created included
    NoUser,
    Policy      \* what may be saved as a policy

ASSUME UserAssumption == IsFiniteSet(User)
ASSUME DistinctAssumption == NoUser \notin User /\ User \cap Pin = {}

VARIABLES
    members,        \* the table Users
    owner,          \* [Pin -> User, or NoUser]: the table Credentials
    unborn,         \* users and PINs that have never existed
    users,          \* [User -> entries of the store's list]; a card for each
    credentials     \* [User -> PINs]; at most one is ever listed, no entry counts as none

server == <<members, owner, unborn>>
store == <<users, credentials>>

----------------------------------------------------------------------------
(* The server *)

\* GET /api/users; what a user has comes with it and is not looked at.
ServeUsers(r) ==
    /\ Asks(r, "users", "sent")
    /\ Ok(r, SetToSeq(members))
    /\ UNCHANGED server

\* POST /api/users
ServeCreateUser(r) ==
    /\ Asks(r, "createUser", "sent")
    /\ \E u \in unborn \cap User :
        /\ members' = members \cup {u}
        /\ unborn' = unborn \ {u}
        /\ Ok(r, <<u>>)
    /\ UNCHANGED owner

\* The credentials of a user go with the user.
RemoveUser(u) ==
    /\ members' = members \ {u}
    /\ owner' = [c \in Pin |-> IF owner[c] = u THEN NoUser ELSE owner[c]]

\* DELETE /api/users/{id}
ServeDeleteUser(r) ==
    /\ Asks(r, "deleteUser", "sent")
    /\ IF wire[r].to \in members
         THEN RemoveUser(wire[r].to) /\ Ok(r, <<>>)
         ELSE UNCHANGED <<members, owner>> /\ Refuse(r)
    /\ UNCHANGED unborn

\* POST /api/users/{id}/credentials/pin adds one, whatever the user has.
ServeSetPin(r) ==
    /\ Asks(r, "setPin", "sent")
    /\ \/ /\ wire[r].to \notin members
          /\ Refuse(r)
          /\ UNCHANGED server
       \/ /\ wire[r].to \in members
          /\ \E c \in unborn \cap Pin :
                /\ owner' = [owner EXCEPT ![c] = wire[r].to]
                /\ unborn' = unborn \ {c}
                /\ Ok(r, <<c>>)
          /\ UNCHANGED members

\* DELETE /api/users/{id}/credentials/{credentialId}: 204, also when there is none.
ServeDeletePin(r) ==
    /\ Asks(r, "deletePin", "sent")
    /\ owner' = [owner EXCEPT ![wire[r].body] = NoUser]
    /\ Ok(r, <<>>)
    /\ UNCHANGED <<members, unborn>>

\* POST /api/users/{id}/policies
ServePolicy(r) ==
    /\ Asks(r, "policy", "sent")
    /\ IF wire[r].to \in members THEN Ok(r, <<>>) ELSE Refuse(r)
    /\ UNCHANGED server

----------------------------------------------------------------------------
(* The store, after the await of each of its calls *)

Shown == {u \in User : users[u] > 0}

fetchUsersEnds(r) ==
    /\ Resolved(r, "users")
    /\ users' = [u \in User |-> IF u \in ToSet(wire[r].answer) THEN 1 ELSE 0]
    /\ UNCHANGED credentials

\* The new user is appended, also when a list that came first has it already.
createUserEnds(r) ==
    /\ Resolved(r, "createUser")
    /\ users' = [u \in User |-> IF u \in ToSet(wire[r].answer) THEN users[u] + 1 ELSE users[u]]
    /\ UNCHANGED credentials

\* Mutated: the card of a deleted user stays.
deleteUserEnds_KeepsCard(r) ==
    /\ Resolved(r, "deleteUser")
    /\ credentials' = [credentials EXCEPT ![wire[r].to] = {}]
    /\ UNCHANGED users

deleteUserEnds(r) ==
    /\ Resolved(r, "deleteUser")
    /\ users' = [users EXCEPT ![wire[r].to] = 0]
    /\ credentials' = [credentials EXCEPT ![wire[r].to] = {}]

\* The PINs that were listed give way to the new one.  The request goes on with the
\* policy: savePolicy is called in the same turn.
setPinEnds(r) ==
    /\ Asks(r, "setPin", "answered")
    /\ credentials' = [credentials EXCEPT ![wire[r].to] = ToSet(wire[r].answer)]
    /\ Becomes(r, Call("policy", wire[r].to, wire[r].body))
    /\ UNCHANGED users

savePolicyEnds(r) == Resolved(r, "policy") /\ UNCHANGED store

deletePinEnds(r) ==
    /\ Resolved(r, "deletePin")
    /\ credentials' = [credentials EXCEPT ![wire[r].to] = @ \ {wire[r].body}]
    /\ UNCHANGED users

\* A call throws: the store keeps what it has.
Throws(r, kind) == Rejected(r, kind) /\ UNCHANGED store
=============================================================================
