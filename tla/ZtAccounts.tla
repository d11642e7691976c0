----------------------------- MODULE ZtAccounts -----------------------------
(***************************************************************************)
(* Registration and login: http_join and http_login (zt_http.c) over the   *)
(* Redis commands of zt_redis.c.  A server process handles one request at  *)
(* a time; each Redis command is one step, so several processes (a rolling *)
(* update of the Deployment) interleave between commands, and a crash can  *)
(* fall between any two.  The name and the creation time of a user decide  *)
(* nothing and are left out.                                               *)
(***************************************************************************)
EXTENDS ZtHandler

CONSTANTS Users, Mdns, Passwords

Account == [pwd : Passwords, mdn : Mdns]

ASSUME NoneAssumption == None \notin Users \cup Mdns \cup Account

VARIABLES
    users,      \* hash user:<id>: the record of each user id, or None
    mdns,       \* string mdn:<mdn>: the user id each mdn is indexed to, or None
    accepted    \* history: the joins answered with SUCCESS since Redis started

vars == <<users, mdns, link, pc, req, rsp, accepted>>

NoUsers == [u \in Users |-> None]
NoMdns  == [m \in Mdns |-> None]

JoinRequest == [user : Users, pwd : Passwords, mdn : Mdns]
\* http_login binds only the user id and the password.
LoginRequest == [user : Users, pwd : Passwords, mdn : {None}]

Step == {"idle", "user_exists", "mdn_exists", "user_save", "mdn_save", "user_get"}

Answer == {"none", "SUCCESS", "METHOD_NOT_ALLOWED", "INVALID_PARAMS", "SERVER_ERROR",
           "USER_ALREADY_EXISTS", "MDN_ALREADY_EXISTS", "USER_NOT_FOUND",
           "WRONG_PASSWORD"}

\* The record that HSET writes for a join request.
RecordOfSwapped(r) == [pwd |-> r.mdn, mdn |-> r.pwd]
RecordOf(r) == [pwd |-> r.pwd, mdn |-> r.mdn]

Init ==
    /\ users = NoUsers
    /\ mdns = NoMdns
    /\ accepted = {}
    /\ HandlerInit

-----------------------------------------------------------------------------
Refuse(s) == RefuseRequest(s) /\ UNCHANGED <<users, mdns, accepted>>

Restart(s) == RestartProcess(s) /\ UNCHANGED <<users, mdns, accepted>>

-----------------------------------------------------------------------------
\* POST /join

JoinReceive(s) == /\ \E r \in JoinRequest : Receive(s, r, "user_exists")
                  /\ UNCHANGED <<users, mdns, accepted>>

\* The two checks before a save: is the key there already?  (The names that end
\* in Unchecked, Swapped and the like are faulty variants, used by no action.)
UserTakenUnchecked(r) == FALSE
UserTaken(r) == users[r.user] # None

MdnTakenUnchecked(r) == FALSE
MdnTaken(r) == mdns[r.mdn] # None

UserExists(s) ==
    /\ pc[s] = "user_exists"
    /\ ExistsKey(s, UserTaken(req[s]), Reply(s, "USER_ALREADY_EXISTS"),
                 GoTo(s, "mdn_exists"), Reply(s, "SERVER_ERROR"))
    /\ UNCHANGED <<users, mdns, accepted>>

MdnExists(s) ==
    /\ pc[s] = "mdn_exists"
    /\ ExistsKey(s, MdnTaken(req[s]), Reply(s, "MDN_ALREADY_EXISTS"),
                 GoTo(s, "user_save"), Reply(s, "SERVER_ERROR"))
    /\ UNCHANGED <<users, mdns, accepted>>

\* Whether redis_user_save goes on to its second command.
SaveGoesOnUnchecked(outcome) == TRUE
SaveGoesOn(outcome) == outcome = "reply"

\* redis_user_save, first command: HSET user:<id>.
UserSave(s) ==
    /\ pc[s] = "user_save"
    /\ \E o \in Outcomes(link[s]) :
        /\ users' = IF Executed(o) THEN [users EXCEPT ![req[s].user] = RecordOf(req[s])]
                                   ELSE users
        /\ link' = [link EXCEPT ![s] = LinkAfter(o)]
        /\ IF SaveGoesOn(o) THEN GoTo(s, "mdn_save") ELSE Reply(s, "SERVER_ERROR")
    /\ UNCHANGED <<mdns, accepted>>

\* redis_user_save, second command: SET mdn:<mdn>.
MdnSave(s) ==
    /\ pc[s] = "mdn_save"
    /\ \E o \in Outcomes(link[s]) :
        /\ mdns' = IF Executed(o) THEN [mdns EXCEPT ![req[s].mdn] = req[s].user]
                                  ELSE mdns
        /\ link' = [link EXCEPT ![s] = LinkAfter(o)]
        /\ Reply(s, IF o = "reply" THEN "SUCCESS" ELSE "SERVER_ERROR")
        /\ accepted' = IF o = "reply" THEN accepted \cup {req[s]} ELSE accepted
    /\ UNCHANGED users

-----------------------------------------------------------------------------
\* POST /login

LoginReceive(s) == /\ \E r \in LoginRequest : Receive(s, r, "user_get")
                   /\ UNCHANGED <<users, mdns, accepted>>

\* redis_user_get, then strcmp: every failure of the lookup is "not found".
UserGet(s) ==
    /\ pc[s] = "user_get"
    /\ \E o \in Outcomes(link[s]) :
        /\ link' = [link EXCEPT ![s] = LinkAfter(o)]
        /\ LET stored == users[req[s].user] IN
           Reply(s, IF o # "reply" \/ stored = None THEN "USER_NOT_FOUND"
                    ELSE IF stored.pwd # req[s].pwd THEN "WRONG_PASSWORD"
                    ELSE "SUCCESS")
    /\ UNCHANGED <<users, mdns, accepted>>

-----------------------------------------------------------------------------
\* Redis restarts.  Its Pod has no volume: the data is gone, and every
\* connection with it.
RedisRestart ==
    /\ users' = NoUsers
    /\ mdns' = NoMdns
    /\ accepted' = {}
    /\ DropLinks

ServerStep(s) == \/ JoinReceive(s) \/ LoginReceive(s) \/ Refuse(s)
                 \/ UserExists(s) \/ MdnExists(s) \/ UserSave(s) \/ MdnSave(s)
                 \/ UserGet(s) \/ Restart(s)

Next == (\E s \in Servers : ServerStep(s)) \/ RedisRestart

Spec == Init /\ [][Next]_vars

-----------------------------------------------------------------------------
\* Properties.

\* Every variable has its type (zt_redis.c, zt_http.c: keys, replies, handlers).
TypeOK ==
    /\ users \in [Users -> Account \cup {None}]
    /\ mdns \in [Mdns -> Users \cup {None}]
    /\ link \in [Servers -> LinkState]
    /\ pc \in [Servers -> Step]
    /\ req \in [Servers -> JoinRequest \cup LoginRequest \cup {None}]
    /\ rsp \in [Servers -> Answer]
    /\ accepted \subseteq JoinRequest

\* The mdn index never names a user without a record, whatever fails and however
\* many servers write: HSET comes before SET, and a server whose Redis lost the
\* data has lost its connection too (redis_user_save).
IndexPointsToUser == \A m \in Mdns : mdns[m] # None => users[mdns[m]] # None

\* However many servers write, a join answered SUCCESS leaves its user id and its
\* mdn taken, so that a later join of either is refused (http_join).
AcceptedTaken == \A r \in accepted : users[r.user] # None /\ mdns[r.mdn] # None

\* With one server the index is exact: the user an mdn names has that mdn
\* (http_join checks before it saves).
IndexSound ==
    \A m \in Mdns : mdns[m] # None => /\ users[mdns[m]] # None
                                      /\ users[mdns[m]].mdn = m

\* With one server, a join that was answered SUCCESS is stored whole and stays
\* as it was sent: no later join, retry or failure overwrites it (http_join).
AcceptedIntact ==
    \A r \in accepted : /\ users[r.user] = RecordOf(r)
                        /\ mdns[r.mdn] = r.user

\* A record whose mdn is not indexed to it, and that no server is about to index.
HalfSaved(u) ==
    /\ users[u] # None
    /\ mdns[users[u].mdn] # u
    /\ \A s \in Servers : ~(pc[s] = "mdn_save" /\ req[s].user = u)

\* With one server a half-saved user stays half-saved until Redis loses its data:
\* every retry of the join is turned away with 409, so it cannot complete what a
\* failure between HSET and SET left behind (http_join, redis_user_save).
HalfSavedStays ==
    [][\A u \in Users : HalfSaved(u) => HalfSaved(u)' \/ users' = NoUsers]_vars

\* With one server a stored record is never changed, only lost with all others
\* (http_join refuses an existing user id).
RecordsImmutable ==
    [][\A u \in Users : users[u] # None => users'[u] = users[u] \/ users' = NoUsers]_vars

\* With one server, registration is atomic on the accounts that are both saved
\* and indexed: every run of the handlers, with its failures, crashes and
\* retries, is a run of ZtRegistration.
CompleteAccounts ==
    [u \in Users |-> IF users[u] # None /\ mdns[users[u].mdn] = u THEN users[u] ELSE None]

Registration == INSTANCE ZtRegistration WITH accounts <- CompleteAccounts

RegistrationSpec == Registration!Spec

\* README.md:26: user_id and mdn must be unique per user.
MdnUnique ==
    \A u, v \in Users : users[u] # None /\ users[v] # None /\ u # v
                        => users[u].mdn # users[v].mdn

\* README.md:22: a join is refused when the same user_id already exists, so no two
\* joins of one user id are both answered SUCCESS.
UserIdAcceptedOnce ==
    \A r1, r2 \in accepted : r1.user = r2.user => r1 = r2
=============================================================================
