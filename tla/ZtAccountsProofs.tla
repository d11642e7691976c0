-------------------------- MODULE ZtAccountsProofs --------------------------
(***************************************************************************)
(* Proofs about ZtAccounts, for every set of servers, users, mdns and      *)
(* passwords.  Two inductive invariants:                                   *)
(*                                                                         *)
(*   SharedInv  holds however many servers share the Redis;                *)
(*   SoloInv    holds when there is one server.  It records what each      *)
(*              check of http_join has established by the time the handler *)
(*              reaches a later command, which is what the other           *)
(*              properties of a single server follow from.                 *)
(***************************************************************************)
EXTENDS ZtAccounts, TLAPS

JoinSteps == {"user_exists", "mdn_exists", "user_save", "mdn_save"}

ReqTyped ==
    \A s \in Servers : /\ pc[s] \in JoinSteps => req[s] \in JoinRequest
                       /\ pc[s] = "user_get" => req[s] \in LoginRequest

\* A handler between HSET and SET has its user stored, or has lost its Redis.
SaveInv ==
    \A s \in Servers :
        pc[s] = "mdn_save" => users[req[s].user] # None \/ link[s] = "down"

SharedInv == /\ TypeOK
             /\ ReqTyped
             /\ SaveInv
             /\ IndexPointsToUser
             /\ AcceptedTaken

\* What the handler of a single server knows at each command of a join.
ChecksHold ==
    \A s \in Servers :
        /\ pc[s] \in {"mdn_exists", "user_save"} => users[req[s].user] = None
        /\ pc[s] \in {"user_save", "mdn_save"} => mdns[req[s].mdn] = None
        /\ pc[s] = "mdn_save" => \/ users[req[s].user] = RecordOf(req[s])
                                 \/ users[req[s].user] = None /\ link[s] = "down"

SoloInv == /\ TypeOK
           /\ ReqTyped
           /\ ChecksHold
           /\ IndexSound
           /\ AcceptedIntact

-----------------------------------------------------------------------------
\* A command changes Redis only over a connection that is up, and answers only
\* when it was executed.
LEMMA OutcomeFacts ==
    ASSUME NEW l \in LinkState, NEW o \in Outcomes(l)
    PROVE  /\ LinkAfter(o) \in LinkState
           /\ Executed(o) => l = "up"
           /\ o = "reply" => Executed(o)
           /\ l = "down" => LinkAfter(o) = "down"
BY FailuresAssumption DEF LinkState, Outcomes, LinkAfter, Executed

LEMMA RecordFacts ==
    ASSUME NEW r \in JoinRequest
    PROVE  /\ RecordOf(r) \in Account
           /\ RecordOf(r) # None
           /\ RecordOf(r).mdn = r.mdn
           /\ r.user \in Users /\ r.user # None
           /\ r.mdn \in Mdns
BY NoneAssumption DEF RecordOf, JoinRequest, Account

LEMMA InitShared == Init => SharedInv
BY NoneAssumption DEF Init, HandlerInit, SharedInv, TypeOK, ReqTyped, SaveInv, IndexPointsToUser,
   AcceptedTaken, NoUsers, NoMdns, Step, Answer, JoinSteps, LinkState

-----------------------------------------------------------------------------
\* The type invariant is preserved by every step.
LEMMA TypeStep ==
    ASSUME TypeOK, ReqTyped, [Next]_vars
    PROVE  TypeOK' /\ ReqTyped'
<1> USE DEF TypeOK, ReqTyped, JoinSteps
<1>1. ASSUME NEW s \in Servers, JoinReceive(s)
      PROVE  TypeOK' /\ ReqTyped'
  BY <1>1 DEF JoinReceive, Receive, Step, Answer
<1>2. ASSUME NEW s \in Servers, LoginReceive(s)
      PROVE  TypeOK' /\ ReqTyped'
  BY <1>2 DEF LoginReceive, Receive, Step, Answer
<1>3. ASSUME NEW s \in Servers, Refuse(s)
      PROVE  TypeOK' /\ ReqTyped'
  BY <1>3 DEF Refuse, RefuseRequest, Reply, Step, Answer
<1>4. ASSUME NEW s \in Servers, UserExists(s)
      PROVE  TypeOK' /\ ReqTyped'
  BY <1>4, OutcomeFacts DEF UserExists, ExistsKey, Reply, GoTo, Step, Answer
<1>5. ASSUME NEW s \in Servers, MdnExists(s)
      PROVE  TypeOK' /\ ReqTyped'
  BY <1>5, OutcomeFacts DEF MdnExists, ExistsKey, Reply, GoTo, Step, Answer
<1>6. ASSUME NEW s \in Servers, UserSave(s)
      PROVE  TypeOK' /\ ReqTyped'
  BY <1>6, OutcomeFacts, RecordFacts DEF UserSave, Reply, GoTo, Step, Answer
<1>7. ASSUME NEW s \in Servers, MdnSave(s)
      PROVE  TypeOK' /\ ReqTyped'
  BY <1>7, OutcomeFacts, RecordFacts DEF MdnSave, Reply, Step, Answer
<1>8. ASSUME NEW s \in Servers, UserGet(s)
      PROVE  TypeOK' /\ ReqTyped'
  BY <1>8, OutcomeFacts DEF UserGet, Reply, Step, Answer
<1>9. ASSUME NEW s \in Servers, Restart(s)
      PROVE  TypeOK' /\ ReqTyped'
  BY <1>9 DEF Restart, RestartProcess, Reply, Step, Answer
<1>10. CASE RedisRestart
  BY <1>10 DEF RedisRestart, DropLinks, NoUsers, NoMdns, LinkState
<1>11. CASE UNCHANGED vars
  BY <1>11 DEF vars
<1> QED
  BY <1>1, <1>2, <1>3, <1>4, <1>5, <1>6, <1>7, <1>8, <1>9, <1>10, <1>11
  DEF Next, ServerStep

-----------------------------------------------------------------------------
\* However many servers: every step preserves SharedInv.  Only UserSave, MdnSave
\* and RedisRestart write to Redis, and no step but the restart removes a key.
LEMMA SharedStep ==
    ASSUME SharedInv, [Next]_vars
    PROVE  SharedInv'
<1> USE DEF SharedInv
<1>1. TypeOK' /\ ReqTyped'
  BY TypeStep
<1>2. SaveInv' /\ IndexPointsToUser' /\ AcceptedTaken'
  <2> USE DEF TypeOK, ReqTyped, JoinSteps, SaveInv, IndexPointsToUser, AcceptedTaken
  <2>1. ASSUME NEW s \in Servers, JoinReceive(s) \/ LoginReceive(s) \/ Refuse(s) \/ Restart(s)
        PROVE  SaveInv' /\ IndexPointsToUser' /\ AcceptedTaken'
    BY <2>1 DEF JoinReceive, LoginReceive, Receive, Refuse, RefuseRequest, Restart, RestartProcess, Reply
  <2>2. ASSUME NEW s \in Servers, UserExists(s) \/ MdnExists(s) \/ UserGet(s)
        PROVE  SaveInv' /\ IndexPointsToUser' /\ AcceptedTaken'
    BY <2>2, OutcomeFacts DEF UserExists, MdnExists, UserGet, ExistsKey, Reply, GoTo
  <2>3. ASSUME NEW s \in Servers, UserSave(s)
        PROVE  SaveInv' /\ IndexPointsToUser' /\ AcceptedTaken'
    BY <2>3, OutcomeFacts, RecordFacts DEF UserSave, SaveGoesOn, Reply, GoTo, JoinRequest
  <2>4. ASSUME NEW s \in Servers, MdnSave(s)
        PROVE  SaveInv' /\ IndexPointsToUser' /\ AcceptedTaken'
    BY <2>4, OutcomeFacts, RecordFacts DEF MdnSave, Reply, JoinRequest
  <2>5. CASE RedisRestart
    BY <2>5 DEF RedisRestart, DropLinks, NoUsers, NoMdns
  <2>6. CASE UNCHANGED vars
    BY <2>6 DEF vars
  <2> QED
    BY <2>1, <2>2, <2>3, <2>4, <2>5, <2>6 DEF Next, ServerStep
<1> QED
  BY <1>1, <1>2

\* Every variable keeps its type (all handlers and commands of ZtAccounts).
THEOREM TypeCorrect == Spec => []TypeOK
<1>1. Init => SharedInv
  BY InitShared
<1>2. SharedInv /\ [Next]_vars => SharedInv'
  BY SharedStep
<1>3. SharedInv => TypeOK
  BY DEF SharedInv
<1> QED
  BY <1>1, <1>2, <1>3, PTL DEF Spec

\* With any number of servers the mdn index never dangles: HSET precedes SET, and
\* a server whose Redis lost its data cannot reach it any more (redis_user_save).
THEOREM IndexNeverDangles == Spec => []IndexPointsToUser
<1>1. Init => SharedInv
  BY InitShared
<1>2. SharedInv /\ [Next]_vars => SharedInv'
  BY SharedStep
<1>3. SharedInv => IndexPointsToUser
  BY DEF SharedInv
<1> QED
  BY <1>1, <1>2, <1>3, PTL DEF Spec

\* With any number of servers an accepted join leaves its id and mdn taken.
THEOREM AcceptedStaysTaken == Spec => []AcceptedTaken
<1>1. Init => SharedInv
  BY InitShared
<1>2. SharedInv /\ [Next]_vars => SharedInv'
  BY SharedStep
<1>3. SharedInv => AcceptedTaken
  BY DEF SharedInv
<1> QED
  BY <1>1, <1>2, <1>3, PTL DEF Spec

-----------------------------------------------------------------------------
LEMMA InitSolo == Init => SoloInv
BY InitShared DEF Init, HandlerInit, SharedInv, SoloInv, ChecksHold, IndexSound, AcceptedIntact, NoMdns

\* One server: every step preserves SoloInv.
LEMMA SoloStep ==
    ASSUME SingleServer, SoloInv, [Next]_vars
    PROVE  SoloInv'
<1> USE DEF SoloInv
<1>1. TypeOK' /\ ReqTyped'
  BY TypeStep
<1>2. ChecksHold' /\ IndexSound' /\ AcceptedIntact'
  <2> USE DEF SingleServer, TypeOK, ReqTyped, JoinSteps, ChecksHold, IndexSound,
              AcceptedIntact
  <2>1. ASSUME NEW s \in Servers, JoinReceive(s) \/ LoginReceive(s) \/ Refuse(s) \/ Restart(s)
        PROVE  ChecksHold' /\ IndexSound' /\ AcceptedIntact'
    BY <2>1 DEF JoinReceive, LoginReceive, Receive, Refuse, RefuseRequest, Restart, RestartProcess, Reply
  <2>2. ASSUME NEW s \in Servers, UserExists(s)
        PROVE  ChecksHold' /\ IndexSound' /\ AcceptedIntact'
    BY <2>2, OutcomeFacts DEF UserExists, UserTaken, ExistsKey, Reply, GoTo
  <2>3. ASSUME NEW s \in Servers, MdnExists(s)
        PROVE  ChecksHold' /\ IndexSound' /\ AcceptedIntact'
    BY <2>3, OutcomeFacts DEF MdnExists, MdnTaken, ExistsKey, Reply, GoTo
  <2>4. ASSUME NEW s \in Servers, UserGet(s)
        PROVE  ChecksHold' /\ IndexSound' /\ AcceptedIntact'
    BY <2>4, OutcomeFacts DEF UserGet, Reply
  <2>5. ASSUME NEW s \in Servers, UserSave(s)
        PROVE  ChecksHold' /\ IndexSound' /\ AcceptedIntact'
    \* No key of the index and no accepted join names the user being saved.
    BY <2>5, OutcomeFacts, RecordFacts DEF UserSave, SaveGoesOn, Reply, GoTo, JoinRequest
  <2>6. ASSUME NEW s \in Servers, MdnSave(s)
        PROVE  ChecksHold' /\ IndexSound' /\ AcceptedIntact'
    BY <2>6, OutcomeFacts, RecordFacts DEF MdnSave, Reply, JoinRequest
  <2>7. CASE RedisRestart
    BY <2>7, RecordFacts DEF RedisRestart, DropLinks, NoUsers, NoMdns
  <2>8. CASE UNCHANGED vars
    BY <2>8 DEF vars
  <2> QED
    BY <2>1, <2>2, <2>3, <2>4, <2>5, <2>6, <2>7, <2>8 DEF Next, ServerStep
<1> QED
  BY <1>1, <1>2

\* One server: the user an mdn names has that mdn (http_join, redis_user_save).
THEOREM SoloIndexSound == SingleServer => (Spec => []IndexSound)
<1> SUFFICES ASSUME SingleServer PROVE Spec => []IndexSound
  OBVIOUS
<1>1. Init => SoloInv
  BY InitSolo
<1>2. SoloInv /\ [Next]_vars => SoloInv'
  BY SoloStep
<1>3. SoloInv => IndexSound
  BY DEF SoloInv
<1> QED
  BY <1>1, <1>2, <1>3, PTL DEF Spec

\* One server: an accepted join is stored whole and stays as it was sent.
THEOREM SoloAcceptedIntact == SingleServer => (Spec => []AcceptedIntact)
<1> SUFFICES ASSUME SingleServer PROVE Spec => []AcceptedIntact
  OBVIOUS
<1>1. Init => SoloInv
  BY InitSolo
<1>2. SoloInv /\ [Next]_vars => SoloInv'
  BY SoloStep
<1>3. SoloInv => AcceptedIntact
  BY DEF SoloInv
<1> QED
  BY <1>1, <1>2, <1>3, PTL DEF Spec

-----------------------------------------------------------------------------
\* One server: a stored record is never rewritten, and a half-saved user is never
\* completed, because UserSave runs only for a user id that has no record.
LEMMA RecordStep ==
    ASSUME SingleServer, SoloInv, [Next]_vars
    PROVE  /\ \A u \in Users : users[u] # None => users'[u] = users[u] \/ users' = NoUsers
           /\ \A u \in Users : HalfSaved(u) => HalfSaved(u)' \/ users' = NoUsers
<1> DEFINE Kept == \A u \in Users : users[u] # None => users'[u] = users[u] \/ users' = NoUsers
           Stays == \A u \in Users : HalfSaved(u) => HalfSaved(u)' \/ users' = NoUsers
<1> USE DEF SingleServer, SoloInv, TypeOK, ReqTyped, JoinSteps, ChecksHold, HalfSaved
<1>1. ASSUME NEW s \in Servers, JoinReceive(s) \/ LoginReceive(s) \/ Refuse(s) \/ Restart(s)
      PROVE  Kept /\ Stays
  BY <1>1 DEF JoinReceive, LoginReceive, Receive, Refuse, RefuseRequest, Restart, RestartProcess, Reply
<1>2. ASSUME NEW s \in Servers, UserExists(s) \/ MdnExists(s) \/ UserGet(s)
      PROVE  Kept /\ Stays
  BY <1>2 DEF UserExists, MdnExists, UserGet, ExistsKey, Reply, GoTo
<1>3. ASSUME NEW s \in Servers, UserSave(s)
      PROVE  Kept /\ Stays
  BY <1>3 DEF UserSave, Reply, GoTo, JoinRequest
<1>4. ASSUME NEW s \in Servers, MdnSave(s)
      PROVE  Kept /\ Stays
  BY <1>4, NoneAssumption DEF MdnSave, Reply, JoinRequest, Account
<1>5. CASE RedisRestart
  BY <1>5 DEF RedisRestart, DropLinks
<1>6. CASE UNCHANGED vars
  BY <1>6 DEF vars
<1> QED
  BY <1>1, <1>2, <1>3, <1>4, <1>5, <1>6 DEF Next, ServerStep

\* One server: a stored record changes only by being lost with all the others.
THEOREM SoloRecordsImmutable == SingleServer => (Spec => RecordsImmutable)
<1> SUFFICES ASSUME SingleServer PROVE Spec => RecordsImmutable
  OBVIOUS
<1> DEFINE Kept == \A u \in Users : users[u] # None => users'[u] = users[u] \/ users' = NoUsers
<1>1. Init => SoloInv
  BY InitSolo
<1>2. SoloInv /\ [Next]_vars => SoloInv'
  BY SoloStep
<1>3. SoloInv /\ [Next]_vars => [Kept]_vars
  BY RecordStep
<1> QED
  BY <1>1, <1>2, <1>3, PTL DEF Spec, RecordsImmutable

\* One server: a half-saved user stays half-saved, whatever is retried.
THEOREM SoloHalfSavedStays == SingleServer => (Spec => HalfSavedStays)
<1> SUFFICES ASSUME SingleServer PROVE Spec => HalfSavedStays
  OBVIOUS
<1> DEFINE Stays == \A u \in Users : HalfSaved(u) => HalfSaved(u)' \/ users' = NoUsers
<1>1. Init => SoloInv
  BY InitSolo
<1>2. SoloInv /\ [Next]_vars => SoloInv'
  BY SoloStep
<1>3. SoloInv /\ [Next]_vars => [Stays]_vars
  BY RecordStep
<1> QED
  BY <1>1, <1>2, <1>3, PTL DEF Spec, HalfSavedStays

-----------------------------------------------------------------------------
\* The refinement: SET mdn:<mdn> is the step at which an account comes into
\* being; every other step leaves the complete accounts as they were.
LEMMA RegistrationInit == Init => Registration!Init
BY DEF Init, NoUsers, CompleteAccounts, Registration!Init, Registration!NoAccounts

LEMMA MdnSaveRegisters ==
    ASSUME SingleServer, SoloInv, NEW s \in Servers, MdnSave(s)
    PROVE  \/ \E u \in Users, a \in Registration!Account : Registration!Register(u, a)
           \/ UNCHANGED CompleteAccounts
<1> DEFINE r == req[s]
<1> USE DEF SoloInv, TypeOK, ReqTyped, JoinSteps
<1>1. /\ r \in JoinRequest /\ r.user \in Users /\ r.mdn \in Mdns
      /\ RecordOf(r) \in Account /\ RecordOf(r).mdn = r.mdn
      /\ mdns[r.mdn] = None /\ users' = users
  BY RecordFacts DEF MdnSave, ChecksHold
<1>2. CASE mdns' = mdns
  BY <1>1, <1>2 DEF CompleteAccounts
<1>3. CASE mdns' = [mdns EXCEPT ![r.mdn] = r.user] /\ users[r.user] = RecordOf(r)
  <2>1. CompleteAccounts[r.user] = None
    BY <1>1, <1>3, NoneAssumption DEF CompleteAccounts
  <2>2. \A v \in Users : CompleteAccounts[v] # None => CompleteAccounts[v].mdn # r.mdn
    BY <1>1, NoneAssumption DEF CompleteAccounts
  <2>3. CompleteAccounts' = [CompleteAccounts EXCEPT ![r.user] = RecordOf(r)]
    <3>1. CompleteAccounts'[r.user] = RecordOf(r)
      BY <1>1, <1>3, NoneAssumption DEF CompleteAccounts, Account
    <3>2. \A v \in Users \ {r.user} : CompleteAccounts'[v] = CompleteAccounts[v]
      BY <1>1, <1>3, NoneAssumption DEF CompleteAccounts, Account
    <3>3. /\ CompleteAccounts = [v \in Users |-> CompleteAccounts[v]]
          /\ CompleteAccounts' = [v \in Users |-> CompleteAccounts'[v]]
      BY DEF CompleteAccounts
    <3> HIDE DEF r
    <3> QED
      BY <1>1, <3>1, <3>2, <3>3
  <2>4. Registration!Register(r.user, RecordOf(r))
    BY <2>1, <2>2, <2>3, <1>1 DEF Registration!Register, Registration!MdnTaken
  <2> QED
    BY <2>4, <1>1 DEF Registration!Account, Account
<1> QED
  BY <1>2, <1>3, OutcomeFacts DEF MdnSave, ChecksHold

LEMMA RegistrationStep ==
    ASSUME SingleServer, SoloInv, [Next]_vars
    PROVE  [Registration!Next]_CompleteAccounts
<1>1. ASSUME NEW s \in Servers,
             \/ JoinReceive(s) \/ LoginReceive(s) \/ Refuse(s) \/ Restart(s)
             \/ UserExists(s) \/ MdnExists(s) \/ UserGet(s)
      PROVE  UNCHANGED CompleteAccounts
  BY <1>1 DEF JoinReceive, LoginReceive, Receive, Refuse, RefuseRequest, Restart, RestartProcess, UserExists, MdnExists,
              UserGet, ExistsKey, CompleteAccounts
<1>2. ASSUME NEW s \in Servers, UserSave(s)
      PROVE  UNCHANGED CompleteAccounts
  \* Neither the saved user nor the mdn of the new record is indexed yet.
  <2>1. /\ req[s] \in JoinRequest /\ users[req[s].user] = None
        /\ mdns[req[s].mdn] = None /\ mdns' = mdns
    BY <1>2 DEF SoloInv, ReqTyped, JoinSteps, ChecksHold, UserSave
  <2>2. users' = users \/ users' = [users EXCEPT ![req[s].user] = RecordOf(req[s])]
    BY <1>2 DEF UserSave
  <2> QED
    BY <2>1, <2>2, RecordFacts DEF SoloInv, TypeOK, CompleteAccounts
<1>3. ASSUME NEW s \in Servers, MdnSave(s)
      PROVE  [Registration!Next]_CompleteAccounts
  BY <1>3, MdnSaveRegisters DEF Registration!Next
<1>4. CASE RedisRestart
  BY <1>4 DEF RedisRestart, DropLinks, NoUsers, CompleteAccounts, Registration!Next,
              Registration!LoseAll, Registration!NoAccounts
<1>5. CASE UNCHANGED vars
  BY <1>5 DEF vars, CompleteAccounts
<1> QED
  BY <1>1, <1>2, <1>3, <1>4, <1>5 DEF Next, ServerStep

\* One server: the handlers, with their failures, crashes and retries, implement
\* atomic registration on the accounts that are both saved and indexed.
THEOREM SoloRegistration == SingleServer => (Spec => RegistrationSpec)
<1> SUFFICES ASSUME SingleServer PROVE Spec => RegistrationSpec
  OBVIOUS
<1>1. Init => SoloInv
  BY InitSolo
<1>2. SoloInv /\ [Next]_vars => SoloInv'
  BY SoloStep
<1>3. Init => Registration!Init
  BY RegistrationInit
<1>4. SoloInv /\ [Next]_vars => [Registration!Next]_CompleteAccounts
  BY RegistrationStep
<1> QED
  BY <1>1, <1>2, <1>3, <1>4, PTL DEF Spec, RegistrationSpec, Registration!Spec
=============================================================================
