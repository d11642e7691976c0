----------------------------- MODULE ZtHandler -----------------------------
(***************************************************************************)
(* The control state of a server process inside a request handler of       *)
(* zt_http.c.  A process handles one request at a time: it binds the       *)
(* fields, issues Redis commands one by one, and answers once.             *)
(***************************************************************************)
EXTENDS ZtRedis

CONSTANTS Servers,      \* server processes that share one Redis
          None          \* no request; what Redis answers for a missing key

VARIABLES
    link,       \* g_redis_ctx of each server
    pc,         \* the next command of the handler each server is in
    req,        \* the fields bound from the request being handled, or None
    rsp         \* the last answer of each server (zt_err_code_t)

handlerVars == <<link, pc, req, rsp>>

\* Those "with one server" need the Deployment's replicas: 1, and no rolling
\* update in progress.
SingleServer == \A s, t \in Servers : s = t

HandlerInit ==
    /\ link \in [Servers -> LinkState]      \* main only warns when connect fails
    /\ pc = [s \in Servers |-> "idle"]
    /\ req = [s \in Servers |-> None]
    /\ rsp = [s \in Servers |-> "none"]

\* Move on to the next command of the handler.
GoTo(s, step) == /\ pc' = [pc EXCEPT ![s] = step]
                 /\ UNCHANGED <<req, rsp>>

\* Answer, and wait for the next request.
Reply(s, code) == /\ pc' = [pc EXCEPT ![s] = "idle"]
                  /\ req' = [req EXCEPT ![s] = None]
                  /\ rsp' = [rsp EXCEPT ![s] = code]

\* A well-formed request reaches its handler.
Receive(s, r, step) == /\ pc[s] = "idle"
                       /\ pc' = [pc EXCEPT ![s] = step]
                       /\ req' = [req EXCEPT ![s] = r]
                       /\ rsp' = [rsp EXCEPT ![s] = "none"]
                       /\ UNCHANGED link

\* A request with the wrong method, or with a field missing or malformed.
RefuseRequest(s) ==
    /\ pc[s] = "idle"
    /\ \E code \in {"METHOD_NOT_ALLOWED", "INVALID_PARAMS"} : Reply(s, code)
    /\ UNCHANGED link

\* The process dies, answering nothing, and is started again; main connects once,
\* or fails to.
RestartProcess(s) ==
    /\ Reply(s, "none")
    /\ \E l \in LinkState : link' = [link EXCEPT ![s] = l]

\* redis_exists_key: -1 without a reply, else whether the key is there.
ExistsKey(s, present, ifPresent, ifAbsent, ifNoReply) ==
    \E o \in Outcomes(link[s]) :
        /\ link' = [link EXCEPT ![s] = LinkAfter(o)]
        /\ IF o # "reply" THEN ifNoReply
           ELSE IF present THEN ifPresent
           ELSE ifAbsent

\* Redis restarts: every connection is gone.
DropLinks == /\ link' = [s \in Servers |-> "down"]
             /\ UNCHANGED <<pc, req, rsp>>
============================================================================
