----------------------------- MODULE HttpFrames -----------------------------
(***************************************************************************)
(* The HTTP substrate of group_key_mgmt: Flask servers (one thread per     *)
(* connection) and blocking requests.post calls without a timeout.         *)
(*                                                                         *)
(* A client posts one request to the gNB.  Its handler calls other         *)
(* handlers, each call blocking its caller, so the request is a chain of   *)
(* frames.  pc[c][h] is the label of the frame of route h in the chain of  *)
(* client c; no chain enters a route twice, so the route names the frame.  *)
(***************************************************************************)
EXTENDS Naturals

CONSTANTS
    Clients,     \* one HTTP client per request posted to the gNB
    UEs,         \* the ue_id values a request may carry
    None,        \* Python's None
    MaxCrashes   \* bound on the number of container crashes

VARIABLES
    up,       \* up[n]: the container of network function n listens
    pc,       \* pc[c][h]: label of the frame of route h in chain c
    req,      \* req[c]: the request of client c, [route, ue], or None
    crashes   \* number of crashes so far

httpVars == <<up, pc, req, crashes>>

GnbRoutes  == {"gnb/registration", "gnb/security_complete",
               "gnb/ue_context_setup", "gnb/security_command"}
AmfRoutes  == {"amf/registration", "amf/security_complete"}
AusfRoutes == {"ausf/authenticate"}
UdmRoutes  == {"udm/auth_data"}
SmfRoutes  == {"smf/session_establishment"}
UpfRoutes  == {"upf/configure"}

Routes == GnbRoutes \cup AmfRoutes \cup AusfRoutes \cup UdmRoutes
              \cup SmfRoutes \cup UpfRoutes

NFs == {"gnb", "amf", "ausf", "udm", "smf", "upf"}

RoutesOf(n) ==
    [gnb |-> GnbRoutes, amf |-> AmfRoutes, ausf |-> AusfRoutes,
     udm |-> UdmRoutes, smf |-> SmfRoutes, upf |-> UpfRoutes][n]

\* The routes a UE posts to.  docker-compose.yml publishes the ports of all
\* network functions, and gNB and AMF check no caller: that nothing but a
\* network function posts to /ue_context_setup or to a port other than the
\* gNB's is assumed of the environment.
ClientRoutes == {"gnb/registration", "gnb/security_complete"}

\* What a client posts: the route, and the "ue_id" of the JSON body.
Request == [route : ClientRoutes, ue : UEs]

ASSUME HttpAssumption == None \notin Request /\ MaxCrashes \in Nat

(***************************************************************************)
(* A frame is "idle" before its call, "queued" once the connection is made *)
(* and at one of its handler's labels while the thread runs.  It ends "ok" *)
(* (a JSON answer), "err" (an HTML error page: 500 after an uncaught       *)
(* exception, 404 for an unknown route) or "dead" (its container died).    *)
(***************************************************************************)
Ended == {"ok", "err", "dead"}
Running(label) == label \notin Ended \cup {"idle"}
Returned(c, h) == pc[c][h] \in Ended

ueOf(c) == req[c].ue

\* The frame of h moves to a label.
Goto(c, h, label) == pc' = [pc EXCEPT ![c][h] = label]

\* requests.post from the frame of h to route g of network function n: the
\* caller blocks at label; if n does not listen, requests raises
\* ConnectionError, which no handler catches, and the caller answers 500.
Post(c, h, label, n, g) ==
    IF up[n] THEN pc' = [pc EXCEPT ![c][h] = label, ![c][g] = "queued"]
             ELSE Goto(c, h, "err")

(***************************************************************************)
(* A client connects to the published port of the gNB.                     *)
(***************************************************************************)
ClientPost(c) ==
    /\ req[c] = None
    /\ up["gnb"]
    /\ \E h \in ClientRoutes, u \in UEs :
          /\ req' = [req EXCEPT ![c] = [route |-> h, ue |-> u]]
          /\ Goto(c, h, "queued")
    /\ UNCHANGED <<up, crashes>>

\* A plausible slip: app.run(threaded=False), one request at a time.
AcceptOneAtATime(c, n) ==
    /\ \A d \in Clients, g \in RoutesOf(n) : pc[d][g] \in Ended \cup {"idle", "queued"}
    /\ \E h \in RoutesOf(n) : pc[c][h] = "queued" /\ Goto(c, h, "start")
    /\ UNCHANGED <<up, req, crashes>>

\* app.run: the development server starts a thread for every connection.
Accept(c, n) ==
    /\ \E h \in RoutesOf(n) : pc[c][h] = "queued" /\ Goto(c, h, "start")
    /\ UNCHANGED <<up, req, crashes>>

\* The container of n starts listening.  depends_on orders the starts of
\* the containers and does not wait until they listen, so any order is possible.
Listen(n) ==
    /\ ~up[n]
    /\ up' = [up EXCEPT ![n] = TRUE]
    /\ UNCHANGED <<pc, req, crashes>>

\* The container of n dies: its threads die with it, and a caller blocked
\* on one of them gets a ConnectionError.  The threads of other containers
\* that one of the dead threads was waiting for go on.
Die(n) ==
    /\ up[n]
    /\ crashes < MaxCrashes
    /\ crashes' = crashes + 1
    /\ up' = [up EXCEPT ![n] = FALSE]
    /\ pc' = [c \in Clients |-> [h \in Routes |->
                 IF h \in RoutesOf(n) /\ Running(pc[c][h]) THEN "dead" ELSE pc[c][h]]]
    /\ UNCHANGED req

HttpInit ==
    /\ up = [n \in NFs |-> FALSE]
    /\ pc = [c \in Clients |-> [h \in Routes |-> "idle"]]
    /\ req = [c \in Clients |-> None]
    /\ crashes = 0
=============================================================================
