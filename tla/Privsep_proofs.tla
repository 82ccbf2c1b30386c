--------------------------- MODULE Privsep_proofs ---------------------------
(***************************************************************************)
(* Proofs about Privsep, for every set of users, keys and configurations   *)
(* and any number of requests.                                             *)
(***************************************************************************)
EXTENDS Privsep, FiniteSetTheorems, TLAPS

-----------------------------------------------------------------------------
(* Types. *)

UserNames == Users \cup {"NULL"}
Keys == Offered \cup {NoKey}
\* What is left of the lists, under the numbers they have in the configuration.
MethodLists == UNION {[D -> Seq(Methods)] : D \in SUBSET Nat}

\* The requests of the monitor's dispatch table, and all requests.
Table == {"SIGN", "PWNAM", "AUTHSERV", "READ_BANNER", "AUTHPASSWORD",
          "KEYALLOWED", "KEYVERIFY"}
Types == Table \cup {"KEYEXPORT"}

Request == [type : Types, user : UserNames, key : Keys, good : BOOLEAN,
            empty : BOOLEAN, data : BOOLEAN]

ClientRequest == [user : UserNames, method : Methods \cup {"NULL"}, key : Keys, good : BOOLEAN,
                  empty : BOOLEAN, sig : BOOLEAN, service : BOOLEAN]

MonitorState ==
    [phase : {Loop, Decide, "granted", "session"},
     err : {"none", "unpermitted", "getpwnam", "disabled", "notallowed",
            "badblob", "nolist", "decide", "tries", "invalid", "mismatch"},
     permit : SUBSET Table, attempt : {0, 1}, user : UserNames,
     valid : BOOLEAN, lists : MethodLists, failures : Nat, calls : Nat,
     key_blob : Keys, prev_keys : SUBSET Offered, type : Types \cup {"NULL"},
     ret : BOOLEAN, auth_method : Methods \cup {"unknown"},
     log : Seq(Methods \cup {"unknown"})]

ChildState ==
    [pc : {"kex", "signed", "idle", "pwnam", "banner", "passwd", "allowed",
            "verify", "success", "exported", "disconnected", "internal",
            "nolist"}, user : UserNames, service : BOOLEAN, attempt : Nat,
     failures : Nat, valid : BOOLEAN, lists : MethodLists,
     none_enabled : BOOLEAN, prev_keys : SUBSET Keys, r : ClientRequest,
     reply : {"NULL", "SUCCESS", "PARTIAL", "FAILURE", "PK_OK"}, log : Seq(Methods \cup {"NULL"})]

TypeOK ==
    /\ conf \in Config
    /\ honest \in BOOLEAN
    /\ child \in ChildState
    /\ mon \in MonitorState
    /\ reqs \in Seq(Request)
    /\ answers \in Seq(BOOLEAN)
    /\ requests \in Nat

(***************************************************************************)
(* The lists stay lists.                                                   *)
(***************************************************************************)
LEMMA ListsType ==
    ASSUME conf \in Config
    PROVE  /\ <<>> \in MethodLists
           /\ auth2_setup_methods_lists \in MethodLists
           /\ \A m : \A l \in MethodLists :
                 auth2_update_methods_lists(l, m) \in MethodLists
<1>1. <<>> \in MethodLists
  <2>1. <<>> \in [{} -> Seq(Methods)]
    OBVIOUS
  <2> QED BY <2>1 DEF MethodLists
<1>2. auth2_setup_methods_lists \in MethodLists
  <2> DEFINE kept == {i \in DOMAIN conf.lists :
                        \A j \in DOMAIN conf.lists[i] : Enabled(conf.lists[i][j])}
  <2>1. conf.lists \in Seq(Seq(Methods))
    BY DEF Config
  <2>2. kept \in SUBSET Nat /\ \A i \in kept : conf.lists[i] \in Seq(Methods)
    BY <2>1
  <2>3. auth2_setup_methods_lists \in [kept -> Seq(Methods)]
    BY <2>2 DEF auth2_setup_methods_lists
  <2> QED BY <2>2, <2>3 DEF MethodLists
<1>3. ASSUME NEW l \in MethodLists, NEW m
      PROVE  auth2_update_methods_lists(l, m) \in MethodLists
  <2>1. PICK D \in SUBSET Nat : l \in [D -> Seq(Methods)]
    BY DEF MethodLists
  <2>2. \A i \in D : list_starts_with(l[i], m) => Tail(l[i]) \in Seq(Methods)
    BY <2>1 DEF list_starts_with
  <2>3. auth2_update_methods_lists(l, m) \in [D -> Seq(Methods)]
    BY <2>1, <2>2 DEF auth2_update_methods_lists
  <2> QED
    BY <2>3 DEF MethodLists
<1> QED BY <1>1, <1>2, <1>3

LEMMA InitTypeOK == Init => TypeOK
<1> SUFFICES ASSUME Init PROVE TypeOK
  OBVIOUS
<1>1. conf \in Config
  BY PrivsepAssumption DEF Init
<1>2. NoRequest \in ClientRequest
  BY DEF NoRequest, ClientRequest, UserNames, Keys
<1>3. <<>> \in MethodLists
  BY <1>1, ListsType
<1>4. ChildInit \in ChildState
  BY <1>2, <1>3 DEF ChildInit, ChildState, UserNames
<1>5. MonitorInit \in MonitorState
  BY <1>3 DEF MonitorInit, MonitorState, UserNames, Keys, Loop, Decide, Table
<1> QED
  BY <1>1, <1>4, <1>5, PrivsepAssumption DEF Init, TypeOK

LEMMA HandlerType ==
    ASSUME TypeOK, NEW m \in MonitorState, NEW q \in Request
    PROVE  Handler(m, q) \in MonitorState
<1>1. /\ q.type \in Types /\ q.user \in UserNames /\ q.key \in Keys
      /\ q.good \in BOOLEAN /\ q.empty \in BOOLEAN /\ q.data \in BOOLEAN
  BY DEF Request
<1>3. ASSUME NEW n \in MonitorState
      PROVE  /\ [n EXCEPT !.err = "unpermitted"] \in MonitorState
             /\ mm_answer_sign(n) \in MonitorState
             /\ mm_answer_pwnamallow(n, q) \in MonitorState
             /\ mm_answer_authserv(n) \in MonitorState
             /\ mm_answer_authpassword(n, q) \in MonitorState
             /\ mm_answer_keyallowed(n, q) \in MonitorState
             /\ mm_answer_keyverify(n, q) \in MonitorState
  <2>1. [n EXCEPT !.err = "unpermitted"] \in MonitorState
    BY DEF MonitorState
  <2>2. mm_answer_sign(n) \in MonitorState /\ mm_answer_authserv(n) \in MonitorState
    BY DEF mm_answer_sign, mm_answer_authserv, MonitorState, MON_ISAUTH, Table
  <2>3. mm_answer_pwnamallow(n, q) \in MonitorState
    <3>1. \A u \in UserNames, v \in BOOLEAN, l \in MethodLists :
            [n EXCEPT !.attempt = 1, !.user = u, !.valid = v, !.lists = l,
                      !.permit = @ \cup {"AUTHSERV", "READ_BANNER"}] \in MonitorState
      BY ZenonT(60) DEF MonitorState, Table
    <3>2. [n EXCEPT !.err = "getpwnam"] \in MonitorState
      BY DEF MonitorState
    <3>3. auth2_setup_methods_lists \in MethodLists /\ (q.user \in Accounts) \in BOOLEAN
      BY ListsType DEF TypeOK
    <3> QED
      BY <1>1, <3>1, <3>2, <3>3, Zenon DEF mm_answer_pwnamallow
  <2>4. mm_answer_authpassword(n, q) \in MonitorState
    <3>1. \A c \in Nat, v \in BOOLEAN, k \in {"none", "password"} :
            [n EXCEPT !.calls = c, !.ret = v, !.auth_method = k] \in MonitorState
      BY DEF MonitorState, Methods
    <3> n.calls \in Nat
      BY DEF MonitorState
    <3> n.calls + 1 \in Nat
      OBVIOUS
    <3>2. [n EXCEPT !.err = "disabled"] \in MonitorState
      BY DEF MonitorState
    <3>3. auth_password(n, q) \in BOOLEAN
      BY DEF auth_password
    <3>4. (IF q.empty /\ n.calls = 0 THEN "none" ELSE "password") \in {"none", "password"}
      OBVIOUS
    <3> QED
      BY <3>1, <3>2, <3>3, <3>4, Zenon DEF mm_answer_authpassword
  <2>5. mm_answer_keyallowed(n, q) \in MonitorState
    <3>1. \A k \in Methods \cup {"unknown"}, b \in Keys :
            [n EXCEPT !.auth_method = k, !.key_blob = b] \in MonitorState
      BY DEF MonitorState
    <3>2. (IF n.valid THEN "publickey" ELSE n.auth_method) \in Methods \cup {"unknown"}
      BY DEF MonitorState, Methods
    <3>3. (IF KeyAllowed(n, q) THEN q.key ELSE NoKey) \in Keys
      BY <1>1 DEF Keys
    <3> QED
      BY <3>1, <3>2, <3>3, Zenon DEF mm_answer_keyallowed
  <2>6. mm_answer_keyverify(n, q) \in MonitorState
    <3>1. \A v \in BOOLEAN, p \in SUBSET Offered :
            [n EXCEPT !.auth_method = "publickey", !.ret = v, !.prev_keys = p,
                      !.key_blob = NoKey] \in MonitorState
      BY DEF MonitorState, Methods, Keys
    <3>2. /\ [n EXCEPT !.err = "notallowed"] \in MonitorState
          /\ [n EXCEPT !.err = "badblob"] \in MonitorState
      <4>1. [n EXCEPT !.err = "notallowed"] \in MonitorState
        BY DEF MonitorState
      <4>2. [n EXCEPT !.err = "badblob"] \in MonitorState
        BY DEF MonitorState
      <4> QED BY <4>1, <4>2
    <3>3. CASE n.key_blob = NoKey \/ q.key # n.key_blob
      BY <3>2, <3>3, Zenon DEF mm_answer_keyverify
    <3>4. CASE ~(n.key_blob = NoKey \/ q.key # n.key_blob)
      <4>1. (IF q.good THEN n.prev_keys \cup {q.key} ELSE n.prev_keys) \in SUBSET Offered
        BY <1>1, <3>4 DEF MonitorState, Keys
      <4>2. CASE q.data
        BY <1>1, <3>1, <3>4, <4>1, <4>2, Zenon DEF mm_answer_keyverify
      <4>3. CASE ~q.data
        BY <3>2, <3>4, <4>3, Zenon DEF mm_answer_keyverify
      <4> QED BY <4>2, <4>3
    <3> QED BY <3>3, <3>4
  <2> QED BY <2>1, <2>2, <2>3, <2>4, <2>5, <2>6
<1>4. CASE q.type \notin m.permit
  BY <1>3, <1>4, Zenon DEF Handler
<1>5. CASE q.type \in m.permit
  <2>1. q.type \in Table
    BY <1>5 DEF MonitorState
  <2> QED BY <1>3, <1>5, <2>1 DEF Handler, Table
<1> QED BY <1>4, <1>5

LEMMA HandledType ==
    ASSUME TypeOK, NEW m \in MonitorState, NEW q \in Request
    PROVE  Handled(m, q) \in MonitorState
<1> DEFINE n == [m EXCEPT !.type = q.type, !.ret = FALSE,
                          !.auth_method = "unknown", !.phase = Decide]
           r == Handler(n, q)
<1>1. n \in MonitorState
  BY DEF MonitorState, Request
<1> HIDE DEF n
<1>2. r \in MonitorState
  BY <1>1, HandlerType
<1> HIDE DEF r
<1>3. [r EXCEPT !.permit = @ \ {q.type}] \in MonitorState
  BY <1>2 DEF MonitorState
<1> QED
  BY <1>2, <1>3 DEF Handled, n, r

LEMMA JudgedType ==
    ASSUME TypeOK, NEW m \in MonitorState
    PROVE  Judged(m) \in MonitorState
<1> DEFINE lists == IF Updated(m) THEN auth2_update_methods_lists(m.lists, m.auth_method)
                    ELSE m.lists
           failed == m.type \in MON_AUTHDECIDE /\ ~Partial(m) /\ ~Authenticated(m)
           failures == IF failed THEN m.failures + 1 ELSE m.failures
           log == IF Authenticated(m) \/ Partial(m)
                  THEN Append(m.log, m.auth_method) ELSE m.log
           p == [m EXCEPT !.lists = lists, !.failures = failures, !.log = log]
<1>0. /\ m.lists \in MethodLists /\ m.failures \in Nat
      /\ m.auth_method \in Methods \cup {"unknown"}
      /\ m.log \in Seq(Methods \cup {"unknown"})
  BY DEF MonitorState
<1>1. lists \in MethodLists
  BY <1>0, ListsType DEF TypeOK
<1>2. failures \in Nat
  BY <1>0
<1>3. log \in Seq(Methods \cup {"unknown"})
  BY <1>0
<1> HIDE DEF lists, failed, failures, log
<1>4. p \in MonitorState
  BY <1>1, <1>2, <1>3 DEF MonitorState
<1>5. ASSUME NEW k \in MonitorState
      PROVE  /\ [k EXCEPT !.err = "nolist"] \in MonitorState
             /\ [k EXCEPT !.err = "decide"] \in MonitorState
             /\ [k EXCEPT !.err = "tries"] \in MonitorState
             /\ [k EXCEPT !.err = "invalid"] \in MonitorState
             /\ [k EXCEPT !.phase = IF Authenticated(m) THEN "granted" ELSE Loop,
                          !.type = "NULL"] \in MonitorState
  <2>1. /\ [k EXCEPT !.err = "nolist"] \in MonitorState
        /\ [k EXCEPT !.err = "decide"] \in MonitorState
        /\ [k EXCEPT !.err = "tries"] \in MonitorState
        /\ [k EXCEPT !.err = "invalid"] \in MonitorState
    BY ZenonT(60) DEF MonitorState
  <2>2. /\ [k EXCEPT !.phase = "granted", !.type = "NULL"] \in MonitorState
        /\ [k EXCEPT !.phase = Loop, !.type = "NULL"] \in MonitorState
    BY DEF MonitorState
  <2> QED BY <2>1, <2>2, Zenon
<1> HIDE DEF p
<1> QED BY <1>4, <1>5 DEF Judged, p, lists, failures, log, failed

(***************************************************************************)
(* The child's operators keep its type.                                    *)
(***************************************************************************)
LEMMA ChildFields ==
    ASSUME NEW c \in ChildState
    PROVE  /\ c.user \in UserNames /\ c.service \in BOOLEAN /\ c.attempt \in Nat
           /\ c.failures \in Nat /\ c.valid \in BOOLEAN /\ c.lists \in MethodLists
           /\ c.none_enabled \in BOOLEAN /\ c.prev_keys \in SUBSET Keys
           /\ c.r \in ClientRequest /\ c.log \in Seq(Methods \cup {"NULL"})
           /\ c.r.method \in Methods \cup {"NULL"} /\ c.r.key \in Keys
  BY DEF ChildState, ClientRequest

LEMMA FinishType ==
    ASSUME TypeOK, NEW c \in ChildState, NEW authenticated \in BOOLEAN
    PROVE  userauth_finish(c, authenticated) \in ChildState
<1> DEFINE m == c.r.method
           ok == Succeeded(c, authenticated)
           partial == ok /\ Configured /\ ~Completes(c.lists, m)
           lists == IF ok /\ Configured THEN auth2_update_methods_lists(c.lists, m)
                    ELSE c.lists
           log == IF ok THEN Append(c.log, m) ELSE c.log
           d == [c EXCEPT !.r = NoRequest, !.lists = lists, !.log = log]
           penalty == ~partial /\ (c.attempt > 1 \/ m # "none")
           f == IF penalty THEN c.failures + 1 ELSE c.failures
           pc == IF f >= MaxAuthTries THEN "disconnected" ELSE "idle"
           reply == IF partial THEN "PARTIAL" ELSE "FAILURE"
<1>0. /\ m \in Methods \cup {"NULL"} /\ c.failures \in Nat /\ c.lists \in MethodLists
      /\ c.log \in Seq(Methods \cup {"NULL"})
  BY ChildFields
<1> HIDE DEF m
<1>1. lists \in MethodLists
  BY <1>0, ListsType DEF TypeOK
<1>2. log \in Seq(Methods \cup {"NULL"})
  BY <1>0
<1>3. f \in Nat
  BY <1>0
<1>4. NoRequest \in ClientRequest
  BY DEF NoRequest, ClientRequest, UserNames, Keys
<1>5. pc \in {"disconnected", "idle"} /\ reply \in {"PARTIAL", "FAILURE"}
  OBVIOUS
<1> HIDE DEF lists, log, f, ok, partial, penalty, pc, reply
<1>6. d \in ChildState
  BY <1>1, <1>2, <1>4 DEF ChildState
<1>7. /\ [c EXCEPT !.pc = "internal"] \in ChildState
      /\ [c EXCEPT !.pc = "nolist"] \in ChildState
  BY DEF ChildState
<1> HIDE DEF d
<1>8. /\ [d EXCEPT !.pc = "success", !.reply = "SUCCESS"] \in ChildState
      /\ [d EXCEPT !.failures = f, !.pc = pc, !.reply = reply] \in ChildState
  BY <1>3, <1>5, <1>6 DEF ChildState
<1> QED
  BY <1>7, <1>8 DEF userauth_finish, d, lists, log, f, pc, reply,
                          m, ok, partial, penalty

LEMMA ReqType ==
    ASSUME NEW r \in ClientRequest, NEW type \in Types
    PROVE  Req(type, r) \in Request
  BY DEF Req, Request, ClientRequest

LEMMA AskType ==
    ASSUME TypeOK, NEW c \in ChildState, NEW qs \in Seq(Request), Ask(c, qs),
           answers' \in Seq(BOOLEAN), requests' \in Nat
    PROVE  TypeOK'
  BY DEF Ask, TypeOK

LEMMA TryType ==
    ASSUME TypeOK, NEW c \in ChildState, Try(c),
           answers' \in Seq(BOOLEAN), requests' \in Nat
    PROVE  TypeOK'
<1> DEFINE m == c.r.method
           tried == authmethod_lookup(c, m)
           d == IF m = "none" /\ tried THEN [c EXCEPT !.none_enabled = FALSE] ELSE c
<1>1. d \in ChildState
  BY DEF ChildState
<1> HIDE DEF d
<1>2. d.r \in ClientRequest
  BY <1>1, ChildFields
<1>3. /\ [d EXCEPT !.pc = "passwd"] \in ChildState
      /\ [d EXCEPT !.pc = "allowed"] \in ChildState
  BY <1>1 DEF ChildState
<1>4. /\ <<Req("AUTHPASSWORD", d.r)>> \in Seq(Request)
      /\ <<Req("KEYALLOWED", d.r)>> \in Seq(Request)
      /\ <<>> \in Seq(Request)
  BY <1>2, ReqType DEF Types, Table
<1>5. userauth_finish(d, FALSE) \in ChildState
  BY <1>1, FinishType
<1>6. \/ Ask([d EXCEPT !.pc = "passwd"], <<Req("AUTHPASSWORD", d.r)>>)
      \/ Ask([d EXCEPT !.pc = "allowed"], <<Req("KEYALLOWED", d.r)>>)
      \/ Ask(userauth_finish(d, FALSE), <<>>)
  BY DEF Try, d
<1> QED
  BY <1>3, <1>4, <1>5, <1>6, AskType

LEMMA NextTypeOK == TypeOK /\ [Next]_vars => TypeOK'
<1> SUFFICES ASSUME TypeOK, [Next]_vars PROVE TypeOK'
  OBVIOUS
<1> USE DEF TypeOK
<1>1. CASE UNCHANGED vars
  BY <1>1 DEF vars
<1>2. CASE monitor_read
  <2>1. Head(reqs) \in Request /\ Tail(reqs) \in Seq(Request)
    BY <1>2 DEF monitor_read
  <2> DEFINE m == Handled(mon, Head(reqs))
  <2>2. m \in MonitorState
    BY <2>1, HandledType
  <2> HIDE DEF m
  <2>3. Answer(m, Head(reqs)) \in Seq(BOOLEAN)
    <3>1. m.valid \in BOOLEAN /\ m.ret \in BOOLEAN
      BY <2>2 DEF MonitorState
    <3> DEFINE v == CASE Head(reqs).type = "PWNAM" -> m.valid
                      [] Head(reqs).type = "KEYALLOWED" -> m.key_blob # NoKey
                      [] Head(reqs).type \in MON_AUTHDECIDE -> m.ret
                      [] OTHER -> TRUE
    <3>2. v \in BOOLEAN
      BY <3>1 DEF MON_AUTHDECIDE
    <3>3. Answer(m, Head(reqs)) = <<>> \/ Answer(m, Head(reqs)) = <<v>>
      BY Zenon DEF Answer
    <3> HIDE DEF v
    <3>4. <<>> \in Seq(BOOLEAN) /\ \A b \in BOOLEAN : <<b>> \in Seq(BOOLEAN)
      OBVIOUS
    <3> QED BY <3>2, <3>3, <3>4, Zenon
  <2> QED
    BY <1>2, <2>1, <2>2, <2>3 DEF monitor_read, m
<1>3. CASE monitor_child_preauth
  BY <1>3, JudgedType DEF monitor_child_preauth
<1>4. CASE mm_get_keystate
  <2>1. /\ [mon EXCEPT !.phase = "session"] \in MonitorState
        /\ [mon EXCEPT !.err = "mismatch"] \in MonitorState
    BY DEF MonitorState
  <2> QED
    BY <1>4, <2>1 DEF mm_get_keystate
<1>5. CASE do_ssh2_kex
  <2>1. [child EXCEPT !.pc = "signed"] \in ChildState
    BY DEF ChildState
  <2>2. <<Req("SIGN", NoRequest)>> \in Seq(Request)
    BY DEF Req, Request, NoRequest, UserNames, Keys, Types, Table
  <2> QED
    BY <1>5, <2>1, <2>2, AskType DEF do_ssh2_kex
<1>6. CASE input_userauth_request
  <2>1. requests' \in Nat /\ answers' = answers
    BY <1>6 DEF input_userauth_request
  <2>2. PICK r \in UserauthRequest :
          LET c == [child EXCEPT !.r = r, !.attempt = @ + 1]
          IN  \/ Ask([c EXCEPT !.pc = "pwnam", !.user = r.user, !.service = r.service],
                     <<Req("PWNAM", r)>>)
              \/ Ask([child EXCEPT !.pc = "disconnected"], <<>>)
              \/ Try(c)
    BY <1>6 DEF input_userauth_request
  <2>3. r \in ClientRequest
    BY DEF UserauthRequest, ClientRequest, UserNames, Keys, Methods
  <2> DEFINE c == [child EXCEPT !.r = r, !.attempt = @ + 1]
  <2>4. c \in ChildState
    <3>1. child.attempt + 1 \in Nat
      BY ChildFields
    <3> QED BY <3>1, <2>3 DEF ChildState
  <2> HIDE DEF c
  <2>5. r.user \in UserNames /\ r.service \in BOOLEAN
    BY <2>3 DEF ClientRequest
  <2>6. /\ [c EXCEPT !.pc = "pwnam", !.user = r.user, !.service = r.service] \in ChildState
        /\ [child EXCEPT !.pc = "disconnected"] \in ChildState
    BY <2>4, <2>5 DEF ChildState
  <2>7. <<Req("PWNAM", r)>> \in Seq(Request) /\ <<>> \in Seq(Request)
    BY <2>3, ReqType DEF Types, Table
  <2> QED
    BY <2>1, <2>2, <2>4, <2>6, <2>7, AskType, TryType DEF c
<1>7. CASE AnyRequest
  <2>1. PICK type \in MON_ONCE \cup MON_ISAUTH \cup {"KEYEXPORT"},
             u \in Users, k \in Offered, good \in BOOLEAN, empty \in BOOLEAN,
             data \in BOOLEAN :
             reqs' = <<[type |-> type, user |-> u, key |-> k, good |-> good,
                        empty |-> empty, data |-> data]>>
    BY <1>7 DEF AnyRequest
  <2>2. [type |-> type, user |-> u, key |-> k, good |-> good, empty |-> empty,
         data |-> data] \in Request
    BY DEF Request, Types, Table, MON_ONCE, MON_ISAUTH, UserNames, Keys
  <2> QED
    BY <1>7, <2>1, <2>2 DEF AnyRequest
<1>8. CASE answers # <<>> /\ (Signed \/ Pwnam \/ Banner \/ userauth_passwd
                                 \/ userauth_pubkey \/ Verify)
  <2>1. /\ Head(answers) \in BOOLEAN /\ answers' \in Seq(BOOLEAN) /\ requests' \in Nat
        /\ <<>> \in Seq(Request)
    <3>1. Head(answers) \in BOOLEAN /\ Tail(answers) \in Seq(BOOLEAN)
      BY <1>8
    <3>2. answers' = Tail(answers) /\ requests' = requests
      BY <1>8 DEF Signed, Pwnam, Banner, userauth_passwd, userauth_pubkey, Verify
    <3> QED BY <3>1, <3>2
  <2>2. child.r \in ClientRequest /\ child.r.key \in Keys /\ child.r.service \in BOOLEAN
    BY ChildFields DEF ClientRequest
  <2>3. \A pc \in {"idle", "disconnected", "verify"} : [child EXCEPT !.pc = pc] \in ChildState
    BY DEF ChildState
  <2>4. CASE Signed
    BY <2>4, <2>1, <2>3, AskType DEF Signed
  <2>5. CASE Pwnam
    <3>1. \A v \in BOOLEAN : [child EXCEPT !.pc = "banner", !.valid = v] \in ChildState
      BY DEF ChildState
    <3>2. <<Req("AUTHSERV", child.r), Req("READ_BANNER", child.r)>> \in Seq(Request)
      BY <2>2, ReqType DEF Types, Table
    <3>3. (Head(answers) /\ child.r.service) \in BOOLEAN
      OBVIOUS
    <3>4. [child EXCEPT !.pc = "banner", !.valid = Head(answers) /\ child.r.service]
             \in ChildState
      BY <3>1, <3>3, Zenon
    <3> QED
      BY <2>5, <2>1, <3>2, <3>4, AskType DEF Pwnam
  <2>6. CASE Banner
    <3>1. [child EXCEPT !.lists = auth2_setup_methods_lists] \in ChildState
      <4>1. auth2_setup_methods_lists \in MethodLists
        BY ListsType
      <4> QED BY <4>1 DEF ChildState
    <3>2. CASE Ask([child EXCEPT !.pc = "disconnected"], <<>>)
      BY <3>2, <2>1, <2>3, AskType
    <3>3. CASE Try([child EXCEPT !.lists = auth2_setup_methods_lists])
      BY <3>1, <3>3, <2>1, TryType
    <3> QED
      BY <2>6, <3>2, <3>3 DEF Banner
  <2>7. CASE userauth_passwd
    BY <2>7, <2>1, FinishType, AskType DEF userauth_passwd
  <2>8. CASE userauth_pubkey
    <3>1. [child EXCEPT !.pc = "idle", !.reply = "PK_OK", !.r = NoRequest] \in ChildState
      BY ZenonT(60) DEF ChildState, NoRequest, ClientRequest, UserNames, Keys
    <3>2. <<Req("KEYVERIFY", child.r)>> \in Seq(Request) /\ <<>> \in Seq(Request)
      BY <2>2, ReqType DEF Types, Table
    <3>3. userauth_finish(child, FALSE) \in ChildState
      BY FinishType
    <3>4. \/ Ask([child EXCEPT !.pc = "verify"], <<Req("KEYVERIFY", child.r)>>)
          \/ Ask([child EXCEPT !.pc = "idle", !.reply = "PK_OK", !.r = NoRequest], <<>>)
          \/ Ask(userauth_finish(child, FALSE), <<>>)
      BY <2>8 DEF userauth_pubkey
    <3> QED
      BY <2>1, <2>3, <3>1, <3>2, <3>3, <3>4, AskType
  <2>9. CASE Verify
    <3> DEFINE c == IF Head(answers)
                    THEN [child EXCEPT !.prev_keys = @ \cup {child.r.key}] ELSE child
    <3>1. c \in ChildState
      <4>1. child.prev_keys \cup {child.r.key} \in SUBSET Keys
        BY ChildFields
      <4> QED BY <4>1 DEF ChildState
    <3> QED
      BY <2>9, <2>1, <3>1, FinishType, AskType DEF Verify
  <2> QED
    BY <1>8, <2>4, <2>5, <2>6, <2>7, <2>8, <2>9
<1>9. CASE mm_send_keystate
  <2>1. [child EXCEPT !.pc = "exported"] \in ChildState
    BY DEF ChildState
  <2>2. <<Req("KEYEXPORT", NoRequest)>> \in Seq(Request)
    BY DEF Req, Request, NoRequest, UserNames, Keys, Types, Table
  <2> QED
    BY <1>9, <2>1, <2>2, AskType DEF mm_send_keystate
<1> QED
  BY <1>1, <1>2, <1>3, <1>4, <1>5, <1>6, <1>7, <1>8, <1>9
  DEF Next, Child, Monitor, Signed, Pwnam, Banner, userauth_passwd, userauth_pubkey,
      Verify, Answered

\* Every variable of the two processes keeps its type.
THEOREM TypeCorrect == Spec => []TypeOK
  BY InitTypeOK, NextTypeOK, PTL DEF Spec

-----------------------------------------------------------------------------
(***************************************************************************)
(* What the monitor grants.  The invariant is about the monitor alone and  *)
(* holds whatever the child does: what is left of a list, and what the log *)
(* has of it; a key is in the log once; an answer that is still to be      *)
(* judged is one of a valid user.                                          *)
(***************************************************************************)
AnyMethod == Methods \cup {"unknown"}

\* l is full without its first k elements, and those are in s, in order.
Rest(l, full, k) ==
    Len(l) = Len(full) - k /\ \A j \in 1 .. Len(l) : l[j] = full[k + j]
Embeds(full, k, s) ==
    \E f \in [1 .. k -> DOMAIN s] :
        \A i, j \in 1 .. k : s[f[i]] = full[i] /\ (i < j => f[i] < f[j])

\* root, and the server does not let root in by any method.
RootBarred(m) == m.user = "root" /\ conf.root \notin {"yes", "prohibit-password"}

\* For a barred root the lists can run ahead of the log.
ListsDone(m) ==
    ~RootBarred(m) => \A i \in DOMAIN m.lists :
        /\ i \in DOMAIN conf.lists
        /\ \E k \in 0 .. Len(conf.lists[i]) :
              Rest(m.lists[i], conf.lists[i], k) /\ Embeds(conf.lists[i], k, m.log)

\* The monitor has answered "yes" and is to judge it.
Pending(m) == m.phase = Decide /\ m.err = "none" /\ m.ret

PubCount(log) == Cardinality({i \in DOMAIN log : log[i] = "publickey"})
PubPending(m) == IF Pending(m) /\ m.auth_method = "publickey" THEN 1 ELSE 0

KeysOnce(m) ==
    /\ IsFiniteSet(m.prev_keys)
    /\ m.key_blob \in (PubKeys \ m.prev_keys) \cup {NoKey}
    /\ PubCount(m.log) + PubPending(m) <= Cardinality(m.prev_keys)

ValidOnly(m) ==
    /\ m.valid => m.attempt = 1 /\ m.user \in Accounts
    /\ m.key_blob # NoKey => m.valid
    /\ Pending(m) =>
         /\ m.valid /\ m.type \in MON_AUTHDECIDE
         /\ m.user = "root" => conf.root = "yes" \/ m.auth_method = "publickey"

Completed(m) ==
    m.phase \in {"granted", "session"} =>
        /\ m.user \in Accounts
        /\ m.log # <<>>
        /\ m.user = "root" => auth_root_allowed(m.log[Len(m.log)])
        /\ Configured => \E i \in DOMAIN conf.lists :
                            Embeds(conf.lists[i], Len(conf.lists[i]), m.log)

MonitorInv(m) == ListsDone(m) /\ KeysOnce(m) /\ ValidOnly(m) /\ Completed(m)

(***************************************************************************)
(* A longer log has what the shorter one had, and one element more.        *)
(***************************************************************************)
LEMMA EmbedsAppend ==
    ASSUME NEW S, NEW s \in Seq(S), NEW m \in S, NEW full, NEW k \in Nat,
           Embeds(full, k, s)
    PROVE  /\ Embeds(full, k, Append(s, m))
           /\ full[k + 1] = m => Embeds(full, k + 1, Append(s, m))
<1> DEFINE t == Append(s, m)
           n == Len(s) + 1
<1>1. /\ DOMAIN s = 1 .. Len(s) /\ DOMAIN t = 1 .. n /\ Len(s) \in Nat
      /\ t[n] = m /\ \A i \in 1 .. Len(s) : t[i] = s[i]
  OBVIOUS
<1> HIDE DEF t, n
<1>2. PICK f \in [1 .. k -> DOMAIN s] :
        \A i, j \in 1 .. k : s[f[i]] = full[i] /\ (i < j => f[i] < f[j])
  BY DEF Embeds
<1>3. Embeds(full, k, t)
  <2>1. f \in [1 .. k -> DOMAIN t]
    BY <1>1, <1>2 DEF n
  <2>2. \A i, j \in 1 .. k : t[f[i]] = full[i] /\ (i < j => f[i] < f[j])
    BY <1>1, <1>2
  <2> QED BY <2>1, <2>2 DEF Embeds
<1>4. ASSUME full[k + 1] = m PROVE Embeds(full, k + 1, t)
  <2> DEFINE g == [i \in 1 .. k + 1 |-> IF i = k + 1 THEN n ELSE f[i]]
  <2>1. g \in [1 .. k + 1 -> DOMAIN t]
    BY <1>1, <1>2 DEF n
  <2>2. \A i \in 1 .. k + 1 : t[g[i]] = full[i]
    BY <1>1, <1>2, <1>4
  <2>3. \A i, j \in 1 .. k + 1 : i < j => g[i] < g[j]
    BY <1>1, <1>2 DEF n
  <2> HIDE DEF g
  <2> QED BY <2>1, <2>2, <2>3 DEF Embeds
<1> QED BY <1>3, <1>4 DEF t

LEMMA PubCountAppend ==
    ASSUME NEW S, NEW s \in Seq(S), NEW m \in S
    PROVE  /\ PubCount(s) \in Nat
           /\ PubCount(Append(s, m)) = PubCount(s) + (IF m = "publickey" THEN 1 ELSE 0)
<1> DEFINE A == {i \in DOMAIN s : s[i] = "publickey"}
           t == Append(s, m)
           n == Len(s) + 1
           B == {i \in DOMAIN t : t[i] = "publickey"}
<1>1. /\ DOMAIN s = 1 .. Len(s) /\ DOMAIN t = 1 .. n /\ Len(s) \in Nat
      /\ t[n] = m /\ \A i \in 1 .. Len(s) : t[i] = s[i]
  OBVIOUS
<1>2. IsFiniteSet(A)
  <2>1. IsFiniteSet(1 .. Len(s)) /\ A \subseteq 1 .. Len(s)
    BY <1>1, FS_Interval
  <2> QED BY <2>1, FS_Subset
<1>3. n \notin A /\ B = IF m = "publickey" THEN A \cup {n} ELSE A
  BY <1>1
<1> HIDE DEF A, B
<1>4. Cardinality(A) \in Nat /\ Cardinality(A \cup {n}) = Cardinality(A) + 1
  BY <1>2, <1>3, FS_CardinalityType, FS_AddElement
<1>5. PubCount(s) = Cardinality(A) /\ PubCount(Append(s, m)) = Cardinality(B)
  BY DEF PubCount, A, B
<1> HIDE DEF n
<1> QED BY <1>3, <1>4, <1>5

LEMMA PubCountNat ==
    ASSUME NEW S, NEW s \in Seq(S)
    PROVE  PubCount(s) \in Nat
<1>1. IsFiniteSet(1 .. Len(s)) /\ {i \in DOMAIN s : s[i] = "publickey"} \subseteq 1 .. Len(s)
  BY FS_Interval
<1> QED BY <1>1, FS_Subset, FS_CardinalityType DEF PubCount

\* n differs from m in no more than the outcome of the request.
SameButRet(n, m) ==
    /\ n.phase = m.phase /\ n.err = m.err /\ n.type = m.type
    /\ n.lists = m.lists /\ n.log = m.log /\ n.prev_keys = m.prev_keys
    /\ n.key_blob = m.key_blob /\ n.valid = m.valid /\ n.user = m.user
    /\ n.attempt = m.attempt

(***************************************************************************)
(* A request handled in the loop.                                          *)
(***************************************************************************)
LEMMA HandlerInv ==
    ASSUME TypeOK, NEW m \in MonitorState, NEW q \in Request, MonitorInv(m),
           m.phase = Decide, m.ret = FALSE, m.type = q.type
    PROVE  MonitorInv(Handler(m, q)) /\ Handler(m, q).phase = Decide
<1> USE DEF MonitorInv
<1>1. m.phase \notin {"granted", "session"} /\ ~Pending(m) /\ PubPending(m) = 0
  BY DEF Decide, Pending, PubPending
<1>2. ASSUME NEW n \in MonitorState, n.phase = Decide, n.lists = m.lists,
             n.log = m.log, n.prev_keys = m.prev_keys, n.key_blob = m.key_blob,
             n.valid = m.valid, n.user = m.user, n.attempt = m.attempt, ~Pending(n)
      PROVE  MonitorInv(n)
  BY <1>1, <1>2
  DEF ListsDone, RootBarred, KeysOnce, ValidOnly, Completed, Decide, PubPending
<1>0. ASSUME NEW e, [m EXCEPT !.err = e] \in MonitorState
      PROVE  /\ MonitorInv([m EXCEPT !.err = e])
             /\ [m EXCEPT !.err = e].phase = Decide
  <2> DEFINE n == [m EXCEPT !.err = e]
  <2>1. /\ n.phase = Decide /\ n.lists = m.lists /\ n.log = m.log
        /\ n.prev_keys = m.prev_keys /\ n.key_blob = m.key_blob
        /\ n.valid = m.valid /\ n.user = m.user /\ n.attempt = m.attempt
        /\ n.ret = FALSE
    BY DEF MonitorState
  <2> n \in MonitorState
    BY <1>0
  <2> HIDE DEF n
  <2>2. ~Pending(n)
    BY <2>1 DEF Pending
  <2>3. MonitorInv(n)
    BY <1>2, <2>1, <2>2
  <2> QED BY <2>1, <2>3 DEF n
<1>3. CASE q.type \notin m.permit
  <2>1. Handler(m, q) = [m EXCEPT !.err = "unpermitted"]
    BY <1>3 DEF Handler
  <2>2. [m EXCEPT !.err = "unpermitted"] \in MonitorState
    BY DEF MonitorState
  <2> QED
    BY <1>0, <2>1, <2>2
<1>4. CASE q.type \in m.permit
  <2>0. q.type \in Table
    BY <1>4 DEF MonitorState
  <2>1. CASE q.type \in {"SIGN", "AUTHSERV", "READ_BANNER"}
    <3>1. Handler(m, q) \in {mm_answer_sign(m), mm_answer_authserv(m), m}
      BY <1>4, <2>1 DEF Handler
    <3>2. Handler(m, q) \in MonitorState
      BY <3>1 DEF mm_answer_sign, mm_answer_authserv, MonitorState, MON_ISAUTH, Table
    <3> QED
      BY <1>2, <3>1, <3>2 DEF mm_answer_sign, mm_answer_authserv, MonitorState, Pending
  <2>2. CASE q.type = "PWNAM"
    <3>1. Handler(m, q) = mm_answer_pwnamallow(m, q)
      BY <1>4, <2>2 DEF Handler
    <3>2. CASE m.attempt # 0
      <4>1. Handler(m, q) = [m EXCEPT !.err = "getpwnam"]
        BY <3>1, <3>2, Zenon DEF mm_answer_pwnamallow
      <4>2. [m EXCEPT !.err = "getpwnam"] \in MonitorState
        BY DEF MonitorState
      <4> QED
        BY <1>2, <4>1, <4>2, SMTT(30) DEF MonitorState, Pending
    <3>3. CASE m.attempt = 0
      <4> DEFINE n == Handler(m, q)
                 L == auth2_setup_methods_lists
      <4>2. /\ n.attempt = 1 /\ n.user = q.user /\ n.valid = (q.user \in Accounts)
            /\ n.lists = L /\ n.phase = Decide /\ n.ret = FALSE
            /\ n.key_blob = m.key_blob /\ n.prev_keys = m.prev_keys
            /\ n.log = m.log
        <5> DEFINE v == q.user \in Accounts
                   P == m.permit \cup {"AUTHSERV", "READ_BANNER"}
        <5>1. n = [m EXCEPT !.attempt = 1, !.user = q.user, !.valid = v,
                            !.lists = L, !.permit = P]
          BY <3>1, <3>3 DEF mm_answer_pwnamallow
        <5>2. v \in BOOLEAN
          OBVIOUS
        <5>3. n.valid = v
          <6> HIDE DEF n, L, v, P
          <6> QED BY <5>1, <5>2 DEF MonitorState
        <5>4. /\ n.attempt = 1 /\ n.user = q.user
              /\ n.lists = L /\ n.phase = Decide /\ n.ret = FALSE
              /\ n.key_blob = m.key_blob /\ n.prev_keys = m.prev_keys
              /\ n.log = m.log
          <6> HIDE DEF n, L, v, P
          <6> QED BY <5>1, <5>2 DEF MonitorState
        <5> QED BY <5>3, <5>4
      <4>3. m.key_blob = NoKey
        BY <3>3 DEF ValidOnly
      <4>4. ~Pending(n)
        BY <4>2 DEF Pending
      <4> HIDE DEF n
      <4>5. ListsDone(n)
        <5>1. \A i \in DOMAIN L : i \in DOMAIN conf.lists /\ L[i] = conf.lists[i]
          BY DEF auth2_setup_methods_lists
        <5>2. \A i \in DOMAIN conf.lists : conf.lists[i] \in Seq(Methods)
          BY DEF TypeOK, Config
        <5>3. \A l \in Seq(Methods) : 0 \in 0 .. Len(l) /\ Rest(l, l, 0)
          BY DEF Rest
        <5>4. \A l, s : Embeds(l, 0, s)
          <6>1. ASSUME NEW s PROVE [i \in 1 .. 0 |-> i] \in [1 .. 0 -> DOMAIN s]
            OBVIOUS
          <6>2. \A i \in 1 .. 0 : FALSE
            OBVIOUS
          <6> QED BY <6>1, <6>2, Zenon DEF Embeds
        <5> HIDE DEF L
        <5> QED BY <4>2, <5>1, <5>2, <5>3, <5>4 DEF ListsDone
      <4>6. KeysOnce(n)
        BY <4>2, <4>4, <1>1 DEF KeysOnce, PubPending
      <4>7. ValidOnly(n) /\ Completed(n)
        BY <4>2, <4>3, <4>4 DEF ValidOnly, Completed, Decide
      <4> QED
        BY <4>2, <4>5, <4>6, <4>7 DEF n
    <3> QED BY <3>2, <3>3
  <2>3. CASE q.type = "AUTHPASSWORD"
    <3>1. Handler(m, q) = mm_answer_authpassword(m, q)
      BY <1>4, <2>3 DEF Handler
    <3>2. CASE "password" \notin conf.enabled
      <4>1. Handler(m, q) = [m EXCEPT !.err = "disabled"]
        BY <3>1, <3>2, Zenon DEF mm_answer_authpassword
      <4>2. [m EXCEPT !.err = "disabled"] \in MonitorState
        BY DEF MonitorState
      <4> QED
        BY <1>2, <4>1, <4>2, SMTT(30) DEF MonitorState, Pending
    <3>3. CASE "password" \in conf.enabled
      <4> DEFINE n == Handler(m, q)
      <4>2. /\ n.ret = auth_password(m, q) /\ n.auth_method # "publickey"
            /\ SameButRet(n, m)
        <5> DEFINE v == auth_password(m, q)
                   k == IF q.empty /\ m.calls = 0 THEN "none" ELSE "password"
                   c == m.calls + 1
        <5>1. n = [m EXCEPT !.calls = c, !.ret = v, !.auth_method = k]
          BY <3>1, <3>3 DEF mm_answer_authpassword
        <5>2. v \in BOOLEAN /\ k # "publickey"
          BY DEF auth_password
        <5>3. n.ret = v /\ n.auth_method # "publickey" /\ SameButRet(n, m)
          <6> HIDE DEF n, v, k, c
          <6> QED BY <5>1, <5>2 DEF MonitorState, SameButRet
        <5> QED BY <5>3
      <4>3. n.ret => m.valid /\ (m.user = "root" => conf.root = "yes")
        BY <4>2 DEF auth_password
      <4> HIDE DEF n
      <4>4. PubPending(n) = 0
        BY <4>2 DEF PubPending
      <4>5. Pending(n) => /\ n.valid /\ n.type \in MON_AUTHDECIDE
                          /\ n.user = "root" => conf.root = "yes"
        BY <4>2, <4>3, <2>3 DEF Pending, SameButRet, MON_AUTHDECIDE
      <4>6. n.phase = Decide
        BY <4>2 DEF SameButRet
      <4> QED
        BY <1>1, <4>2, <4>4, <4>5, <4>6
        DEF SameButRet, ListsDone, RootBarred, KeysOnce, ValidOnly, Completed, n
    <3> QED BY <3>2, <3>3
  <2>4. CASE q.type = "KEYALLOWED"
    <3>1. Handler(m, q) = mm_answer_keyallowed(m, q)
      BY <1>4, <2>4 DEF Handler
    <3> DEFINE n == Handler(m, q)
               b == IF KeyAllowed(m, q) THEN q.key ELSE NoKey
    <3>3. /\ n.key_blob = b /\ n.ret = FALSE /\ n.phase = Decide
          /\ n.lists = m.lists /\ n.log = m.log
          /\ n.prev_keys = m.prev_keys /\ n.valid = m.valid
          /\ n.user = m.user /\ n.attempt = m.attempt
      <4> DEFINE k == IF m.valid THEN "publickey" ELSE m.auth_method
      <4>1. n = [m EXCEPT !.auth_method = k, !.key_blob = b]
        BY <3>1 DEF mm_answer_keyallowed
      <4> HIDE DEF n, b, k
      <4> QED BY <4>1 DEF MonitorState
    <3>4. b \in (PubKeys \ m.prev_keys) \cup {NoKey} /\ (b # NoKey => m.valid)
      BY DEF KeyAllowed
    <3> HIDE DEF n, b
    <3>5. ~Pending(n) /\ PubPending(n) = 0
      BY <3>3 DEF Pending, PubPending
    <3> QED
      BY <1>1, <3>3, <3>4, <3>5
      DEF ListsDone, RootBarred, KeysOnce, ValidOnly, Completed, n
  <2>5. CASE q.type = "KEYVERIFY"
    <3>1. Handler(m, q) = mm_answer_keyverify(m, q)
      BY <1>4, <2>5 DEF Handler
    <3>2. CASE m.key_blob = NoKey \/ q.key # m.key_blob
      <4>1. Handler(m, q) = [m EXCEPT !.err = "notallowed"]
        BY <3>1, <3>2, Zenon DEF mm_answer_keyverify
      <4>2. [m EXCEPT !.err = "notallowed"] \in MonitorState
        BY DEF MonitorState
      <4> QED
        BY <1>0, <4>1, <4>2
    <3>4. CASE ~(m.key_blob = NoKey \/ q.key # m.key_blob) /\ ~q.data
      <4>1. Handler(m, q) = [m EXCEPT !.err = "badblob"]
        BY <3>1, <3>4, Zenon DEF mm_answer_keyverify
      <4>2. [m EXCEPT !.err = "badblob"] \in MonitorState
        BY DEF MonitorState
      <4> QED
        BY <1>0, <4>1, <4>2
    <3>3. CASE ~(m.key_blob = NoKey \/ q.key # m.key_blob) /\ q.data
      <4> DEFINE n == Handler(m, q)
                 P == IF q.good THEN m.prev_keys \cup {q.key} ELSE m.prev_keys
      <4>2. /\ n.ret = q.good /\ n.prev_keys = P /\ n.key_blob = NoKey
            /\ n.phase = Decide /\ n.type = m.type /\ n.err = m.err
            /\ n.auth_method = "publickey" /\ n.lists = m.lists /\ n.log = m.log /\ n.valid = m.valid
            /\ n.user = m.user /\ n.attempt = m.attempt
        <5>1. n = [m EXCEPT !.auth_method = "publickey", !.ret = q.good,
                            !.prev_keys = P, !.key_blob = NoKey]
          BY <3>1, <3>3 DEF mm_answer_keyverify
        <5>2. q.good \in BOOLEAN
          BY DEF Request
        <5> HIDE DEF n, P
        <5> QED BY <5>1, <5>2 DEF MonitorState
      <4>3. m.valid
        BY <3>3 DEF ValidOnly
      <4>4. /\ IsFiniteSet(P)
            /\ Cardinality(P) = Cardinality(m.prev_keys) + (IF q.good THEN 1 ELSE 0)
            /\ Cardinality(m.prev_keys) \in Nat
        <5>1. q.key \notin m.prev_keys /\ IsFiniteSet(m.prev_keys)
          BY <3>3 DEF KeysOnce
        <5>2. Cardinality(m.prev_keys) \in Nat
          BY <5>1, FS_CardinalityType
        <5> QED BY <5>1, <5>2, FS_AddElement
      <4> HIDE DEF n, P
      <4>5. /\ PubPending(n) <= (IF q.good THEN 1 ELSE 0) /\ PubPending(n) \in Nat
            /\ Pending(n) => /\ n.valid /\ n.type \in MON_AUTHDECIDE
                             /\ n.auth_method = "publickey"
        BY <4>2, <4>3, <2>5 DEF PubPending, Pending, MON_AUTHDECIDE
      <4>6. PubCount(m.log) \in Nat
        BY PubCountNat DEF MonitorState
      <4>7. KeysOnce(n)
        BY <1>1, <4>2, <4>4, <4>5, <4>6 DEF KeysOnce
      <4>8. ListsDone(n) /\ ValidOnly(n) /\ Completed(n)
        BY <4>2, <4>3, <4>5 DEF ListsDone, RootBarred, ValidOnly, Completed, Decide
      <4> QED
        BY <4>2, <4>7, <4>8 DEF n
    <3> QED BY <3>2, <3>3, <3>4
  <2> QED BY <2>0, <2>1, <2>2, <2>3, <2>4, <2>5 DEF Table
<1> QED BY <1>3, <1>4

LEMMA HandledInv ==
    ASSUME TypeOK, NEW m \in MonitorState, NEW q \in Request, MonitorInv(m),
           m.phase = Loop
    PROVE  MonitorInv(Handled(m, q))
<1> DEFINE n == [m EXCEPT !.type = q.type, !.ret = FALSE,
                          !.auth_method = "unknown", !.phase = Decide]
           r == Handler(n, q)
           P == r.permit \ {q.type}
<1>1. PubPending(m) = 0
  BY DEF PubPending, Pending, Loop, Decide
<1>2. n \in MonitorState
  BY DEF MonitorState, Request
<1>3. /\ n.type = q.type /\ n.ret = FALSE /\ n.phase = Decide
      /\ n.lists = m.lists /\ n.log = m.log /\ n.prev_keys = m.prev_keys
      /\ n.key_blob = m.key_blob /\ n.valid = m.valid /\ n.user = m.user
      /\ n.attempt = m.attempt
  BY DEF MonitorState
<1> HIDE DEF n
<1>4. MonitorInv(n)
  <2>1. ~Pending(n) /\ PubPending(n) = 0
    BY <1>3 DEF Pending, PubPending
  <2> QED
    BY <1>1, <1>3, <2>1
    DEF MonitorInv, ListsDone, RootBarred, KeysOnce, ValidOnly, Completed, Decide
<1>5. MonitorInv(r)
  BY <1>2, <1>3, <1>4, HandlerInv
<1>6. r \in MonitorState
  BY <1>2, HandlerType
<1>7. Handled(m, q) = IF q.type \in MON_ONCE THEN [r EXCEPT !.permit = P] ELSE r
  BY DEF Handled, n
<1> HIDE DEF r, P
<1>8. MonitorInv([r EXCEPT !.permit = P])
  <2> DEFINE z == [r EXCEPT !.permit = P]
  <2>1. /\ SameButRet(z, r) /\ z.ret = r.ret /\ z.auth_method = r.auth_method
    BY <1>6 DEF SameButRet, MonitorState
  <2> HIDE DEF z
  <2>2. PubPending(z) = PubPending(r) /\ (Pending(z) => Pending(r))
    BY <2>1 DEF SameButRet, PubPending, Pending
  <2>3. MonitorInv(z)
    BY <1>5, <2>1, <2>2
    DEF SameButRet, MonitorInv, ListsDone, RootBarred, KeysOnce, ValidOnly, Completed
  <2> QED BY <2>3 DEF z
<1> QED BY <1>5, <1>7, <1>8

(***************************************************************************)
(* A method that succeeds leaves the lists and enters the log.             *)
(***************************************************************************)
LEMMA UpdateDone ==
    ASSUME TypeOK, NEW m \in MonitorState, ListsDone(m), ~RootBarred(m),
           NEW i \in DOMAIN m.lists
    PROVE  LET l == auth2_update_methods_lists(m.lists, m.auth_method)[i]
           IN  \E k \in 0 .. Len(conf.lists[i]) :
                  /\ Rest(l, conf.lists[i], k)
                  /\ Embeds(conf.lists[i], k, Append(m.log, m.auth_method))
<1> DEFINE full == conf.lists[i]
           am == m.auth_method
           old == m.lists[i]
           l == auth2_update_methods_lists(m.lists, am)[i]
           t == Append(m.log, am)
<1>1. i \in DOMAIN conf.lists
  BY DEF ListsDone
<1>2. full \in Seq(Methods) /\ old \in Seq(Methods)
  BY <1>1 DEF TypeOK, Config, MonitorState, MethodLists
<1>3. PICK k \in 0 .. Len(full) : Rest(old, full, k) /\ Embeds(full, k, m.log)
  BY DEF ListsDone
<1>4. m.log \in Seq(AnyMethod) /\ am \in AnyMethod
  BY DEF MonitorState, AnyMethod
<1>5. k \in Nat /\ Len(full) \in Nat
  BY <1>2, <1>3
<1>6. Embeds(full, k, t) /\ (full[k + 1] = am => Embeds(full, k + 1, t))
  BY <1>3, <1>4, <1>5, EmbedsAppend
<1>7. l = old \/ (list_starts_with(old, am) /\ l = Tail(old))
  BY DEF auth2_update_methods_lists
<1> HIDE DEF full, am, old, l, t
<1>8. CASE l = old
  BY <1>3, <1>6, <1>8 DEF full, am, l, t
<1>9. CASE list_starts_with(old, am) /\ l = Tail(old)
  <2>1. old # <<>> /\ Head(old) = am
    BY <1>9 DEF list_starts_with
  <2>2. Len(old) > 0 /\ old[1] = am /\ Len(l) = Len(old) - 1
        /\ \A j \in 1 .. Len(l) : l[j] = old[j + 1]
    BY <1>2, <1>9, <2>1
  <2>3. Len(old) \in Nat /\ Len(old) = Len(full) - k
    BY <1>2, <1>3 DEF Rest
  <2>4. k + 1 \in 0 .. Len(full) /\ full[k + 1] = am
    BY <1>3, <1>5, <2>2, <2>3 DEF Rest
  <2>5. Rest(l, full, k + 1)
    <3>1. Len(l) = Len(full) - (k + 1)
      BY <1>5, <2>2, <2>3
    <3>2. ASSUME NEW j \in 1 .. Len(l) PROVE l[j] = full[(k + 1) + j]
      <4>1. j + 1 \in 1 .. Len(old) /\ k + (j + 1) = (k + 1) + j
        BY <1>5, <2>2, <2>3
      <4> QED BY <1>3, <2>2, <4>1 DEF Rest
    <3> QED BY <3>1, <3>2 DEF Rest
  <2> QED BY <1>6, <2>4, <2>5 DEF full, am, l, t
<1> QED BY <1>7, <1>8, <1>9

(***************************************************************************)
(* What Judged makes of a request.                                         *)
(***************************************************************************)
JudgedLists(m) == IF Updated(m) THEN auth2_update_methods_lists(m.lists, m.auth_method)
                  ELSE m.lists
JudgedLog(m) == IF Authenticated(m) \/ Partial(m)
                THEN Append(m.log, m.auth_method) ELSE m.log

LEMMA JudgedFields ==
    ASSUME TypeOK, NEW m \in MonitorState, m.phase = Decide, m.err = "none"
    PROVE  LET n == Judged(m)
           IN  /\ n.prev_keys = m.prev_keys /\ n.key_blob = m.key_blob
               /\ n.valid = m.valid /\ n.user = m.user /\ n.attempt = m.attempt
               /\ \/ n.lists = m.lists /\ n.log = m.log /\ n.phase = Decide
                     /\ n.err # "none"
                  \/ /\ n.lists = JudgedLists(m) /\ n.log = JudgedLog(m)
                     /\ \/ n.phase = Decide /\ n.err # "none"
                        \/ n.phase = Loop /\ ~Authenticated(m)
                        \/ n.phase = "granted" /\ Authenticated(m)
<1> DEFINE failed == m.type \in MON_AUTHDECIDE /\ ~Partial(m) /\ ~Authenticated(m)
           f == IF failed THEN m.failures + 1 ELSE m.failures
           L == JudgedLists(m)
           g == JudgedLog(m)
           p == [m EXCEPT !.lists = L, !.failures = f, !.log = g]
           ph == IF Authenticated(m) THEN "granted" ELSE Loop
           n == Judged(m)
<1>1. \/ n = [m EXCEPT !.err = "nolist"]
      \/ n = [p EXCEPT !.err = "decide"]
      \/ n = [p EXCEPT !.err = "tries"]
      \/ n = [p EXCEPT !.err = "invalid"]
      \/ n = [p EXCEPT !.phase = ph, !.type = "NULL"]
  BY DEF Judged, JudgedLists, JudgedLog
<1>2. \/ ph = "granted" /\ Authenticated(m)
      \/ ph = Loop /\ ~Authenticated(m)
  OBVIOUS
<1> HIDE DEF f, L, g, ph, n
<1>3. CASE n = [m EXCEPT !.err = "nolist"]
  BY <1>3 DEF MonitorState, n
<1>4. CASE \E e \in {"decide", "tries", "invalid"} : n = [p EXCEPT !.err = e]
  <2>1. PICK e \in {"decide", "tries", "invalid"} : n = [p EXCEPT !.err = e]
    BY <1>4
  <2>2. n.lists = L /\ n.log = g /\ n.phase = Decide /\ n.err # "none"
    BY <2>1 DEF MonitorState
  <2>3. /\ n.prev_keys = m.prev_keys /\ n.key_blob = m.key_blob
        /\ n.valid = m.valid /\ n.user = m.user /\ n.attempt = m.attempt
    BY <2>1 DEF MonitorState
  <2> QED BY <2>2, <2>3 DEF L, g, n
<1>5. CASE n = [p EXCEPT !.phase = ph, !.type = "NULL"]
  <2>1. n.lists = L /\ n.log = g /\ n.phase = ph
    BY <1>5 DEF MonitorState
  <2>2. /\ n.prev_keys = m.prev_keys /\ n.key_blob = m.key_blob
        /\ n.valid = m.valid /\ n.user = m.user /\ n.attempt = m.attempt
    BY <1>5 DEF MonitorState
  <2> QED BY <1>2, <2>1, <2>2 DEF L, g, n
<1> QED BY <1>1, <1>3, <1>4, <1>5

LEMMA JudgedInv ==
    ASSUME TypeOK, NEW m \in MonitorState, MonitorInv(m),
           m.phase = Decide, m.err = "none"
    PROVE  MonitorInv(Judged(m))
<1> DEFINE n == Judged(m)
           am == m.auth_method
           t == Append(m.log, am)
<1>1. /\ n.prev_keys = m.prev_keys /\ n.key_blob = m.key_blob
      /\ n.valid = m.valid /\ n.user = m.user /\ n.attempt = m.attempt
  BY JudgedFields
<1>2. \/ n.lists = m.lists /\ n.log = m.log /\ n.phase = Decide /\ n.err # "none"
      \/ /\ n.lists = JudgedLists(m) /\ n.log = JudgedLog(m)
         /\ \/ n.phase = Decide /\ n.err # "none"
            \/ n.phase = Loop /\ ~Authenticated(m)
            \/ n.phase = "granted" /\ Authenticated(m)
  BY JudgedFields
<1> HIDE DEF n
<1>3. ~Pending(n) /\ PubPending(n) = 0
  BY <1>2 DEF Pending, PubPending, Loop, Decide
<1>4. m.log \in Seq(AnyMethod) /\ am \in AnyMethod
  BY DEF MonitorState, AnyMethod
<1>5. /\ Authenticated(m) => Pending(m)
      /\ Partial(m) => Pending(m)
      /\ Updated(m) => Pending(m)
  BY DEF Pending, Authenticated, Partial, Updated
<1>6. RootBarred(n) = RootBarred(m)
  BY <1>1 DEF RootBarred
<1>7. Updated(m) /\ ~RootBarred(m) => Authenticated(m) \/ Partial(m)
  BY <1>5 DEF MonitorInv, ValidOnly, RootBarred, Updated, Authenticated, auth_root_allowed
<1>8. KeysOnce(n)
  <2>1. /\ PubCount(m.log) \in Nat
        /\ PubCount(t) = PubCount(m.log) + (IF am = "publickey" THEN 1 ELSE 0)
    BY <1>4, PubCountAppend
  <2>2. /\ IsFiniteSet(m.prev_keys) /\ Cardinality(m.prev_keys) \in Nat
        /\ PubCount(m.log) + PubPending(m) <= Cardinality(m.prev_keys)
        /\ m.key_blob \in (PubKeys \ m.prev_keys) \cup {NoKey}
    BY FS_CardinalityType DEF MonitorInv, KeysOnce
  <2>3. PubPending(m) = IF Pending(m) /\ am = "publickey" THEN 1 ELSE 0
    BY DEF PubPending
  <2>4. PubCount(n.log) <= PubCount(m.log) + PubPending(m)
    <3> HIDE DEF t, am
    <3>1. CASE n.log = m.log
      BY <3>1, <2>1, <2>3
    <3>2. CASE n.log = t /\ Pending(m)
      BY <3>2, <2>1, <2>3
    <3>3. n.log = m.log \/ (n.log = t /\ Pending(m))
      BY <1>2, <1>5 DEF JudgedLog, t, am
    <3> QED BY <3>1, <3>2, <3>3
  <2>5. PubCount(n.log) \in Nat
    <3>1. n.log \in Seq(AnyMethod)
      <4>1. t \in Seq(AnyMethod)
        BY <1>4
      <4>2. n.log = m.log \/ n.log = t
        BY <1>2 DEF JudgedLog
      <4> QED BY <1>4, <4>1, <4>2
    <3> QED BY <3>1, PubCountNat
  <2> HIDE DEF t, am
  <2>6. PubCount(n.log) <= Cardinality(m.prev_keys)
    BY <2>1, <2>2, <2>3, <2>4, <2>5
  <2> QED BY <1>1, <1>3, <2>2, <2>5, <2>6 DEF KeysOnce
<1>9. ValidOnly(n)
  BY <1>1, <1>3 DEF MonitorInv, ValidOnly
<1>10. ListsDone(n)
  <2> SUFFICES ASSUME ~RootBarred(m), NEW i \in DOMAIN n.lists
               PROVE  /\ i \in DOMAIN conf.lists
                      /\ \E k \in 0 .. Len(conf.lists[i]) :
                            Rest(n.lists[i], conf.lists[i], k)
                            /\ Embeds(conf.lists[i], k, n.log)
    BY <1>6 DEF ListsDone
  <2>1. DOMAIN n.lists = DOMAIN m.lists
    BY <1>2 DEF JudgedLists, auth2_update_methods_lists
  <2>2. ListsDone(m) /\ i \in DOMAIN m.lists
    BY <2>1 DEF MonitorInv
  <2>3. i \in DOMAIN conf.lists
    BY <2>2 DEF ListsDone
  <2>4. CASE n.lists = m.lists /\ n.log = m.log
    BY <2>2, <2>3, <2>4 DEF ListsDone
  <2>5. CASE n.lists = m.lists /\ n.log = t
    <3>1. PICK k \in 0 .. Len(conf.lists[i]) :
            Rest(m.lists[i], conf.lists[i], k) /\ Embeds(conf.lists[i], k, m.log)
      BY <2>2 DEF ListsDone
    <3>2. k \in Nat
      BY <2>3, <3>1 DEF TypeOK, Config
    <3>3. Embeds(conf.lists[i], k, t)
      BY <1>4, <3>1, <3>2, EmbedsAppend
    <3> QED BY <2>3, <2>5, <3>1, <3>3
  <2>6. CASE n.lists = auth2_update_methods_lists(m.lists, am) /\ n.log = t
    BY <2>2, <2>3, <2>6, UpdateDone
  <2>7. CASE n.lists = JudgedLists(m) /\ n.log = JudgedLog(m)
    BY <1>7, <2>4, <2>5, <2>6, <2>7 DEF JudgedLists, JudgedLog
  <2> QED BY <1>2, <2>4, <2>7
<1>11. Completed(n)
  <2> SUFFICES ASSUME n.phase \in {"granted", "session"}
               PROVE  /\ m.user \in Accounts
                      /\ n.log # <<>>
                      /\ m.user = "root" => auth_root_allowed(n.log[Len(n.log)])
                      /\ Configured => \E i \in DOMAIN conf.lists :
                            Embeds(conf.lists[i], Len(conf.lists[i]), n.log)
    BY <1>1 DEF Completed
  <2>1. Authenticated(m) /\ n.log = t
    BY <1>2, Zenon DEF Decide, Loop, JudgedLog
  <2>2. m.user \in Accounts
    BY <1>5, <2>1 DEF MonitorInv, ValidOnly
  <2>3. t # <<>> /\ t[Len(t)] = am
    BY <1>4
  <2>4. m.user = "root" => auth_root_allowed(am)
    BY <2>1 DEF Authenticated
  <2>5. ASSUME Configured
        PROVE  \E i \in DOMAIN conf.lists : Embeds(conf.lists[i], Len(conf.lists[i]), t)
    <3>1. Completes(m.lists, am)
      BY <2>1, <2>5 DEF Authenticated, Partial, Updated
    <3>2. PICK i \in DOMAIN m.lists : m.lists[i] = <<am>>
      BY <3>1 DEF Completes
    <3>3. ~RootBarred(m)
      BY <2>1 DEF RootBarred, Authenticated, auth_root_allowed
    <3>4. PICK k \in 0 .. Len(conf.lists[i]) :
            Rest(m.lists[i], conf.lists[i], k) /\ Embeds(conf.lists[i], k, m.log)
      BY <3>2, <3>3 DEF MonitorInv, ListsDone
    <3>5. i \in DOMAIN conf.lists
      BY <3>2, <3>3 DEF MonitorInv, ListsDone
    <3>6. k \in Nat /\ Len(conf.lists[i]) \in Nat
      BY <3>4, <3>5 DEF TypeOK, Config
    <3>7. k + 1 = Len(conf.lists[i]) /\ conf.lists[i][k + 1] = am
      BY <3>2, <3>4, <3>6 DEF Rest
    <3>8. Embeds(conf.lists[i], k + 1, t)
      BY <1>4, <3>4, <3>6, <3>7, EmbedsAppend
    <3> QED BY <3>5, <3>7, <3>8
  <2> HIDE DEF t, am
  <2> QED BY <2>1, <2>2, <2>3, <2>4, <2>5
<1> QED BY <1>8, <1>9, <1>10, <1>11 DEF MonitorInv, n

LEMMA InitInv == Init => MonitorInv(mon)
<1> SUFFICES ASSUME Init PROVE MonitorInv(mon)
  OBVIOUS
<1>1. /\ mon.phase = Loop /\ mon.lists = <<>> /\ mon.log = <<>> /\ mon.prev_keys = {}
      /\ mon.key_blob = NoKey /\ mon.valid = FALSE
  BY DEF Init, MonitorInit
<1>2. ~Pending(mon) /\ PubPending(mon) = 0
  BY <1>1 DEF Pending, PubPending, Loop, Decide
<1>3. PubCount(mon.log) = 0 /\ Cardinality({}) = 0 /\ IsFiniteSet({})
  <2>1. {i \in DOMAIN mon.log : mon.log[i] = "publickey"} = {}
    BY <1>1
  <2> QED BY <2>1, FS_EmptySet DEF PubCount
<1>4. DOMAIN mon.lists = {}
  BY <1>1
<1> QED
  BY <1>1, <1>2, <1>3, <1>4
  DEF MonitorInv, ListsDone, KeysOnce, ValidOnly, Completed, Loop

LEMMA NextInv ==
    ASSUME TypeOK, MonitorInv(mon), [Next]_vars
    PROVE  MonitorInv(mon)'
<1>2. ASSUME NEW m, MonitorInv(m), mon' = m, conf' = conf
      PROVE  MonitorInv(mon)'
  <2>1. Completed(mon)'
    BY <1>2 DEF MonitorInv, Completed, auth_root_allowed, Configured, Embeds
  <2>2. ListsDone(mon)'
    BY <1>2 DEF MonitorInv, ListsDone, RootBarred, Rest, Embeds
  <2>3. KeysOnce(mon)' /\ ValidOnly(mon)'
    BY <1>2 DEF MonitorInv, KeysOnce, PubCount, PubPending, Pending, ValidOnly
  <2> QED BY <2>1, <2>2, <2>3 DEF MonitorInv
<1>1. CASE mon' = mon /\ conf' = conf
  BY <1>1, <1>2
<1>3. CASE monitor_read
  <2>1. PICK q : q = Head(reqs) /\ mon' = Handled(mon, q)
    BY <1>3, Zenon DEF monitor_read
  <2>2. reqs # <<>> /\ reqs \in Seq(Request) /\ mon \in MonitorState /\ conf' = conf
        /\ mon.phase = Loop
    BY <1>3 DEF monitor_read, TypeOK
  <2>3. q \in Request
    BY <2>1, <2>2
  <2> QED BY <1>2, <2>1, <2>2, <2>3, HandledInv
<1>4. CASE monitor_child_preauth
  BY <1>2, <1>4, JudgedInv DEF monitor_child_preauth, TypeOK
<1>5. CASE mm_get_keystate
  <2> DEFINE a == [mon EXCEPT !.phase = "session"]
             b == [mon EXCEPT !.err = "mismatch"]
  <2>1. mon \in MonitorState /\ mon.phase = "granted"
    BY <1>5 DEF mm_get_keystate, TypeOK
  <2>2. MonitorInv(a) /\ MonitorInv(b)
    <3>1. ASSUME NEW n, n.phase \in {"granted", "session"}, n.user = mon.user,
                 n.log = mon.log, n.lists = mon.lists, n.prev_keys = mon.prev_keys,
                 n.key_blob = mon.key_blob, n.valid = mon.valid, n.attempt = mon.attempt
          PROVE  MonitorInv(n)
      <4>1. ~Pending(n) /\ ~Pending(mon) /\ PubPending(n) = 0 /\ PubPending(mon) = 0
        BY <3>1, <2>1 DEF Pending, PubPending, Decide
      <4> QED
        BY <2>1, <3>1, <4>1
        DEF MonitorInv, ListsDone, RootBarred, KeysOnce, ValidOnly, Completed
    <3> QED BY <2>1, <3>1 DEF MonitorState
  <2>3. mon' = a \/ mon' = b
    BY <1>5 DEF mm_get_keystate
  <2> HIDE DEF a, b
  <2> QED BY <1>2, <1>5, <2>2, <2>3 DEF mm_get_keystate
<1>6. CASE Child \/ input_userauth_request
  <2>1. mon' = mon /\ conf' = conf
    BY <1>6
    DEF Child, do_ssh2_kex, Signed, Pwnam, Banner, userauth_passwd, userauth_pubkey,
        Verify, mm_send_keystate, input_userauth_request, Try, Ask
  <2> QED BY <1>1, <2>1
<1>7. CASE AnyRequest \/ UNCHANGED vars
  BY <1>1, <1>7 DEF AnyRequest, vars
<1> QED
  BY <1>3, <1>4, <1>5, <1>6, <1>7 DEF Next, Monitor

\* Whatever requests the child sends, honest or not, the monitor starts a
\* session only for a user with an account who has been through one of the
\* configured lists, in order, no key counted twice, root by a method root may
\* use: monitor_child_preauth leaves its loop with authenticated set only then.
THEOREM SessionOnlyIfCompleted == Spec => []GrantedOnlyIfCompleted
<1>1. ASSUME TypeOK, MonitorInv(mon) PROVE GrantedOnlyIfCompleted
  <2>1. ASSUME mon.phase \in {"granted", "session"}, Configured
        PROVE  \E i \in DOMAIN conf.lists : Subsequence(conf.lists[i], mon.log)
    <3>1. PICK i \in DOMAIN conf.lists :
            Embeds(conf.lists[i], Len(conf.lists[i]), mon.log)
      BY <1>1, <2>1 DEF MonitorInv, Completed
    <3>2. DOMAIN conf.lists[i] = 1 .. Len(conf.lists[i])
      BY <1>1 DEF TypeOK, Config
    <3> QED BY <3>1, <3>2 DEF Embeds, Subsequence
  <2>2. mon.phase \in {"granted", "session"} =>
          Cardinality({i \in DOMAIN mon.log : mon.log[i] = "publickey"})
               <= Cardinality(mon.prev_keys)
    <3>1. PubPending(mon) = 0 \/ PubPending(mon) = 1
      BY DEF PubPending
    <3>2. PubCount(mon.log) \in Nat
      BY <1>1, PubCountNat DEF TypeOK, MonitorState
    <3>3. Cardinality(mon.prev_keys) \in Nat
      BY <1>1, FS_CardinalityType DEF MonitorInv, KeysOnce
    <3>4. PubCount(mon.log) + PubPending(mon) <= Cardinality(mon.prev_keys)
      BY <1>1 DEF MonitorInv, KeysOnce
    <3>5. PubCount(mon.log) <= Cardinality(mon.prev_keys)
      BY <3>1, <3>2, <3>3, <3>4
    <3> QED BY <3>5 DEF PubCount
  <2> QED BY <1>1, <2>1, <2>2 DEF GrantedOnlyIfCompleted, MonitorInv, Completed
<1> QED
  BY <1>1, TypeCorrect, InitInv, NextInv, PTL DEF Spec

-----------------------------------------------------------------------------
(***************************************************************************)
(* A child that follows its code.  The invariant relates it to the monitor *)
(* as it is once it has judged what it has answered, so that it does not   *)
(* matter who of the two is faster.                                        *)
(***************************************************************************)
Settled(m) == IF m.phase = Decide /\ m.err = "none" THEN Judged(m) ELSE m

\* The method "none" can cost a try at the monitor and none at the child, where
\* empty passwords are permitted.
Slack(c) == IF c.none_enabled \/ ~conf.empty THEN 0 ELSE 1

NothingTried(c, j) ==
    /\ c.failures = 0 /\ c.lists = <<>> /\ c.log = <<>> /\ c.prev_keys = {}
    /\ c.none_enabled
    /\ j.err = "none" /\ j.phase = Loop
    /\ j.failures = 0 /\ j.log = <<>> /\ j.prev_keys = {}

NoAccount(c, j) == NothingTried(c, j) /\ j.attempt = 0

Account(c, j) ==
    /\ NothingTried(c, j) /\ j.lists = auth2_setup_methods_lists
    /\ j.user = c.user /\ c.attempt = 1

\* What the two agree on, but for the count of failures.
Agree(c, j) ==
    /\ j.err = "none" /\ j.phase = Loop /\ MON_ISAUTH \subseteq j.permit
    /\ j.user = c.user /\ j.lists = c.lists /\ j.log = c.log
    /\ c.valid => j.valid
    /\ c.attempt > 0

InStep(c, j) ==
    Agree(c, j) /\ j.prev_keys = c.prev_keys /\ j.failures <= c.failures + Slack(c)

\* The method has been looked up and may be tried.
Ready(c) ==
    /\ c.failures < MaxAuthTries
    /\ Configured => ~InNoList(c.lists, c.r.method)
    /\ c.r.method = "none" => ~c.none_enabled

\* "none" is a call with an empty password where those are permitted.
EmptyCall(c) == c.r.method = "none" => conf.empty

Trying(c, j) ==
    /\ InStep(c, j) /\ Ready(c) /\ EmptyCall(c)
    /\ c.r.method = "none" => ~Configured /\ j.failures <= c.failures

TryingKey(c, j) ==
    /\ Trying(c, j) /\ c.r.method = "publickey" /\ c.valid
    /\ c.r.key \in Offered \ c.prev_keys

\* The monitor has answered b, and the child has not read it.
KeysAfter(c, b) ==
    IF b /\ c.r.method = "publickey" THEN c.prev_keys \cup {c.r.key} ELSE c.prev_keys

Outcome(c, j, b) ==
    /\ Ready(c) /\ EmptyCall(c) /\ (b => c.valid \/ Succeeded(c, TRUE))
    /\ IF Succeeded(c, b)
       THEN /\ j.err = "none"
            /\ IF Configured /\ ~Completes(c.lists, c.r.method)
               THEN /\ Agree([c EXCEPT
                                 !.lists = auth2_update_methods_lists(@, c.r.method),
                                 !.log = Append(@, c.r.method)], j)
                    /\ j.prev_keys = KeysAfter(c, b)
                    /\ j.failures <= c.failures + Slack(c)
               ELSE j.phase = "granted"
       ELSE /\ ~Configured \/ ~b
            /\ \/ /\ Agree(c, j) /\ j.prev_keys = KeysAfter(c, b)
                  /\ j.failures <= c.failures + 1 +
                         (IF c.r.method = "none" THEN 0 ELSE Slack(c))
               \/ /\ j.err = "tries" /\ c.r.method # "none" /\ Slack(c) = 1
                  /\ c.failures + 1 >= MaxAuthTries

Asked(rq, an, type, c) == rq = <<Req(type, c.r)>> /\ an = <<>>
Told(rq, an, b) == b \in BOOLEAN /\ rq = <<>> /\ an = <<b>>

AtKex(c, j, rq, an) ==
    /\ rq = <<>> /\ an = <<>> /\ c.attempt = 0
    /\ NoAccount(c, j) /\ "SIGN" \in j.permit

AtSigned(c, j, rq, an) ==
    /\ NoAccount(c, j) /\ c.attempt = 0
    /\ \/ rq = <<Req("SIGN", NoRequest)>> /\ an = <<>> /\ "SIGN" \in j.permit
       \/ rq = <<>> /\ an = <<TRUE>> /\ "PWNAM" \in j.permit

AtIdle(c, j, rq, an) ==
    /\ rq = <<>> /\ an = <<>>
    /\ \/ c.attempt = 0 /\ NoAccount(c, j) /\ "PWNAM" \in j.permit
       \/ c.attempt > 0 /\ InStep(c, j)

AtPwnam(c, j, rq, an) ==
    /\ c.attempt = 1 /\ c.r.user = c.user /\ c.r \in UserauthRequest
    /\ \/ /\ Asked(rq, an, "PWNAM", c)
          /\ NoAccount(c, j) /\ "PWNAM" \in j.permit
       \/ /\ Told(rq, an, j.valid)
          /\ Account(c, j) /\ {"AUTHSERV", "READ_BANNER"} \subseteq j.permit

AtBanner(c, j, rq, an) ==
    /\ Account(c, j) /\ (c.valid => j.valid) /\ c.r \in UserauthRequest
    /\ \/ /\ rq = <<Req("AUTHSERV", c.r), Req("READ_BANNER", c.r)>> /\ an = <<>>
          /\ {"AUTHSERV", "READ_BANNER"} \subseteq j.permit
       \/ /\ rq = <<Req("READ_BANNER", c.r)>> /\ an = <<>>
          /\ MON_ISAUTH \cup {"READ_BANNER"} \subseteq j.permit
       \/ rq = <<>> /\ an = <<TRUE>> /\ MON_ISAUTH \subseteq j.permit

AtPasswd(c, j, rq, an) ==
    /\ c.r.method \in {"none", "password"} /\ "password" \in conf.enabled
    /\ \/ Asked(rq, an, "AUTHPASSWORD", c) /\ Trying(c, j)
       \/ \E b \in BOOLEAN : Told(rq, an, b) /\ Outcome(c, j, b)

AtAllowed(c, j, rq, an) ==
    /\ TryingKey(c, j)
    /\ \/ Asked(rq, an, "KEYALLOWED", c)
       \/ \E b \in BOOLEAN : Told(rq, an, b) /\ (b => j.key_blob = c.r.key)

AtVerify(c, j, rq, an) ==
    /\ c.r.method = "publickey"
    /\ \/ /\ Asked(rq, an, "KEYVERIFY", c) /\ TryingKey(c, j)
          /\ j.key_blob = c.r.key
       \/ \E b \in BOOLEAN : Told(rq, an, b) /\ Outcome(c, j, b)

AtExported(j, rq) ==
    /\ j.err = "none"
    /\ \/ rq = <<Req("KEYEXPORT", NoRequest)>> /\ j.phase = "granted"
       \/ rq = <<>> /\ j.phase = "session"

Served(c, j, rq, an) ==
    /\ c.pc = "kex" => AtKex(c, j, rq, an)
    /\ c.pc = "signed" => AtSigned(c, j, rq, an)
    /\ c.pc = "idle" => AtIdle(c, j, rq, an)
    /\ c.pc = "pwnam" => AtPwnam(c, j, rq, an)
    /\ c.pc = "banner" => AtBanner(c, j, rq, an)
    /\ c.pc = "passwd" => AtPasswd(c, j, rq, an)
    /\ c.pc = "allowed" => AtAllowed(c, j, rq, an)
    /\ c.pc = "verify" => AtVerify(c, j, rq, an)
    /\ c.pc = "success" => rq = <<>> /\ an = <<>> /\ j.err = "none" /\ j.phase = "granted"
    /\ c.pc = "exported" => AtExported(j, rq)
    /\ c.pc = "disconnected" =>
           rq = <<>> /\ (j.err = "none" \/ (j.err = "tries" /\ Slack(c) = 1))
    /\ c.pc = "internal" => rq = <<>> /\ j.err = "none"
    /\ c.pc # "nolist"

HonestInv == honest /\ ~Disputed => Served(child, Settled(mon), reqs, answers)

(***************************************************************************)
(* What the monitor makes of an outcome, in the four cases.                *)
(***************************************************************************)
Same(j, m) ==
    /\ j.user = m.user /\ j.valid = m.valid /\ j.attempt = m.attempt
    /\ j.prev_keys = m.prev_keys /\ j.key_blob = m.key_blob /\ j.permit = m.permit

LEMMA JudgedCases ==
    ASSUME NEW m \in MonitorState, m.phase = Decide, m.err = "none",
           MaxAuthTries \in Nat
    PROVE  LET j == Judged(m)
           IN  /\ ~m.ret /\ m.type \notin MON_AUTHDECIDE /\ m.failures <= MaxAuthTries =>
                     /\ Same(j, m) /\ j.lists = m.lists /\ j.log = m.log
                     /\ j.failures = m.failures /\ j.err = "none" /\ j.phase = Loop
               /\ ~Updated(m) /\ ~Authenticated(m) /\ m.type \in MON_AUTHDECIDE =>
                     /\ Same(j, m) /\ j.lists = m.lists /\ j.log = m.log
                     /\ \/ /\ j.failures = m.failures + 1 /\ j.err = "none" /\ j.phase = Loop
                        \/ m.failures + 1 > MaxAuthTries /\ j.err = "tries"
               /\ Partial(m) /\ ~InNoList(m.lists, m.auth_method) /\ m.failures <= MaxAuthTries =>
                     /\ Same(j, m) /\ j.lists = auth2_update_methods_lists(m.lists, m.auth_method)
                     /\ j.log = Append(m.log, m.auth_method)
                     /\ j.failures = m.failures /\ j.err = "none" /\ j.phase = Loop
               /\ Authenticated(m) /\ m.type \in MON_AUTHDECIDE /\ m.valid
                  /\ ~(Updated(m) /\ InNoList(m.lists, m.auth_method))
                  /\ m.failures <= MaxAuthTries =>
                     j.err = "none" /\ j.phase = "granted"
<1> DEFINE failed == m.type \in MON_AUTHDECIDE /\ ~Partial(m) /\ ~Authenticated(m)
           f == IF failed THEN m.failures + 1 ELSE m.failures
           L == JudgedLists(m)
           g == JudgedLog(m)
           p == [m EXCEPT !.lists = L, !.failures = f, !.log = g]
           ph == IF Authenticated(m) THEN "granted" ELSE Loop
           last == [p EXCEPT !.phase = ph, !.type = "NULL"]
           nolist == Updated(m) /\ InNoList(m.lists, m.auth_method)
           j == Judged(m)
<1>1. m.failures \in Nat /\ f \in Nat /\ p.failures = f
  BY DEF MonitorState
<1>2. /\ ~nolist /\ f > MaxAuthTries /\ ~Authenticated(m) => j = [p EXCEPT !.err = "tries"]
      /\ ~nolist /\ (Authenticated(m) => m.type \in MON_AUTHDECIDE /\ m.valid)
         /\ ~(f > MaxAuthTries) => j = last
  <2>1. j = IF nolist THEN [m EXCEPT !.err = "nolist"]
            ELSE IF Authenticated(m) /\ m.type \notin MON_AUTHDECIDE
            THEN [p EXCEPT !.err = "decide"]
            ELSE IF p.failures > MaxAuthTries THEN [p EXCEPT !.err = "tries"]
            ELSE IF Authenticated(m) /\ ~m.valid THEN [p EXCEPT !.err = "invalid"]
            ELSE last
    BY DEF Judged, JudgedLists, JudgedLog
  <2> HIDE DEF nolist, p, last, j, f
  <2> QED BY <1>1, <2>1
<1>3. /\ Same(last, m) /\ last.lists = L /\ last.log = g /\ last.failures = f
      /\ last.err = "none" /\ last.phase = ph
  <2> HIDE DEF f, L, g, ph
  <2> QED BY DEF MonitorState, Same
<1>4. /\ Same([p EXCEPT !.err = "tries"], m) /\ [p EXCEPT !.err = "tries"].lists = L
      /\ [p EXCEPT !.err = "tries"].log = g /\ [p EXCEPT !.err = "tries"].err = "tries"
  <2> HIDE DEF f, L, g, ph
  <2> QED BY DEF MonitorState, Same
<1> HIDE DEF p, last, j
<1>5. ASSUME ~m.ret, m.type \notin MON_AUTHDECIDE, m.failures <= MaxAuthTries
      PROVE  /\ Same(j, m) /\ j.lists = m.lists /\ j.log = m.log
             /\ j.failures = m.failures /\ j.err = "none" /\ j.phase = Loop
  <2>1. ~Updated(m) /\ ~Partial(m) /\ ~Authenticated(m)
    BY <1>5 DEF Updated, Partial, Authenticated
  <2>2. ~nolist /\ ~failed /\ L = m.lists /\ g = m.log /\ ph = Loop /\ f = m.failures
    BY <1>5, <2>1 DEF JudgedLists, JudgedLog
  <2> HIDE DEF nolist, failed, L, g, ph, f
  <2> QED BY <1>1, <1>2, <1>3, <1>5, <2>1, <2>2
<1>6. ASSUME ~Updated(m), ~Authenticated(m), m.type \in MON_AUTHDECIDE
      PROVE  /\ Same(j, m) /\ j.lists = m.lists /\ j.log = m.log
             /\ \/ /\ j.failures = m.failures + 1 /\ j.err = "none" /\ j.phase = Loop
                \/ m.failures + 1 > MaxAuthTries /\ j.err = "tries"
  <2>1. ~Partial(m)
    BY <1>6 DEF Partial
  <2>2. ~nolist /\ failed /\ L = m.lists /\ g = m.log /\ ph = Loop /\ f = m.failures + 1
    BY <1>6, <2>1 DEF JudgedLists, JudgedLog
  <2> HIDE DEF nolist, failed, L, g, ph, f
  <2> QED BY <1>1, <1>2, <1>3, <1>4, <1>6, <2>1, <2>2
<1>7. ASSUME Partial(m), ~InNoList(m.lists, m.auth_method), m.failures <= MaxAuthTries
      PROVE  /\ Same(j, m) /\ j.lists = auth2_update_methods_lists(m.lists, m.auth_method)
             /\ j.log = Append(m.log, m.auth_method)
             /\ j.failures = m.failures /\ j.err = "none" /\ j.phase = Loop
  <2>1. Updated(m) /\ ~Authenticated(m)
    BY <1>7 DEF Partial, Authenticated
  <2>2. /\ ~nolist /\ ~failed /\ L = auth2_update_methods_lists(m.lists, m.auth_method)
        /\ g = Append(m.log, m.auth_method) /\ ph = Loop /\ f = m.failures
    BY <1>7, <2>1 DEF JudgedLists, JudgedLog
  <2> HIDE DEF nolist, failed, L, g, ph, f
  <2> QED BY <1>1, <1>2, <1>3, <1>7, <2>1, <2>2
<1>8. ASSUME Authenticated(m), m.type \in MON_AUTHDECIDE, m.valid, ~nolist,
             m.failures <= MaxAuthTries
      PROVE  j.err = "none" /\ j.phase = "granted"
  <2>1. ~failed /\ ph = "granted" /\ f = m.failures
    BY <1>8
  <2> HIDE DEF nolist, failed, L, g, ph, f
  <2> QED BY <1>1, <1>2, <1>3, <1>8, <2>1
<1> QED BY <1>5, <1>6, <1>7, <1>8 DEF j

(***************************************************************************)
(* What the handlers make of the requests of the child, and answer.        *)
(***************************************************************************)
Fresh(m, q) == [m EXCEPT !.type = q.type, !.ret = FALSE, !.auth_method = "unknown",
                         !.phase = Decide]

LEMMA FreshFields ==
    ASSUME NEW m \in MonitorState, NEW q \in Request
    PROVE  LET n == Fresh(m, q)
           IN  /\ n \in MonitorState
               /\ Same(n, m) /\ n.lists = m.lists /\ n.log = m.log
               /\ n.failures = m.failures /\ n.calls = m.calls /\ n.err = m.err
               /\ n.type = q.type /\ n.ret = FALSE /\ n.phase = Decide
  BY DEF MonitorState, Request, Fresh, Same

\* Before the account is known the monitor has nothing to judge.
LEMMA SignReply ==
    ASSUME NEW m \in MonitorState, NEW q \in Request, m.err = "none", m.phase = Loop,
           q.type = "SIGN", "SIGN" \in m.permit, m.failures = 0, MaxAuthTries \in Nat
    PROVE  LET n == Handled(m, q)
               j == Settled(n)
           IN  /\ Answer(n, q) = <<TRUE>>
               /\ j.err = "none" /\ j.phase = Loop /\ j.attempt = m.attempt
               /\ j.log = m.log /\ j.prev_keys = m.prev_keys /\ j.failures = 0
               /\ "PWNAM" \in j.permit
<1> DEFINE z == Fresh(m, q)
           n == Handled(m, q)
<1>1. z \in MonitorState /\ z.permit = m.permit /\ z.log = m.log /\ z.attempt = m.attempt
      /\ z.prev_keys = m.prev_keys /\ z.failures = 0 /\ z.err = "none"
      /\ z.type = "SIGN" /\ z.ret = FALSE /\ z.phase = Decide
  BY FreshFields DEF Same
<1>2. n = [mm_answer_sign(z) EXCEPT !.permit = @ \ {"SIGN"}]
  BY <1>1 DEF Handled, Handler, Fresh, MON_ONCE
<1> HIDE DEF z, n
<1>3. n \in MonitorState
  BY <1>1, <1>2 DEF mm_answer_sign, MonitorState, Table
<1>4. /\ n.phase = Decide /\ n.err = "none" /\ n.type = "SIGN" /\ n.ret = FALSE
      /\ n.attempt = m.attempt /\ n.log = m.log /\ n.prev_keys = m.prev_keys
      /\ n.failures = 0 /\ "PWNAM" \in n.permit
  BY <1>1, <1>2 DEF mm_answer_sign, MonitorState
<1>5. Answer(n, q) = <<TRUE>>
  BY <1>4 DEF Answer, MON_AUTHDECIDE
<1>6. Settled(n) = Judged(n) /\ n.type \notin MON_AUTHDECIDE /\ n.failures <= MaxAuthTries
  BY <1>4 DEF Settled, MON_AUTHDECIDE
<1> QED BY <1>3, <1>4, <1>5, <1>6, JudgedCases DEF Same, n

LEMMA PwnamReply ==
    ASSUME TypeOK, NEW m \in MonitorState, NEW q \in Request, m.err = "none", m.phase = Loop,
           q.type = "PWNAM", "PWNAM" \in m.permit, m.failures = 0, m.attempt = 0,
           MaxAuthTries \in Nat
    PROVE  LET n == Handled(m, q)
               j == Settled(n)
           IN  /\ Answer(n, q) = <<j.valid>>
               /\ j.err = "none" /\ j.phase = Loop /\ j.user = q.user
               /\ j.lists = auth2_setup_methods_lists
               /\ j.log = m.log /\ j.prev_keys = m.prev_keys /\ j.failures = 0
               /\ {"AUTHSERV", "READ_BANNER"} \subseteq j.permit
<1> DEFINE z == Fresh(m, q)
           n == Handled(m, q)
           L == auth2_setup_methods_lists
           v == q.user \in Accounts
           P == (z.permit \cup {"AUTHSERV", "READ_BANNER"}) \ {"PWNAM"}
<1>1. z \in MonitorState /\ z.permit = m.permit /\ z.log = m.log /\ z.attempt = 0
      /\ z.prev_keys = m.prev_keys /\ z.failures = 0 /\ z.err = "none"
      /\ z.type = "PWNAM" /\ z.ret = FALSE /\ z.phase = Decide
  BY FreshFields DEF Same
<1>2. n = [mm_answer_pwnamallow(z, q) EXCEPT !.permit = @ \ {"PWNAM"}]
  BY <1>1 DEF Handled, Handler, Fresh, MON_ONCE
<1>3. n = [[z EXCEPT !.attempt = 1, !.user = q.user, !.valid = v, !.lists = L,
                    !.permit = @ \cup {"AUTHSERV", "READ_BANNER"}]
             EXCEPT !.permit = @ \ {"PWNAM"}]
  BY <1>1, <1>2, Zenon DEF mm_answer_pwnamallow
<1>4. v \in BOOLEAN
  OBVIOUS
<1>5. L \in MethodLists
  BY ListsType DEF TypeOK
<1> HIDE DEF z, n, L, v
<1>6. n \in MonitorState
  BY <1>1, <1>3, <1>4, <1>5, ZenonT(60) DEF MonitorState, Table, Request
<1>7. /\ n.phase = Decide /\ n.err = "none" /\ n.type = "PWNAM" /\ n.ret = FALSE
      /\ n.user = q.user /\ n.lists = L /\ n.log = m.log /\ n.prev_keys = m.prev_keys
      /\ n.failures = 0 /\ {"AUTHSERV", "READ_BANNER"} \subseteq n.permit
  BY <1>1, <1>3, <1>4 DEF MonitorState
<1>8. Answer(n, q) = <<n.valid>>
  <2>1. n.err = "none" /\ q.type # "AUTHSERV" /\ q.type = "PWNAM"
        /\ q.type \notin MON_AUTHDECIDE /\ q.type # "KEYALLOWED"
    BY <1>7 DEF MON_AUTHDECIDE
  <2> QED BY <2>1, Zenon DEF Answer
<1>9. Settled(n) = Judged(n) /\ n.type \notin MON_AUTHDECIDE /\ n.failures <= MaxAuthTries
  BY <1>7 DEF Settled, MON_AUTHDECIDE
<1>10. LET j == Judged(n)
       IN  /\ Same(j, n) /\ j.lists = n.lists /\ j.log = n.log
           /\ j.failures = n.failures /\ j.err = "none" /\ j.phase = Loop
  BY <1>6, <1>7, <1>9, JudgedCases
<1> QED BY <1>7, <1>8, <1>9, <1>10 DEF Same, n, L

LEMMA ServiceReply ==
    ASSUME NEW m \in MonitorState, NEW q \in Request, m.err = "none", m.phase = Loop,
           q.type \in {"AUTHSERV", "READ_BANNER"}, q.type \in m.permit, m.failures = 0,
           MaxAuthTries \in Nat
    PROVE  LET n == Handled(m, q)
               j == Settled(n)
           IN  /\ q.type = "AUTHSERV" => Answer(n, q) = <<>> /\ MON_ISAUTH \subseteq j.permit
               /\ q.type = "READ_BANNER" => Answer(n, q) = <<TRUE>>
               /\ j.err = "none" /\ j.phase = Loop /\ j.user = m.user /\ j.valid = m.valid
               /\ j.lists = m.lists /\ j.log = m.log /\ j.prev_keys = m.prev_keys
               /\ j.failures = 0 /\ m.permit \ {q.type} \subseteq j.permit
<1> DEFINE z == Fresh(m, q)
           n == Handled(m, q)
<1>1. z \in MonitorState /\ z.permit = m.permit /\ z.log = m.log
      /\ z.user = m.user /\ z.valid = m.valid /\ z.lists = m.lists
      /\ z.prev_keys = m.prev_keys /\ z.failures = 0 /\ z.err = "none"
      /\ z.type = q.type /\ z.ret = FALSE /\ z.phase = Decide
  BY FreshFields DEF Same
<1>2. \E P \in SUBSET Table :
        /\ n = [z EXCEPT !.permit = P]
        /\ m.permit \ {q.type} \subseteq P
        /\ q.type = "AUTHSERV" => MON_ISAUTH \subseteq P
  <2>1. CASE q.type = "AUTHSERV"
    <3>1. n = [mm_answer_authserv(z) EXCEPT !.permit = @ \ {q.type}]
      BY <1>1, <2>1 DEF Handled, Handler, Fresh, MON_ONCE
    <3> HIDE DEF z, n
    <3>2. n = [z EXCEPT !.permit = (m.permit \cup MON_ISAUTH) \ {q.type}]
      BY <1>1, <3>1 DEF mm_answer_authserv, MonitorState
    <3> DEFINE P == (m.permit \cup MON_ISAUTH) \ {q.type}
    <3>3. /\ P \in SUBSET Table /\ m.permit \ {q.type} \subseteq P /\ MON_ISAUTH \subseteq P
      BY <2>1 DEF MON_ISAUTH, MonitorState, Table
    <3> QED BY <3>2, <3>3, Zenon
  <2>2. CASE q.type = "READ_BANNER"
    <3>1. n = [z EXCEPT !.permit = @ \ {q.type}]
      BY <1>1, <2>2 DEF Handled, Handler, Fresh, MON_ONCE
    <3> HIDE DEF z, n
    <3> DEFINE P == m.permit \ {q.type}
    <3>2. n = [z EXCEPT !.permit = P] /\ P \in SUBSET Table
      BY <1>1, <3>1 DEF MonitorState
    <3> HIDE DEF P
    <3>3. m.permit \ {q.type} \subseteq P
      BY DEF P
    <3>4. q.type # "AUTHSERV"
      BY <2>2
    <3> QED BY <3>2, <3>3, <3>4, Zenon
  <2> QED BY <2>1, <2>2
<1> HIDE DEF z, n
<1>3. PICK P \in SUBSET Table :
        /\ n = [z EXCEPT !.permit = P]
        /\ m.permit \ {q.type} \subseteq P
        /\ q.type = "AUTHSERV" => MON_ISAUTH \subseteq P
  BY <1>2
<1>4. n \in MonitorState
  BY <1>1, <1>3 DEF MonitorState
<1>5. /\ n.phase = Decide /\ n.err = "none" /\ n.type = q.type /\ n.ret = FALSE
      /\ n.user = m.user /\ n.valid = m.valid /\ n.lists = m.lists /\ n.log = m.log
      /\ n.prev_keys = m.prev_keys /\ n.failures = 0 /\ n.permit = P
  BY <1>1, <1>3 DEF MonitorState
<1>6. /\ q.type = "AUTHSERV" => Answer(n, q) = <<>>
      /\ q.type = "READ_BANNER" => Answer(n, q) = <<TRUE>>
  BY <1>5 DEF Answer, MON_AUTHDECIDE
<1>7. Settled(n) = Judged(n) /\ n.type \notin MON_AUTHDECIDE /\ n.failures <= MaxAuthTries
  BY <1>5 DEF Settled, MON_AUTHDECIDE
<1>8. LET j == Judged(n)
      IN  /\ Same(j, n) /\ j.lists = n.lists /\ j.log = n.log
          /\ j.failures = n.failures /\ j.err = "none" /\ j.phase = Loop
  BY <1>4, <1>5, <1>7, JudgedCases
<1> QED BY <1>3, <1>5, <1>6, <1>7, <1>8 DEF Same, n

LEMMA ServeOutcome ==
    ASSUME NEW c \in ChildState, NEW n \in MonitorState, MaxAuthTries \in Nat,
           n.phase = Decide, n.err = "none", n.type \in MON_AUTHDECIDE,
           Ready(c), EmptyCall(c), c.attempt > 0, c.valid => n.valid, n.ret => n.valid,
           n.user = c.user, n.lists = c.lists, n.log = c.log,
           n.prev_keys = KeysAfter(c, n.ret), MON_ISAUTH \subseteq n.permit,
           n.failures <= c.failures + Slack(c),
           c.r.method = "none" => ~Configured /\ n.failures <= c.failures,
           n.ret => c.valid \/ Succeeded(c, TRUE),
           n.ret /\ Configured => n.auth_method = c.r.method /\ Succeeded(c, TRUE),
           n.ret /\ c.user = "root" =>
              (auth_root_allowed(n.auth_method) <=> auth_root_allowed(c.r.method))
    PROVE  Outcome(c, Judged(n), n.ret)
<1> DEFINE j == Judged(n)
           m == c.r.method
           b == n.ret
<1>1. /\ c.failures \in Nat /\ n.failures \in Nat /\ b \in BOOLEAN
      /\ Slack(c) \in {0, 1} /\ c.failures < MaxAuthTries
  BY DEF ChildState, MonitorState, Slack, Ready
<1>2. n.failures <= MaxAuthTries
  BY <1>1
<1>3. ASSUME ~Succeeded(c, b)
      PROVE  /\ ~Configured \/ ~b
             /\ \/ /\ Agree(c, j) /\ j.prev_keys = KeysAfter(c, b)
                   /\ j.failures <= c.failures + 1 + (IF m = "none" THEN 0 ELSE Slack(c))
                \/ /\ j.err = "tries" /\ m # "none" /\ Slack(c) = 1
                   /\ c.failures + 1 >= MaxAuthTries
  <2>1. ~Configured \/ ~b
    BY <1>1, <1>3 DEF Succeeded
  <2>2. ~Updated(n) /\ ~Authenticated(n)
    BY <1>3, <2>1 DEF Updated, Authenticated, Partial, Succeeded
  <2>3. /\ Same(j, n) /\ j.lists = n.lists /\ j.log = n.log
        /\ \/ /\ j.failures = n.failures + 1 /\ j.err = "none" /\ j.phase = Loop
           \/ n.failures + 1 > MaxAuthTries /\ j.err = "tries"
    BY <2>2, JudgedCases
  <2> HIDE DEF j
  <2>4. CASE j.failures = n.failures + 1 /\ j.err = "none" /\ j.phase = Loop
    <3>1. j.failures <= c.failures + 1 + (IF m = "none" THEN 0 ELSE Slack(c))
      BY <1>1, <2>4
    <3> QED BY <2>1, <2>3, <2>4, <3>1 DEF Agree, Same
  <2>5. CASE n.failures + 1 > MaxAuthTries /\ j.err = "tries"
    BY <1>1, <2>1, <2>5
  <2> QED BY <2>3, <2>4, <2>5
<1>4. CASE Succeeded(c, b) /\ Configured /\ ~Completes(c.lists, m)
  <2>1. b /\ n.auth_method = m /\ ~InNoList(n.lists, m)
    BY <1>1, <1>4 DEF Succeeded, Ready
  <2>2. Partial(n)
    BY <1>4, <2>1 DEF Partial, Updated
  <2>3. /\ Same(j, n) /\ j.lists = auth2_update_methods_lists(n.lists, m)
        /\ j.log = Append(n.log, m)
        /\ j.failures = n.failures /\ j.err = "none" /\ j.phase = Loop
    BY <1>2, <2>1, <2>2, JudgedCases
  <2> HIDE DEF j
  <2> DEFINE L == auth2_update_methods_lists(c.lists, m)
             g == Append(c.log, m)
             d == [c EXCEPT !.lists = L, !.log = g]
  <2> HIDE DEF L, g
  <2>4. d.user = c.user /\ d.lists = L /\ d.log = g /\ d.valid = c.valid /\ d.attempt = c.attempt
    BY DEF ChildState
  <2> HIDE DEF d
  <2>5. Agree(d, j)
    BY <2>3, <2>4 DEF Agree, Same, L, g
  <2>6. j.prev_keys = KeysAfter(c, b) /\ j.failures <= c.failures + Slack(c)
    BY <2>3 DEF Same
  <2> QED BY <1>4, <2>1, <2>3, <2>5, <2>6 DEF Outcome, d, L, g, j
<1>5. CASE Succeeded(c, b) /\ ~(Configured /\ ~Completes(c.lists, m))
  <2>1. b /\ ~Partial(n)
    BY <1>1, <1>5 DEF Succeeded, Partial, Updated
  <2>2. Authenticated(n) /\ ~(Updated(n) /\ InNoList(n.lists, n.auth_method))
    BY <1>5, <2>1 DEF Authenticated, Updated, Succeeded, Ready
  <2>3. j.err = "none" /\ j.phase = "granted"
    BY <1>2, <2>1, <2>2, JudgedCases
  <2> QED BY <1>5, <2>1, <2>3 DEF Outcome
<1> QED BY <1>3, <1>4, <1>5 DEF Outcome

\* The two processes agree on the method and on root.
Undisputed(c) ==
    Configured => /\ ~conf.empty
                  /\ c.user = "root" => conf.root \in {"yes", "prohibit-password"}

LEMMA ReqFields ==
    ASSUME NEW type, NEW r
    PROVE  LET q == Req(type, r)
           IN  /\ q.type = type /\ q.user = r.user /\ q.key = r.key
               /\ q.good = r.good /\ q.empty = r.empty /\ q.data
  BY DEF Req

LEMMA RetType ==
    ASSUME NEW z \in MonitorState
    PROVE  /\ \A x \in Nat, v \in BOOLEAN, y \in {"none", "password"} :
                 [z EXCEPT !.calls = x, !.ret = v, !.auth_method = y] \in MonitorState
           /\ \A v \in BOOLEAN, p \in SUBSET Offered :
                 [z EXCEPT !.auth_method = "publickey", !.ret = v, !.prev_keys = p,
                           !.key_blob = NoKey] \in MonitorState
<1>1. \A x \in Nat, v \in BOOLEAN, y \in {"none", "password"} :
        [z EXCEPT !.calls = x, !.ret = v, !.auth_method = y] \in MonitorState
  BY DEF MonitorState, Methods
<1>2. \A v \in BOOLEAN, p \in SUBSET Offered :
        [z EXCEPT !.auth_method = "publickey", !.ret = v, !.prev_keys = p,
                  !.key_blob = NoKey] \in MonitorState
  BY DEF MonitorState, Methods, Keys
<1> QED BY <1>1, <1>2

LEMMA PasswordReply ==
    ASSUME NEW c \in ChildState, NEW m \in MonitorState, MaxAuthTries \in Nat,
           Trying(c, m), Undisputed(c), c.r.method \in {"none", "password"},
           "password" \in conf.enabled
    PROVE  LET q == Req("AUTHPASSWORD", c.r)
               n == Handled(m, q)
           IN  \E b \in BOOLEAN : Answer(n, q) = <<b>> /\ Outcome(c, Settled(n), b)
<1> DEFINE q == Req("AUTHPASSWORD", c.r)
           z == Fresh(m, q)
           n == Handled(m, q)
           b == auth_password(z, q)
           am == IF q.empty /\ z.calls = 0 THEN "none" ELSE "password"
           k == z.calls + 1
<1>1. q \in Request
  BY ReqType DEF ChildState, Types, Table
<1>2. q.type = "AUTHPASSWORD"
  BY ReqFields
<1> HIDE DEF q
<1>3. /\ z \in MonitorState
      /\ Same(z, m) /\ z.lists = m.lists /\ z.log = m.log
      /\ z.failures = m.failures /\ z.calls = m.calls /\ z.err = "none"
      /\ z.type = "AUTHPASSWORD" /\ z.ret = FALSE /\ z.phase = Decide
      /\ "AUTHPASSWORD" \in z.permit
  BY <1>1, <1>2, FreshFields DEF Same, Trying, InStep, Agree, MON_ISAUTH
<1>4. n = [z EXCEPT !.calls = k, !.ret = b, !.auth_method = am]
  <2>1. n = mm_answer_authpassword(z, q)
    BY <1>2, <1>3 DEF Handled, Handler, Fresh, MON_ONCE
  <2> QED BY <2>1 DEF mm_answer_authpassword
<1>5. /\ b \in BOOLEAN /\ am \in {"none", "password"} /\ k \in Nat
      /\ b => /\ z.valid /\ (z.user = "root" => conf.root = "yes")
              /\ q.empty => conf.empty
      /\ ~q.empty => am = "password"
  BY <1>3 DEF auth_password, MonitorState
<1> HIDE DEF z, n, b, am, k
<1>6. n \in MonitorState
  <2>1. \A x \in Nat, v \in BOOLEAN, y \in {"none", "password"} :
          [z EXCEPT !.calls = x, !.ret = v, !.auth_method = y] \in MonitorState
    BY <1>3, RetType
  <2> QED BY <1>4, <1>5, <2>1, Zenon
<1>7. /\ n.ret = b /\ n.auth_method = am
      /\ n.phase = Decide /\ n.err = "none" /\ n.type = "AUTHPASSWORD"
      /\ Same(n, m) /\ n.lists = m.lists /\ n.log = m.log /\ n.failures = m.failures
  BY <1>3, <1>4, <1>5 DEF MonitorState, Same
<1>8. Answer(n, q) = <<b>>
  <2>1. /\ n.err = "none" /\ q.type \notin {"AUTHSERV", "PWNAM", "KEYALLOWED"}
        /\ q.type \in MON_AUTHDECIDE
    BY <1>2, <1>7 DEF MON_AUTHDECIDE
  <2>2. Answer(n, q) = <<n.ret>>
    BY <2>1, Zenon DEF Answer
  <2> QED BY <1>7, <2>2
<1>9. Settled(n) = Judged(n)
  BY <1>7 DEF Settled
<1>10. Outcome(c, Judged(n), n.ret)
  <2>1. /\ Ready(c) /\ EmptyCall(c) /\ c.attempt > 0 /\ m.user = c.user /\ m.lists = c.lists
        /\ m.log = c.log /\ m.prev_keys = c.prev_keys /\ MON_ISAUTH \subseteq m.permit
        /\ (c.valid => m.valid) /\ m.failures <= c.failures + Slack(c)
        /\ c.r.method = "none" => ~Configured /\ m.failures <= c.failures
    BY DEF Trying, InStep, Agree
  <2>2. n.prev_keys = KeysAfter(c, n.ret)
    BY <1>7, <2>1 DEF KeysAfter, Same
  <2>3. n.ret => n.valid /\ (c.user = "root" => conf.root = "yes")
    BY <1>3, <1>5, <1>7, <2>1 DEF Same
  <2>4. n.ret /\ Configured => n.auth_method = c.r.method /\ Succeeded(c, TRUE)
    BY <1>5, <1>7, <2>1, <2>3 DEF Undisputed, Succeeded, auth_root_allowed
  <2>5. n.ret /\ c.user = "root" =>
          (auth_root_allowed(n.auth_method) <=> auth_root_allowed(c.r.method))
    BY <2>3 DEF auth_root_allowed
  <2>6. n.type \in MON_AUTHDECIDE /\ (n.ret => Succeeded(c, TRUE))
    BY <1>7, <2>3 DEF MON_AUTHDECIDE, Succeeded, auth_root_allowed
  <2> QED BY <1>6, <1>7, <2>1, <2>2, <2>3, <2>4, <2>5, <2>6, ServeOutcome DEF Same
<1> QED BY <1>5, <1>7, <1>8, <1>9, <1>10 DEF n, q

LEMMA VerifyReply ==
    ASSUME NEW c \in ChildState, NEW m \in MonitorState, MaxAuthTries \in Nat,
           TryingKey(c, m), Undisputed(c), m.key_blob = c.r.key
    PROVE  LET q == Req("KEYVERIFY", c.r)
               n == Handled(m, q)
           IN  \E b \in BOOLEAN : Answer(n, q) = <<b>> /\ Outcome(c, Settled(n), b)
<1> DEFINE q == Req("KEYVERIFY", c.r)
           z == Fresh(m, q)
           n == Handled(m, q)
           b == q.good
           P == IF q.good THEN z.prev_keys \cup {q.key} ELSE z.prev_keys
<1>1. q \in Request
  BY ReqType DEF ChildState, Types, Table
<1>2. /\ q.type = "KEYVERIFY" /\ q.key = c.r.key /\ q.key \in Offered /\ q.key # NoKey
      /\ q.data
  BY ReqFields, PrivsepAssumption DEF TryingKey
<1> HIDE DEF q
<1>3. /\ z \in MonitorState
      /\ Same(z, m) /\ z.lists = m.lists /\ z.log = m.log
      /\ z.failures = m.failures /\ z.err = "none"
      /\ z.type = "KEYVERIFY" /\ z.ret = FALSE /\ z.phase = Decide
      /\ "KEYVERIFY" \in z.permit
  BY <1>1, <1>2, FreshFields DEF Same, TryingKey, Trying, InStep, Agree, MON_ISAUTH
<1>4. n = [z EXCEPT !.auth_method = "publickey", !.ret = b, !.prev_keys = P,
                    !.key_blob = NoKey]
  <2>1. n = mm_answer_keyverify(z, q)
    BY <1>2, <1>3 DEF Handled, Handler, Fresh, MON_ONCE
  <2>2. ~(z.key_blob = NoKey \/ q.key # z.key_blob)
    BY <1>2, <1>3 DEF Same
  <2> QED BY <1>2, <2>1, <2>2 DEF mm_answer_keyverify
<1>5. b \in BOOLEAN /\ P \in SUBSET Offered
  BY <1>1, <1>2, <1>3 DEF Request, MonitorState
<1>6. P = KeysAfter(c, b)
  BY <1>2, <1>3 DEF KeysAfter, Same, TryingKey, Trying, InStep
<1> HIDE DEF z, n, b, P
<1>7. n \in MonitorState
  <2>1. \A v \in BOOLEAN, p \in SUBSET Offered :
          [z EXCEPT !.auth_method = "publickey", !.ret = v, !.prev_keys = p,
                    !.key_blob = NoKey] \in MonitorState
    BY <1>3, RetType
  <2> QED BY <1>4, <1>5, <2>1, Zenon
<1>8. /\ n.ret = b /\ n.auth_method = "publickey" /\ n.prev_keys = P
      /\ n.phase = Decide /\ n.err = "none" /\ n.type = "KEYVERIFY"
      /\ n.user = m.user /\ n.valid = m.valid /\ n.permit = m.permit
      /\ n.lists = m.lists /\ n.log = m.log /\ n.failures = m.failures
  BY <1>3, <1>4, <1>5 DEF MonitorState, Same
<1>9. Answer(n, q) = <<b>>
  <2>1. /\ n.err = "none" /\ q.type \notin {"AUTHSERV", "PWNAM", "KEYALLOWED"}
        /\ q.type \in MON_AUTHDECIDE
    BY <1>2, <1>8 DEF MON_AUTHDECIDE
  <2>2. Answer(n, q) = <<n.ret>>
    BY <2>1, Zenon DEF Answer
  <2> QED BY <1>8, <2>2
<1>10. Settled(n) = Judged(n)
  BY <1>8 DEF Settled
<1>11. Outcome(c, Judged(n), n.ret)
  <2>1. /\ Ready(c) /\ EmptyCall(c) /\ c.attempt > 0 /\ m.user = c.user /\ m.lists = c.lists
        /\ m.log = c.log /\ MON_ISAUTH \subseteq m.permit
        /\ c.valid /\ m.valid /\ m.failures <= c.failures + Slack(c)
        /\ c.r.method = "publickey"
    BY DEF TryingKey, Trying, InStep, Agree
  <2>2. n.ret /\ Configured => n.auth_method = c.r.method /\ Succeeded(c, TRUE)
    BY <1>8, <2>1 DEF Undisputed, Succeeded, auth_root_allowed
  <2>3. n.type \in MON_AUTHDECIDE
    BY <1>8 DEF MON_AUTHDECIDE
  <2> QED BY <1>6, <1>7, <1>8, <2>1, <2>2, <2>3, ServeOutcome
<1> QED BY <1>5, <1>8, <1>9, <1>10, <1>11 DEF n, q

LEMMA AllowedReply ==
    ASSUME NEW c \in ChildState, NEW m \in MonitorState, MaxAuthTries \in Nat,
           TryingKey(c, m)
    PROVE  LET q == Req("KEYALLOWED", c.r)
               n == Handled(m, q)
           IN  /\ TryingKey(c, Settled(n))
               /\ \E b \in BOOLEAN : /\ Answer(n, q) = <<b>>
                                     /\ b => Settled(n).key_blob = c.r.key
<1> DEFINE q == Req("KEYALLOWED", c.r)
           z == Fresh(m, q)
           n == Handled(m, q)
           am == IF z.valid THEN "publickey" ELSE z.auth_method
           k == IF KeyAllowed(z, q) THEN q.key ELSE NoKey
<1>1. q \in Request
  BY ReqType DEF ChildState, Types, Table
<1>2. q.type = "KEYALLOWED" /\ q.key = c.r.key /\ q.key \in Offered
  BY ReqFields DEF TryingKey
<1> HIDE DEF q
<1>3. /\ z \in MonitorState
      /\ Same(z, m) /\ z.lists = m.lists /\ z.log = m.log
      /\ z.failures = m.failures /\ z.err = "none"
      /\ z.type = "KEYALLOWED" /\ z.ret = FALSE /\ z.phase = Decide
      /\ "KEYALLOWED" \in z.permit
  BY <1>1, <1>2, FreshFields DEF Same, TryingKey, Trying, InStep, Agree, MON_ISAUTH
<1>4. n = [z EXCEPT !.auth_method = am, !.key_blob = k]
  <2>1. n = mm_answer_keyallowed(z, q)
    BY <1>2, <1>3 DEF Handled, Handler, Fresh, MON_ONCE
  <2> QED BY <2>1 DEF mm_answer_keyallowed
<1>5. am \in Methods \cup {"unknown"} /\ k \in Keys /\ (k = NoKey \/ k = q.key)
  BY <1>2, <1>3 DEF MonitorState, Methods, Keys
<1> HIDE DEF z, n, am, k
<1>6. n \in MonitorState
  BY <1>3, <1>4, <1>5 DEF MonitorState
<1>7. /\ n.key_blob = k /\ n.ret = FALSE
      /\ n.phase = Decide /\ n.err = "none" /\ n.type = "KEYALLOWED"
      /\ n.user = m.user /\ n.valid = m.valid /\ n.permit = m.permit
      /\ n.lists = m.lists /\ n.log = m.log /\ n.failures = m.failures
      /\ n.prev_keys = m.prev_keys
  BY <1>3, <1>4, <1>5 DEF MonitorState, Same
<1>8. Answer(n, q) = <<n.key_blob # NoKey>>
  <2>1. /\ n.err = "none" /\ q.type \notin {"AUTHSERV", "PWNAM"} /\ q.type = "KEYALLOWED"
        /\ q.type \notin MON_AUTHDECIDE
    BY <1>2, <1>7 DEF MON_AUTHDECIDE
  <2> QED BY <2>1, Zenon DEF Answer
<1>9. Settled(n) = Judged(n)
  BY <1>7 DEF Settled
<1>10. LET j == Judged(n)
       IN  /\ Same(j, n) /\ j.lists = n.lists /\ j.log = n.log
           /\ j.failures = n.failures /\ j.err = "none" /\ j.phase = Loop
  <2>1. n.type \notin MON_AUTHDECIDE
    BY <1>7 DEF MON_AUTHDECIDE
  <2>2. n.failures <= MaxAuthTries
    <3>1. m.failures <= c.failures + Slack(c) /\ c.failures < MaxAuthTries
      BY DEF TryingKey, Trying, InStep, Ready
    <3>2. Slack(c) \in {0, 1} /\ m.failures \in Nat /\ c.failures \in Nat
      BY DEF Slack, MonitorState, ChildState
    <3> QED BY <1>7, <3>1, <3>2
  <2> QED BY <1>6, <1>7, <2>1, <2>2, JudgedCases
<1>11. TryingKey(c, Settled(n))
  BY <1>7, <1>9, <1>10 DEF TryingKey, Trying, InStep, Agree, Same
<1>12. (n.key_blob # NoKey) \in BOOLEAN
  OBVIOUS
<1>13. n.key_blob # NoKey => Settled(n).key_blob = c.r.key
  BY <1>2, <1>5, <1>7, <1>9, <1>10 DEF Same
<1> QED BY <1>8, <1>11, <1>12, <1>13, Zenon DEF n, q

(***************************************************************************)
(* The child's steps.                                                      *)
(***************************************************************************)
SameChild(d, c) ==
    /\ d.user = c.user /\ d.valid = c.valid /\ d.attempt = c.attempt
    /\ d.none_enabled = c.none_enabled /\ d.prev_keys = c.prev_keys

LEMMA FinishFields ==
    ASSUME NEW c \in ChildState, NEW b \in BOOLEAN, MaxAuthTries \in Nat
    PROVE  LET d == userauth_finish(c, b)
               m == c.r.method
               partial == Succeeded(c, b) /\ Configured /\ ~Completes(c.lists, m)
           IN  /\ b /\ ~c.valid => d.pc = "internal"
               /\ ~(b /\ ~c.valid) /\ ~(Succeeded(c, b) /\ Configured /\ InNoList(c.lists, m)) =>
                  /\ Succeeded(c, b) /\ ~partial => d.pc = "success"
                  /\ partial =>
                       /\ SameChild(d, c) /\ d.failures = c.failures
                       /\ d.lists = auth2_update_methods_lists(c.lists, m)
                       /\ d.log = Append(c.log, m)
                       /\ d.pc = IF c.failures >= MaxAuthTries THEN "disconnected" ELSE "idle"
                  /\ ~Succeeded(c, b) =>
                       /\ SameChild(d, c) /\ d.lists = c.lists /\ d.log = c.log
                       /\ \/ d.failures = c.failures + 1
                          \/ d.failures = c.failures /\ m = "none"
                       /\ d.pc = IF d.failures >= MaxAuthTries THEN "disconnected" ELSE "idle"
<1> DEFINE m == c.r.method
           ok == Succeeded(c, b)
           partial == ok /\ Configured /\ ~Completes(c.lists, m)
           L == IF ok /\ Configured THEN auth2_update_methods_lists(c.lists, m) ELSE c.lists
           g == IF ok THEN Append(c.log, m) ELSE c.log
           e == [c EXCEPT !.r = NoRequest, !.lists = L, !.log = g]
           penalty == ~partial /\ (c.attempt > 1 \/ m # "none")
           f == IF penalty THEN c.failures + 1 ELSE c.failures
           pc == IF f >= MaxAuthTries THEN "disconnected" ELSE "idle"
           reply == IF partial THEN "PARTIAL" ELSE "FAILURE"
           d == userauth_finish(c, b)
<1>1. d = IF b /\ ~c.valid THEN [c EXCEPT !.pc = "internal"]
          ELSE IF ok /\ Configured /\ InNoList(c.lists, m) THEN [c EXCEPT !.pc = "nolist"]
          ELSE IF ok /\ ~partial THEN [e EXCEPT !.pc = "success", !.reply = "SUCCESS"]
          ELSE [e EXCEPT !.failures = f, !.pc = pc, !.reply = reply]
  BY DEF userauth_finish
<1>2. c.failures \in Nat /\ c.attempt \in Nat
  BY DEF ChildState
<1> HIDE DEF d
<1>3. ASSUME b /\ ~c.valid PROVE d.pc = "internal"
  <2>1. d = [c EXCEPT !.pc = "internal"]
    BY <1>1, <1>3, Zenon
  <2> QED BY <2>1 DEF ChildState
<1>4. ASSUME ~(b /\ ~c.valid), ~(ok /\ Configured /\ InNoList(c.lists, m)), ok /\ ~partial
      PROVE  d.pc = "success"
  <2>1. d = [e EXCEPT !.pc = "success", !.reply = "SUCCESS"]
    BY <1>1, <1>4, Zenon
  <2> HIDE DEF L, g
  <2> QED BY <2>1 DEF ChildState
<1>5. ASSUME ~(b /\ ~c.valid), ~(ok /\ Configured /\ InNoList(c.lists, m)), ~(ok /\ ~partial)
      PROVE  /\ SameChild(d, c) /\ d.failures = f /\ d.lists = L /\ d.log = g /\ d.pc = pc
  <2>1. d = [e EXCEPT !.failures = f, !.pc = pc, !.reply = reply]
    BY <1>1, <1>5, Zenon
  <2> HIDE DEF L, g, f, pc, reply
  <2> QED BY <2>1 DEF ChildState, SameChild
<1>6. ASSUME partial
      PROVE  /\ L = auth2_update_methods_lists(c.lists, m) /\ g = Append(c.log, m)
             /\ f = c.failures
  BY <1>6
<1>7. ASSUME ~ok
      PROVE  L = c.lists /\ g = c.log /\ (f = c.failures + 1 \/ (f = c.failures /\ m = "none"))
  BY <1>2, <1>7
<1>8. ASSUME ~(b /\ ~c.valid), ~(ok /\ Configured /\ InNoList(c.lists, m)), partial
      PROVE  /\ SameChild(d, c) /\ d.failures = c.failures
             /\ d.lists = auth2_update_methods_lists(c.lists, m)
             /\ d.log = Append(c.log, m)
             /\ d.pc = IF c.failures >= MaxAuthTries THEN "disconnected" ELSE "idle"
  <2>1. ~(ok /\ ~partial)
    BY <1>8
  <2> HIDE DEF ok, partial, L, g, f
  <2> QED BY <1>5, <1>6, <1>8, <2>1
<1>9. ASSUME ~(b /\ ~c.valid), ~(ok /\ Configured /\ InNoList(c.lists, m)), ~ok
      PROVE  /\ SameChild(d, c) /\ d.lists = c.lists /\ d.log = c.log
             /\ \/ d.failures = c.failures + 1
                \/ d.failures = c.failures /\ m = "none"
             /\ d.pc = IF d.failures >= MaxAuthTries THEN "disconnected" ELSE "idle"
  <2>1. ~(ok /\ ~partial)
    BY <1>9
  <2> HIDE DEF ok, partial, L, g, f
  <2> QED BY <1>5, <1>7, <1>9, <2>1
<1> QED BY <1>3, <1>4, <1>8, <1>9 DEF d

\* A failure the monitor has no part in.
LEMMA FailServed ==
    ASSUME NEW c \in ChildState, NEW j \in MonitorState, MaxAuthTries \in Nat, InStep(c, j)
    PROVE  Served(userauth_finish(c, FALSE), j, <<>>, <<>>)
<1> DEFINE d == userauth_finish(c, FALSE)
<1>1. ~Succeeded(c, FALSE)
  BY DEF Succeeded
<1>2. /\ SameChild(d, c) /\ d.lists = c.lists /\ d.log = c.log
      /\ d.failures = c.failures + 1 \/ d.failures = c.failures
      /\ d.pc \in {"disconnected", "idle"}
  BY <1>1, FinishFields
<1> HIDE DEF d
<1>3. c.failures \in Nat /\ j.failures \in Nat /\ Slack(c) \in {0, 1} /\ c.attempt \in Nat
  BY DEF ChildState, MonitorState, Slack
<1>4. Slack(d) = Slack(c)
  BY <1>2 DEF Slack, SameChild
<1>5. InStep(d, j) /\ d.attempt > 0
  BY <1>2, <1>3, <1>4 DEF InStep, Agree, SameChild
<1>6. AtIdle(d, j, <<>>, <<>>) /\ j.err = "none"
  BY <1>5 DEF AtIdle, InStep, Agree
<1> QED BY <1>2, <1>6 DEF Served, d

\* An outcome the monitor has answered; e has noted the key when it is one.
LEMMA FinishServed ==
    ASSUME NEW c \in ChildState, NEW e \in ChildState, NEW j \in MonitorState,
           NEW b \in BOOLEAN, MaxAuthTries \in Nat, Outcome(c, j, b),
           e.user = c.user, e.valid = c.valid, e.attempt = c.attempt,
           e.none_enabled = c.none_enabled, e.lists = c.lists, e.log = c.log, e.r = c.r,
           e.failures = c.failures, e.prev_keys = KeysAfter(c, b)
    PROVE  Served(userauth_finish(e, b), j, <<>>, <<>>)
<1> DEFINE d == userauth_finish(e, b)
           m == c.r.method
<1>1. /\ c.failures \in Nat /\ j.failures \in Nat /\ Slack(c) \in {0, 1} /\ c.attempt \in Nat
      /\ c.failures < MaxAuthTries /\ Slack(e) = Slack(c)
  BY DEF ChildState, MonitorState, Slack, Outcome, Ready
<1>2. /\ Succeeded(e, b) = Succeeded(c, b) /\ e.r.method = m
      /\ ~(Succeeded(c, b) /\ Configured /\ InNoList(c.lists, m))
  BY DEF Succeeded, Outcome, Ready
<1>3. CASE b /\ ~c.valid
  <2>1. d.pc = "internal"
    BY <1>3, FinishFields
  <2>2. j.err = "none"
    BY <1>3 DEF Outcome
  <2> QED BY <2>1, <2>2 DEF Served
<1>4. CASE ~(b /\ ~c.valid) /\ Succeeded(c, b) /\ ~(Configured /\ ~Completes(c.lists, m))
  <2>1. d.pc = "success"
    BY <1>2, <1>4, FinishFields
  <2>2. j.err = "none" /\ j.phase = "granted"
    BY <1>4 DEF Outcome
  <2> QED BY <2>1, <2>2 DEF Served
<1>5. CASE ~(b /\ ~c.valid) /\ Succeeded(c, b) /\ Configured /\ ~Completes(c.lists, m)
  <2>1. /\ SameChild(d, e) /\ d.failures = c.failures
        /\ d.lists = auth2_update_methods_lists(c.lists, m)
        /\ d.log = Append(c.log, m)
        /\ d.pc = "idle"
    <3>1. ~(c.failures >= MaxAuthTries)
      BY <1>1
    <3> QED BY <1>2, <1>5, <3>1, FinishFields, ZenonT(60)
  <2> HIDE DEF d
  <2> DEFINE L == auth2_update_methods_lists(c.lists, m)
             g == Append(c.log, m)
             a == [c EXCEPT !.lists = L, !.log = g]
  <2>2. Agree(a, j) /\ j.prev_keys = KeysAfter(c, b) /\ j.failures <= c.failures + Slack(c)
    BY <1>5 DEF Outcome
  <2>3. a.user = c.user /\ a.lists = L /\ a.log = g /\ a.valid = c.valid /\ a.attempt = c.attempt
    <3> HIDE DEF L, g
    <3> QED BY DEF ChildState
  <2> HIDE DEF a
  <2>4. Slack(d) = Slack(c)
    BY <2>1 DEF Slack, SameChild
  <2>5. InStep(d, j) /\ d.attempt > 0
    BY <2>1, <2>2, <2>3, <2>4 DEF InStep, Agree, SameChild
  <2>6. AtIdle(d, j, <<>>, <<>>)
    BY <2>5 DEF AtIdle
  <2> QED BY <2>1, <2>6 DEF Served, d
<1>6. CASE ~(b /\ ~c.valid) /\ ~Succeeded(c, b)
  <2>1. /\ SameChild(d, e) /\ d.lists = c.lists /\ d.log = c.log
        /\ \/ d.failures = c.failures + 1
           \/ d.failures = c.failures /\ m = "none"
        /\ d.pc = IF d.failures >= MaxAuthTries THEN "disconnected" ELSE "idle"
    BY <1>2, <1>6, FinishFields
  <2> HIDE DEF d
  <2>2. Slack(d) = Slack(c) /\ (m = "none" => Slack(c) = 1)
    BY <2>1 DEF Slack, SameChild, Outcome, Ready, EmptyCall
  <2>3. CASE /\ Agree(c, j) /\ j.prev_keys = KeysAfter(c, b)
             /\ j.failures <= c.failures + 1 + (IF m = "none" THEN 0 ELSE Slack(c))
    <3>1. j.failures <= d.failures + Slack(d)
      BY <1>1, <2>1, <2>2, <2>3
    <3>2. InStep(d, j) /\ d.attempt > 0 /\ j.err = "none"
      BY <2>1, <2>3, <3>1 DEF InStep, Agree, SameChild
    <3>3. AtIdle(d, j, <<>>, <<>>)
      BY <3>2 DEF AtIdle
    <3>4. d.pc \in {"disconnected", "idle"}
      BY <2>1
    <3> QED BY <3>2, <3>3, <3>4 DEF Served, d
  <2>4. CASE j.err = "tries" /\ m # "none" /\ Slack(c) = 1 /\ c.failures + 1 >= MaxAuthTries
    <3>1. d.pc = "disconnected"
      BY <1>1, <2>1, <2>4
    <3> QED BY <2>2, <2>4, <3>1 DEF Served, d
  <2> QED BY <1>6, <2>3, <2>4 DEF Outcome
<1> QED BY <1>3, <1>4, <1>5, <1>6

LEMMA TryServed ==
    ASSUME TypeOK, NEW c \in ChildState, NEW j \in MonitorState, MaxAuthTries \in Nat,
           InStep(c, j), Undisputed(c), c.r \in UserauthRequest, reqs = <<>>, Try(c)
    PROVE  Served(child', j, reqs', <<>>)
<1> DEFINE m == c.r.method
           tried == authmethod_lookup(c, m)
           d == IF m = "none" /\ tried THEN [c EXCEPT !.none_enabled = FALSE] ELSE c
           password == \/ m = "password"
                       \/ m = "none" /\ conf.empty /\ "password" \in conf.enabled
<1>1. /\ d \in ChildState /\ d.user = c.user /\ d.valid = c.valid /\ d.attempt = c.attempt
      /\ d.lists = c.lists /\ d.log = c.log /\ d.r = c.r /\ d.failures = c.failures
      /\ d.prev_keys = c.prev_keys
      /\ m = "none" /\ tried => ~d.none_enabled
      /\ ~(m = "none" /\ tried) => d.none_enabled = c.none_enabled
  <2>1. CASE m = "none" /\ tried
    <3>1. d = [c EXCEPT !.none_enabled = FALSE]
      BY <2>1, Zenon
    <3> HIDE DEF d
    <3> QED BY <2>1, <3>1 DEF ChildState
  <2>2. CASE ~(m = "none" /\ tried)
    <3>1. d = c
      BY <2>2, Zenon
    <3> HIDE DEF d
    <3> QED BY <2>2, <3>1
  <2> QED BY <2>1, <2>2
<1>2. \/ tried /\ password /\ Ask([d EXCEPT !.pc = "passwd"], <<Req("AUTHPASSWORD", d.r)>>)
      \/ /\ tried /\ m = "publickey" /\ d.valid /\ d.r.key \notin d.prev_keys
         /\ Ask([d EXCEPT !.pc = "allowed"], <<Req("KEYALLOWED", d.r)>>)
      \/ Ask(userauth_finish(d, FALSE), <<>>)
  BY DEF Try
<1> HIDE DEF d
<1>3. InStep(d, j) /\ d.attempt > 0
  <2>1. Slack(d) >= Slack(c) /\ Slack(d) \in {0, 1} /\ Slack(c) \in {0, 1}
    BY <1>1 DEF Slack
  <2>2. c.failures \in Nat /\ j.failures \in Nat
    BY DEF ChildState, MonitorState
  <2> QED BY <1>1, <2>1, <2>2 DEF InStep, Agree
<1>4. ASSUME tried PROVE Ready(d)
  BY <1>1, <1>4
  DEF Ready, authmethod_lookup, auth2_method_allowed, InNoList
<1>5. \A n, x : Ask(n, x) => child' = n /\ reqs' = <<>> \o x
  BY DEF Ask
<1>6. CASE tried /\ password /\ Ask([d EXCEPT !.pc = "passwd"], <<Req("AUTHPASSWORD", d.r)>>)
  <2> DEFINE e == [d EXCEPT !.pc = "passwd"]
  <2>1. child' = e /\ reqs' = <<Req("AUTHPASSWORD", d.r)>>
    BY <1>5, <1>6
  <2>2. /\ e.pc = "passwd" /\ SameChild(e, d) /\ e.lists = d.lists /\ e.log = d.log
        /\ e.failures = d.failures /\ e.r = d.r
    BY <1>1 DEF ChildState, SameChild
  <2> HIDE DEF e
  <2>3. Slack(e) = Slack(d)
    BY <2>2 DEF Slack, SameChild
  <2>4. InStep(e, j) /\ Ready(e)
    BY <1>3, <1>4, <1>6, <2>2, <2>3 DEF InStep, Agree, Ready, SameChild
  <2>5. m = "none" => ~Configured /\ j.failures <= e.failures
    <3>1. m = "none" => c.none_enabled
      BY <1>6 DEF authmethod_lookup
    <3>2. m = "none" => Slack(c) = 0
      BY <3>1 DEF Slack
    <3>3. c.failures \in Nat /\ j.failures \in Nat
      BY DEF ChildState, MonitorState
    <3>4. m = "none" => j.failures <= c.failures
      BY <3>2, <3>3 DEF InStep
    <3>5. m = "none" => conf.empty
      BY <1>6
    <3> QED BY <1>1, <2>2, <3>4, <3>5 DEF Undisputed
  <2>6. Trying(e, j)
    BY <1>1, <1>6, <2>2, <2>4, <2>5 DEF Trying, EmptyCall
  <2>7. m \in {"none", "password"} /\ "password" \in conf.enabled
    BY <1>6 DEF authmethod_lookup, Enabled
  <2>8. AtPasswd(e, j, reqs', <<>>)
    BY <1>1, <2>1, <2>2, <2>6, <2>7 DEF AtPasswd, Asked
  <2> QED BY <2>1, <2>2, <2>8 DEF Served
<1>7. CASE /\ tried /\ m = "publickey" /\ d.valid /\ d.r.key \notin d.prev_keys
           /\ Ask([d EXCEPT !.pc = "allowed"], <<Req("KEYALLOWED", d.r)>>)
  <2> DEFINE e == [d EXCEPT !.pc = "allowed"]
  <2>1. child' = e /\ reqs' = <<Req("KEYALLOWED", d.r)>>
    BY <1>5, <1>7
  <2>2. /\ e.pc = "allowed" /\ SameChild(e, d) /\ e.lists = d.lists /\ e.log = d.log
        /\ e.failures = d.failures /\ e.r = d.r
    BY <1>1 DEF ChildState, SameChild
  <2> HIDE DEF e
  <2>3. Slack(e) = Slack(d)
    BY <2>2 DEF Slack, SameChild
  <2>4. InStep(e, j) /\ Ready(e)
    BY <1>3, <1>4, <1>7, <2>2, <2>3 DEF InStep, Agree, Ready, SameChild
  <2>5. c.r.key \in Offered
    BY <1>7 DEF UserauthRequest
  <2>6. TryingKey(e, j)
    BY <1>1, <1>7, <2>2, <2>4, <2>5 DEF TryingKey, Trying, SameChild, EmptyCall
  <2>7. AtAllowed(e, j, reqs', <<>>)
    BY <2>1, <2>2, <2>6 DEF AtAllowed, Asked
  <2> QED BY <2>1, <2>2, <2>7 DEF Served
<1>8. CASE Ask(userauth_finish(d, FALSE), <<>>)
  <2>1. child' = userauth_finish(d, FALSE) /\ reqs' = <<>>
    BY <1>8 DEF Ask
  <2> QED BY <1>1, <1>3, <2>1, FailServed
<1> QED BY <1>2, <1>6, <1>7, <1>8

(***************************************************************************)
(* The configuration does not change.                                      *)
(***************************************************************************)
LEMMA SettledPrime ==
    ASSUME conf' = conf, NEW m
    PROVE  Settled(m)' = Settled(m)
<1>1. Configured' = Configured
  BY DEF Configured
<1>2. /\ Updated(m)' = Updated(m) /\ Partial(m)' = Partial(m)
      /\ Authenticated(m)' = Authenticated(m)
  BY <1>1 DEF Updated, Partial, Authenticated, auth_root_allowed, Completes
<1>3. Judged(m)' = Judged(m)
  BY <1>2 DEF Judged, auth2_update_methods_lists, list_starts_with, InNoList,
              MON_AUTHDECIDE, Loop
<1> QED BY <1>3 DEF Settled, Decide

LEMMA ServedPrime ==
    ASSUME conf' = conf, NEW c, NEW j, NEW rq, NEW an, Served(c, j, rq, an)
    PROVE  Served(c, j, rq, an)'
<1>1. /\ Configured' = Configured
      /\ auth2_setup_methods_lists' = auth2_setup_methods_lists
  BY DEF Configured, auth2_setup_methods_lists, Enabled
<1>2. /\ NoAccount(c, j)' = NoAccount(c, j) /\ Account(c, j)' = Account(c, j)
      /\ InStep(c, j)' = InStep(c, j) /\ Ready(c)' = Ready(c)
      /\ EmptyCall(c)' = EmptyCall(c) /\ Slack(c)' = Slack(c)
  BY <1>1
  DEF NoAccount, Account, NothingTried, InStep, Agree, Slack, MON_ISAUTH, Ready, EmptyCall,
      InNoList, list_starts_with, Loop
<1>3. Trying(c, j)' = Trying(c, j) /\ TryingKey(c, j)' = TryingKey(c, j)
  BY <1>1, <1>2 DEF Trying, TryingKey
<1>4. ASSUME NEW b PROVE Outcome(c, j, b)' = Outcome(c, j, b)
  <2>1. Succeeded(c, b)' = Succeeded(c, b) /\ Succeeded(c, TRUE)' = Succeeded(c, TRUE)
    BY DEF Succeeded, auth_root_allowed
  <2>2. \A x : Agree(x, j)' = Agree(x, j)
    BY DEF Agree, MON_ISAUTH, Loop
  <2>3. Completes(c.lists, c.r.method)' = Completes(c.lists, c.r.method)
    BY DEF Completes
  <2>4. auth2_update_methods_lists(c.lists, c.r.method)' =
           auth2_update_methods_lists(c.lists, c.r.method)
    BY DEF auth2_update_methods_lists, list_starts_with
  <2>5. KeysAfter(c, b)' = KeysAfter(c, b) /\ Slack(c)' = Slack(c)
    BY DEF KeysAfter, Slack
  <2> QED BY <1>1, <1>2, <2>1, <2>2, <2>3, <2>4, <2>5 DEF Outcome
<1>5. /\ AtKex(c, j, rq, an)' = AtKex(c, j, rq, an)
      /\ AtSigned(c, j, rq, an)' = AtSigned(c, j, rq, an)
      /\ AtIdle(c, j, rq, an)' = AtIdle(c, j, rq, an)
  BY <1>1, <1>2 DEF AtKex, AtSigned, AtIdle, Req, NoRequest
<1>6. /\ AtPwnam(c, j, rq, an)' = AtPwnam(c, j, rq, an)
      /\ AtBanner(c, j, rq, an)' = AtBanner(c, j, rq, an)
  BY <1>1, <1>2 DEF AtPwnam, AtBanner, Asked, Told, Req, UserauthRequest, MON_ISAUTH
<1>7. /\ AtPasswd(c, j, rq, an)' = AtPasswd(c, j, rq, an)
      /\ AtVerify(c, j, rq, an)' = AtVerify(c, j, rq, an)
      /\ AtAllowed(c, j, rq, an)' = AtAllowed(c, j, rq, an)
  BY <1>1, <1>3, <1>4 DEF AtPasswd, AtVerify, AtAllowed, Asked, Told, Req
<1>8. AtExported(j, rq)' = AtExported(j, rq)
  BY DEF AtExported, Req, NoRequest
<1> QED BY <1>2, <1>5, <1>6, <1>7, <1>8 DEF Served

(***************************************************************************)
(* The user is set once, with the first request.                           *)
(***************************************************************************)
LEMMA FinishUser ==
    ASSUME NEW c \in ChildState, NEW b \in BOOLEAN
    PROVE  userauth_finish(c, b).user = c.user /\ userauth_finish(c, b).attempt = c.attempt
<1> DEFINE m == c.r.method
           ok == Succeeded(c, b)
           partial == ok /\ Configured /\ ~Completes(c.lists, m)
           L == IF ok /\ Configured THEN auth2_update_methods_lists(c.lists, m) ELSE c.lists
           g == IF ok THEN Append(c.log, m) ELSE c.log
           e == [c EXCEPT !.r = NoRequest, !.lists = L, !.log = g]
           penalty == ~partial /\ (c.attempt > 1 \/ m # "none")
           f == IF penalty THEN c.failures + 1 ELSE c.failures
           pc == IF f >= MaxAuthTries THEN "disconnected" ELSE "idle"
           reply == IF partial THEN "PARTIAL" ELSE "FAILURE"
           d == userauth_finish(c, b)
<1>1. \/ d = [c EXCEPT !.pc = "internal"]
      \/ d = [c EXCEPT !.pc = "nolist"]
      \/ d = [e EXCEPT !.pc = "success", !.reply = "SUCCESS"]
      \/ d = [e EXCEPT !.failures = f, !.pc = pc, !.reply = reply]
  BY DEF userauth_finish
<1> HIDE DEF L, g, f, pc, reply, d
<1>2. d.user = c.user /\ d.attempt = c.attempt
  BY <1>1 DEF ChildState
<1> QED BY <1>2 DEF d

LEMMA TryUser ==
    ASSUME NEW c \in ChildState, Try(c)
    PROVE  child'.user = c.user /\ child'.attempt = c.attempt
<1> DEFINE m == c.r.method
           tried == authmethod_lookup(c, m)
           d == IF m = "none" /\ tried THEN [c EXCEPT !.none_enabled = FALSE] ELSE c
<1>1. d \in ChildState /\ d.user = c.user /\ d.attempt = c.attempt
  BY DEF ChildState
<1>2. \/ child' = [d EXCEPT !.pc = "passwd"]
      \/ child' = [d EXCEPT !.pc = "allowed"]
      \/ child' = userauth_finish(d, FALSE)
  BY DEF Try, Ask
<1> HIDE DEF d
<1>3. CASE child' = userauth_finish(d, FALSE)
  BY <1>1, <1>3, FinishUser
<1> QED BY <1>1, <1>2, <1>3 DEF ChildState

NullUser == child.attempt = 0 => child.user = "NULL"

LEMMA UserSetOnce ==
    ASSUME TypeOK, NullUser, [Next]_vars
    PROVE  NullUser' /\ (child.user = child'.user \/ child.user = "NULL")
<1>0. child \in ChildState /\ child.attempt \in Nat
  BY DEF TypeOK, ChildState
<1>1. CASE child'.user = child.user /\ child'.attempt = child.attempt
  BY <1>1 DEF NullUser
<1>2. CASE child' = child
  BY <1>1, <1>2
<1>3. CASE do_ssh2_kex \/ Signed \/ mm_send_keystate
  BY <1>0, <1>1, <1>3 DEF do_ssh2_kex, Signed, mm_send_keystate, Ask, ChildState
<1>4. CASE Pwnam
  <2> DEFINE v == Head(answers) /\ child.r.service
  <2>1. child' = [child EXCEPT !.pc = "banner", !.valid = v]
    BY <1>4 DEF Pwnam, Ask
  <2> HIDE DEF v
  <2> QED BY <1>0, <1>1, <2>1 DEF ChildState
<1>5. CASE Banner
  <2> DEFINE L == auth2_setup_methods_lists
             c == [child EXCEPT !.lists = L]
  <2>1. child' = [child EXCEPT !.pc = "disconnected"] \/ Try(c)
    BY <1>5 DEF Banner, Ask
  <2>2. L \in MethodLists
    BY ListsType DEF TypeOK
  <2> HIDE DEF L
  <2>3. c \in ChildState /\ c.user = child.user /\ c.attempt = child.attempt
    BY <1>0, <2>2 DEF ChildState
  <2> HIDE DEF c
  <2>4. CASE Try(c)
    BY <1>1, <2>3, <2>4, TryUser
  <2> QED BY <1>0, <1>1, <2>1, <2>4 DEF ChildState
<1>6. CASE userauth_passwd \/ userauth_pubkey \/ Verify
  <2>1. answers # <<>>
    BY <1>6 DEF userauth_passwd, userauth_pubkey, Verify, Answered
  <2>2. Head(answers) \in BOOLEAN
    BY <2>1 DEF TypeOK
  <2> DEFINE k == [child EXCEPT !.prev_keys = @ \cup {child.r.key}]
  <2>3. k \in ChildState /\ k.user = child.user /\ k.attempt = child.attempt
    <3>1. child.prev_keys \cup {child.r.key} \in SUBSET Keys
      BY <1>0, ChildFields
    <3> QED BY <1>0, <3>1 DEF ChildState
  <2>4. \/ \E c \in {child, k}, b \in BOOLEAN : child' = userauth_finish(c, b)
        \/ child' = [child EXCEPT !.pc = "verify"]
        \/ child' = [child EXCEPT !.pc = "idle", !.reply = "PK_OK", !.r = NoRequest]
    BY <1>6, <2>2 DEF userauth_passwd, userauth_pubkey, Verify, Ask
  <2> HIDE DEF k
  <2>5. CASE \E c \in {child, k}, b \in BOOLEAN : child' = userauth_finish(c, b)
    BY <1>0, <1>1, <2>3, <2>5, FinishUser
  <2> QED BY <1>0, <1>1, <2>4, <2>5 DEF ChildState
<1>7. CASE input_userauth_request
  <2>1. PICK r \in UserauthRequest :
          LET c == [child EXCEPT !.r = r, !.attempt = @ + 1]
          IN  \/ /\ child.attempt = 0
                 /\ child' = [c EXCEPT !.pc = "pwnam", !.user = r.user, !.service = r.service]
              \/ child' = [child EXCEPT !.pc = "disconnected"]
              \/ child.attempt # 0 /\ Try(c)
    BY <1>7 DEF input_userauth_request, Ask
  <2> DEFINE c == [child EXCEPT !.r = r, !.attempt = @ + 1]
  <2>2. r \in ClientRequest
    BY DEF UserauthRequest, ClientRequest, UserNames, Keys, Methods
  <2>3. c \in ChildState /\ c.user = child.user /\ c.attempt = child.attempt + 1
    <3> DEFINE a == child.attempt + 1
    <3>1. a \in Nat /\ c = [child EXCEPT !.r = r, !.attempt = a]
      BY <1>0
    <3> HIDE DEF a, c
    <3>2. c \in ChildState /\ c.user = child.user /\ c.attempt = a
      BY <1>0, <2>2, <3>1 DEF ChildState
    <3> QED BY <3>2 DEF a
  <2>4. CASE child.attempt = 0
             /\ child' = [c EXCEPT !.pc = "pwnam", !.user = r.user, !.service = r.service]
    BY <1>0, <2>3, <2>4 DEF ChildState, NullUser
  <2>5. CASE child.attempt # 0 /\ Try(c)
    <3> HIDE DEF c
    <3>1. child'.user = c.user /\ child'.attempt = c.attempt
      BY <2>3, <2>5, TryUser
    <3> QED BY <1>0, <2>3, <2>5, <3>1 DEF NullUser
  <2> QED BY <1>0, <1>1, <2>1, <2>4, <2>5 DEF ChildState
<1> QED
  BY <1>2, <1>3, <1>4, <1>5, <1>6, <1>7
  DEF Next, Child, Monitor, monitor_read, monitor_child_preauth, mm_get_keystate,
      AnyRequest, vars

(***************************************************************************)
(* A request of the child is answered as the child's state expects.        *)
(***************************************************************************)
LEMMA ReadServed ==
    ASSUME TypeOK, NEW c \in ChildState, NEW m \in MonitorState, NEW rq \in Seq(Request),
           NEW an, Served(c, m, rq, an), Undisputed(c), m.phase = Loop, rq # <<>>,
           MaxAuthTries \in Nat
    PROVE  LET n == Handled(m, Head(rq))
           IN  Served(c, Settled(n), Tail(rq), an \o Answer(n, Head(rq)))
<1> DEFINE q == Head(rq)
           n == Handled(m, q)
           j == Settled(n)
<1>0. q \in Request
  OBVIOUS
<1>1. \A x : rq = <<x>> => q = x /\ Tail(rq) = <<>>
  OBVIOUS
<1>2. \A x : an = <<>> => an \o <<x>> = <<x>>
  OBVIOUS
<1>3. CASE c.pc = "signed"
  <2>1. /\ NoAccount(c, m) /\ c.attempt = 0 /\ "SIGN" \in m.permit /\ an = <<>>
        /\ rq = <<Req("SIGN", NoRequest)>>
    BY <1>3 DEF Served, AtSigned
  <2>2. q.type = "SIGN" /\ Tail(rq) = <<>>
    BY <1>1, <2>1, ReqFields
  <2> HIDE DEF q
  <2>3. /\ Answer(n, q) = <<TRUE>>
        /\ j.err = "none" /\ j.phase = Loop /\ j.attempt = m.attempt
        /\ j.log = m.log /\ j.prev_keys = m.prev_keys /\ j.failures = 0
        /\ "PWNAM" \in j.permit
    BY <1>0, <2>1, <2>2, SignReply DEF NoAccount, NothingTried
  <2> HIDE DEF j, n
  <2>4. AtSigned(c, j, <<>>, <<TRUE>>)
    BY <2>1, <2>3 DEF AtSigned, NoAccount, NothingTried
  <2>5. an \o Answer(n, q) = <<TRUE>>
    BY <1>2, <2>1, <2>3
  <2> QED BY <1>3, <2>2, <2>4, <2>5 DEF Served, j, n, q
<1>4. CASE c.pc = "pwnam"
  <2>1. /\ NoAccount(c, m) /\ c.attempt = 1 /\ "PWNAM" \in m.permit /\ an = <<>>
        /\ rq = <<Req("PWNAM", c.r)>> /\ c.r.user = c.user /\ c.r \in UserauthRequest
    BY <1>4 DEF Served, AtPwnam, Asked, Told
  <2>2. q.type = "PWNAM" /\ q.user = c.user /\ Tail(rq) = <<>>
    BY <1>1, <2>1, ReqFields
  <2> HIDE DEF q
  <2>3. /\ Answer(n, q) = <<j.valid>>
        /\ j.err = "none" /\ j.phase = Loop /\ j.user = q.user
        /\ j.lists = auth2_setup_methods_lists
        /\ j.log = m.log /\ j.prev_keys = m.prev_keys /\ j.failures = 0
        /\ {"AUTHSERV", "READ_BANNER"} \subseteq j.permit
    BY <1>0, <2>1, <2>2, PwnamReply DEF NoAccount, NothingTried
  <2>4. j.valid \in BOOLEAN
    <3>1. n \in MonitorState
      BY <1>0, HandledType
    <3>2. j \in MonitorState
      BY <3>1, JudgedType DEF Settled
    <3> QED BY <3>2 DEF MonitorState
  <2> HIDE DEF j, n
  <2>5. an \o Answer(n, q) = <<j.valid>>
    BY <1>2, <2>1, <2>3
  <2>6. Told(Tail(rq), an \o Answer(n, q), j.valid)
    BY <2>2, <2>4, <2>5 DEF Told
  <2>7. Account(c, j)
    BY <2>1, <2>2, <2>3 DEF Account, NoAccount, NothingTried
  <2>8. AtPwnam(c, j, Tail(rq), an \o Answer(n, q))
    BY <2>1, <2>3, <2>6, <2>7 DEF AtPwnam
  <2> QED BY <1>4, <2>8 DEF Served, j, n, q
<1>5. CASE c.pc = "banner"
  <2>1. /\ Account(c, m) /\ (c.valid => m.valid) /\ c.r \in UserauthRequest /\ an = <<>>
        /\ \/ /\ rq = <<Req("AUTHSERV", c.r), Req("READ_BANNER", c.r)>>
              /\ {"AUTHSERV", "READ_BANNER"} \subseteq m.permit
           \/ /\ rq = <<Req("READ_BANNER", c.r)>>
              /\ MON_ISAUTH \cup {"READ_BANNER"} \subseteq m.permit
    BY <1>5 DEF Served, AtBanner
  <2>2. m.err = "none" /\ m.failures = 0
    BY <2>1 DEF Account, NothingTried
  <2>3. CASE /\ rq = <<Req("AUTHSERV", c.r), Req("READ_BANNER", c.r)>>
             /\ {"AUTHSERV", "READ_BANNER"} \subseteq m.permit
    <3>1. q = Req("AUTHSERV", c.r) /\ Tail(rq) = <<Req("READ_BANNER", c.r)>>
      BY <2>3
    <3>2. q.type = "AUTHSERV"
      BY <3>1, ReqFields
    <3> HIDE DEF q
    <3>3. /\ Answer(n, q) = <<>> /\ MON_ISAUTH \subseteq j.permit
          /\ j.err = "none" /\ j.phase = Loop /\ j.user = m.user /\ j.valid = m.valid
          /\ j.lists = m.lists /\ j.log = m.log /\ j.prev_keys = m.prev_keys
          /\ j.failures = 0 /\ m.permit \ {q.type} \subseteq j.permit
      BY <1>0, <2>2, <2>3, <3>2, ServiceReply
    <3> HIDE DEF j, n
    <3>4. Account(c, j)
      BY <2>1, <3>3 DEF Account, NothingTried
    <3>5. an \o Answer(n, q) = <<>>
      BY <2>1, <3>3
    <3>6. MON_ISAUTH \cup {"READ_BANNER"} \subseteq j.permit
      BY <2>3, <3>2, <3>3
    <3>7. AtBanner(c, j, Tail(rq), an \o Answer(n, q))
      BY <2>1, <3>1, <3>3, <3>4, <3>5, <3>6 DEF AtBanner
    <3> QED BY <1>5, <3>7 DEF Served, j, n, q
  <2>4. CASE /\ rq = <<Req("READ_BANNER", c.r)>>
             /\ MON_ISAUTH \cup {"READ_BANNER"} \subseteq m.permit
    <3>1. q = Req("READ_BANNER", c.r) /\ Tail(rq) = <<>>
      BY <1>1, <2>4
    <3>2. q.type = "READ_BANNER"
      BY <3>1, ReqFields
    <3> HIDE DEF q
    <3>3. /\ Answer(n, q) = <<TRUE>>
          /\ j.err = "none" /\ j.phase = Loop /\ j.user = m.user /\ j.valid = m.valid
          /\ j.lists = m.lists /\ j.log = m.log /\ j.prev_keys = m.prev_keys
          /\ j.failures = 0 /\ m.permit \ {q.type} \subseteq j.permit
      BY <1>0, <2>2, <2>4, <3>2, ServiceReply
    <3> HIDE DEF j, n
    <3>4. Account(c, j)
      BY <2>1, <3>3 DEF Account, NothingTried
    <3>5. an \o Answer(n, q) = <<TRUE>>
      BY <1>2, <2>1, <3>3
    <3>6. MON_ISAUTH \subseteq j.permit
      BY <2>4, <3>2, <3>3 DEF MON_ISAUTH
    <3>7. AtBanner(c, j, Tail(rq), an \o Answer(n, q))
      BY <2>1, <3>1, <3>3, <3>4, <3>5, <3>6 DEF AtBanner
    <3> QED BY <1>5, <3>7 DEF Served, j, n, q
  <2> QED BY <2>1, <2>3, <2>4
<1>6. CASE c.pc = "passwd"
  <2>1. /\ Asked(rq, an, "AUTHPASSWORD", c) /\ Trying(c, m)
        /\ c.r.method \in {"none", "password"} /\ "password" \in conf.enabled
    BY <1>6 DEF Served, AtPasswd, Told
  <2>2. q = Req("AUTHPASSWORD", c.r) /\ Tail(rq) = <<>> /\ an = <<>>
    BY <1>1, <2>1 DEF Asked
  <2>3. PICK b \in BOOLEAN : Answer(n, q) = <<b>> /\ Outcome(c, j, b)
    BY <2>1, <2>2, PasswordReply
  <2> HIDE DEF q, j, n
  <2>4. Told(Tail(rq), an \o Answer(n, q), b)
    BY <1>2, <2>2, <2>3 DEF Told
  <2>5. AtPasswd(c, j, Tail(rq), an \o Answer(n, q))
    BY <2>1, <2>3, <2>4 DEF AtPasswd
  <2> QED BY <1>6, <2>5 DEF Served, j, n, q
<1>7. CASE c.pc = "allowed"
  <2>1. Asked(rq, an, "KEYALLOWED", c) /\ TryingKey(c, m)
    BY <1>7 DEF Served, AtAllowed, Told
  <2>2. q = Req("KEYALLOWED", c.r) /\ Tail(rq) = <<>> /\ an = <<>>
    BY <1>1, <2>1 DEF Asked
  <2>3. /\ TryingKey(c, j)
        /\ \E b \in BOOLEAN : Answer(n, q) = <<b>> /\ (b => j.key_blob = c.r.key)
    BY <2>1, <2>2, AllowedReply
  <2> HIDE DEF q, j, n
  <2>4. PICK b \in BOOLEAN : Answer(n, q) = <<b>> /\ (b => j.key_blob = c.r.key)
    BY <2>3
  <2>5. Told(Tail(rq), an \o Answer(n, q), b)
    BY <1>2, <2>2, <2>4 DEF Told
  <2>6. AtAllowed(c, j, Tail(rq), an \o Answer(n, q))
    BY <2>3, <2>4, <2>5 DEF AtAllowed
  <2> QED BY <1>7, <2>6 DEF Served, j, n, q
<1>8. CASE c.pc = "verify"
  <2>1. /\ Asked(rq, an, "KEYVERIFY", c) /\ TryingKey(c, m) /\ m.key_blob = c.r.key
        /\ c.r.method = "publickey"
    BY <1>8 DEF Served, AtVerify, Told
  <2>2. q = Req("KEYVERIFY", c.r) /\ Tail(rq) = <<>> /\ an = <<>>
    BY <1>1, <2>1 DEF Asked
  <2>3. PICK b \in BOOLEAN : Answer(n, q) = <<b>> /\ Outcome(c, j, b)
    BY <2>1, <2>2, VerifyReply
  <2> HIDE DEF q, j, n
  <2>4. Told(Tail(rq), an \o Answer(n, q), b)
    BY <1>2, <2>2, <2>3 DEF Told
  <2>5. AtVerify(c, j, Tail(rq), an \o Answer(n, q))
    BY <2>1, <2>3, <2>4 DEF AtVerify
  <2> QED BY <1>8, <2>5 DEF Served, j, n, q
<1>9. c.pc \in {"signed", "pwnam", "banner", "passwd", "allowed", "verify"}
  <2>1. m.phase # "granted"
    BY DEF Loop
  <2> QED BY <2>1 DEF Served, AtKex, AtIdle, AtExported, ChildState
<1> QED BY <1>3, <1>4, <1>5, <1>6, <1>7, <1>8, <1>9

\* HonestInv after a step, from what the variables have become.
LEMMA ServedStep ==
    ASSUME NEW c, NEW m, NEW rq, NEW an, Served(c, Settled(m), rq, an), conf' = conf,
           child' = c, mon' = m, reqs' = rq, answers' = an
    PROVE  HonestInv'
<1> DEFINE j == Settled(m)
<1>1. j' = j
  BY SettledPrime
<1>2. PICK k : k = j
  OBVIOUS
<1>3. Served(c, k, rq, an)'
  BY <1>2, ServedPrime
<1>4. Settled(mon)' = k
  BY <1>1, <1>2
<1>5. Served(child, Settled(mon), reqs, answers)'
  BY <1>3, <1>4
<1> QED BY <1>5 DEF HonestInv

LEMMA DisputeStays ==
    ASSUME TypeOK, NullUser, [Next]_vars, conf' = conf, honest' = honest,
           honest', ~Disputed'
    PROVE  honest /\ ~Disputed /\ Undisputed(child)
<1>1. child.user = child'.user \/ child.user = "NULL"
  BY UserSetOnce
<1>2. ~Disputed
  BY <1>1 DEF Disputed, Configured
<1>3. conf.empty \in BOOLEAN /\ conf.root \in {"yes", "no", "prohibit-password"}
  BY DEF TypeOK, Config
<1> QED BY <1>2, <1>3 DEF Disputed, Undisputed

LEMMA ConfStays ==
    ASSUME [Next]_vars
    PROVE  conf' = conf /\ honest' = honest
BY DEF Next, vars, Child, Monitor, do_ssh2_kex, Signed, Pwnam, Banner, userauth_passwd,
    userauth_pubkey, Verify, mm_send_keystate, input_userauth_request, AnyRequest,
    monitor_read, monitor_child_preauth, mm_get_keystate, Try, Ask

\* The monitor's steps.
LEMMA MonitorHonest ==
    ASSUME TypeOK, conf' = conf, Undisputed(child), MaxAuthTries \in Nat,
           Served(child, Settled(mon), reqs, answers), Monitor
    PROVE  HonestInv'
<1>0. child \in ChildState /\ mon \in MonitorState /\ reqs \in Seq(Request)
  BY DEF TypeOK
<1>1. PICK c, m, rq, an : c = child /\ m = mon /\ rq = reqs /\ an = answers
  OBVIOUS
<1>2. CASE monitor_read
  <2>1. PICK q, n : /\ q = Head(reqs) /\ n = Handled(mon, q) /\ mon' = n
                    /\ answers' = answers \o Answer(n, q)
    BY <1>2, Zenon DEF monitor_read
  <2>2. /\ reqs # <<>> /\ mon.phase = Loop /\ reqs' = Tail(reqs) /\ child' = child
    BY <1>2 DEF monitor_read
  <2>3. Settled(mon) = mon
    BY <2>2 DEF Settled, Loop, Decide
  <2>4. Served(child, Settled(n), Tail(reqs), answers \o Answer(n, q))
    BY <1>0, <2>1, <2>2, <2>3, ReadServed
  <2>5. PICK rp, ap : rp = Tail(reqs) /\ ap = answers \o Answer(n, q)
    OBVIOUS
  <2>6. Served(c, Settled(n), rp, ap) /\ child' = c /\ reqs' = rp /\ answers' = ap
    BY <1>1, <2>1, <2>2, <2>4, <2>5
  <2> QED BY <2>1, <2>6, ServedStep
<1>3. CASE monitor_child_preauth
  <2>1. /\ mon.phase = Decide /\ mon.err = "none" /\ mon' = Judged(mon)
        /\ UNCHANGED <<child, reqs, answers>>
    BY <1>3 DEF monitor_child_preauth
  <2>2. Settled(mon) = Judged(mon)
    BY <2>1 DEF Settled
  <2>3. PICK n : n = Judged(mon)
    OBVIOUS
  <2>4. Settled(n) = n
    BY <1>0, <2>1, <2>3, JudgedFields DEF Settled, Loop, Decide
  <2>5. Served(c, Settled(n), rq, an)
    BY <1>1, <2>2, <2>3, <2>4
  <2> QED BY <1>1, <2>1, <2>3, <2>5, ServedStep
<1>4. CASE mm_get_keystate
  <2>1. /\ mon.phase = "granted" /\ mon.err = "none" /\ reqs # <<>> /\ reqs' = Tail(reqs)
        /\ UNCHANGED <<child, answers>>
    BY <1>4 DEF mm_get_keystate
  <2>2. Settled(mon) = mon
    BY <2>1 DEF Settled, Decide
  <2>3. child.pc = "exported" /\ reqs = <<Req("KEYEXPORT", NoRequest)>>
    <3>1. mon.phase # Loop
      BY <2>1 DEF Loop
    <3> QED
      BY <1>0, <2>1, <2>2, <3>1
      DEF Served, AtKex, AtSigned, AtIdle, AtPwnam, AtBanner, AtPasswd, AtAllowed, AtVerify,
          AtExported, Told, Trying, TryingKey, InStep, Agree, NoAccount, Account, NothingTried,
          ChildState
  <2>4. Head(reqs).type = "KEYEXPORT" /\ Tail(reqs) = <<>>
    BY <2>3, ReqFields
  <2>5. PICK n : n = [mon EXCEPT !.phase = "session"]
    OBVIOUS
  <2>6. mon' = n
    BY <1>4, <2>4, <2>5 DEF mm_get_keystate
  <2>7. n.phase = "session" /\ n.err = "none"
    BY <1>0, <2>1, <2>5 DEF MonitorState
  <2>8. Settled(n) = n
    BY <2>7 DEF Settled, Decide
  <2>9. Served(c, Settled(n), <<>>, an)
    BY <1>1, <2>3, <2>7, <2>8 DEF Served, AtExported
  <2>10. reqs' = <<>>
    BY <2>1, <2>4
  <2> QED BY <1>1, <2>1, <2>6, <2>9, <2>10, ServedStep
<1> QED BY <1>2, <1>3, <1>4 DEF Monitor

\* The child's steps, up to the first method tried.
LEMMA ChildStart ==
    ASSUME TypeOK, conf' = conf, Served(child, Settled(mon), reqs, answers),
           do_ssh2_kex \/ Signed \/ Pwnam \/ mm_send_keystate
    PROVE  HonestInv'
<1>0. child \in ChildState /\ mon' = mon
  BY DEF TypeOK, do_ssh2_kex, Signed, Pwnam, mm_send_keystate, Ask
<1>1. PICK m, rq, an : m = mon /\ rq = reqs /\ an = answers
  OBVIOUS
<1> DEFINE j == Settled(m)
<1>2. CASE do_ssh2_kex
  <2>1. PICK c : c = [child EXCEPT !.pc = "signed"]
    OBVIOUS
  <2>2. child.pc = "kex" /\ child' = c /\ reqs' = reqs \o <<Req("SIGN", NoRequest)>>
        /\ answers' = answers
    BY <1>2, <2>1 DEF do_ssh2_kex, Ask
  <2>3. AtKex(child, j, rq, an)
    BY <1>1, <2>2 DEF Served
  <2> HIDE DEF j
  <2>4. c.pc = "signed" /\ AtSigned(c, j, <<Req("SIGN", NoRequest)>>, an)
    BY <1>0, <2>1, <2>3 DEF AtKex, AtSigned, NoAccount, NothingTried, ChildState
  <2>5. reqs' = <<Req("SIGN", NoRequest)>>
    BY <1>1, <2>2, <2>3 DEF AtKex
  <2>6. Served(c, j, <<Req("SIGN", NoRequest)>>, an)
    BY <2>4 DEF Served
  <2>7. PICK rp : rp = <<Req("SIGN", NoRequest)>>
    OBVIOUS
  <2> QED BY <1>0, <1>1, <2>2, <2>5, <2>6, <2>7, ServedStep DEF j
<1>3. CASE Signed
  <2>1. PICK c : c = [child EXCEPT !.pc = "idle"]
    OBVIOUS
  <2>2. child.pc = "signed" /\ child' = c /\ reqs' = reqs \o <<>>
        /\ answers' = Tail(answers) /\ answers # <<>>
    BY <1>3, <2>1 DEF Signed, Ask, Answered
  <2>3. AtSigned(child, j, rq, an)
    BY <1>1, <2>2 DEF Served
  <2> HIDE DEF j
  <2>4. /\ NoAccount(child, j) /\ child.attempt = 0 /\ "PWNAM" \in j.permit
        /\ rq = <<>> /\ an = <<TRUE>>
    BY <1>1, <2>2, <2>3 DEF AtSigned
  <2>5. reqs' = <<>> /\ answers' = <<>>
    BY <1>1, <2>2, <2>4
  <2>6. c.pc = "idle" /\ AtIdle(c, j, <<>>, <<>>)
    BY <1>0, <2>1, <2>4 DEF AtIdle, NoAccount, NothingTried, ChildState
  <2>7. Served(c, j, <<>>, <<>>)
    BY <2>6 DEF Served
  <2> QED BY <1>0, <1>1, <2>2, <2>5, <2>7, ServedStep DEF j
<1>4. CASE Pwnam
  <2> DEFINE v == Head(answers) /\ child.r.service
  <2>1. PICK c : c = [child EXCEPT !.pc = "banner", !.valid = v]
    OBVIOUS
  <2>2. child.pc = "pwnam" /\ child' = c /\ answers' = Tail(answers) /\ answers # <<>>
        /\ reqs' = reqs \o <<Req("AUTHSERV", child.r), Req("READ_BANNER", child.r)>>
    BY <1>4, <2>1 DEF Pwnam, Ask, Answered
  <2>3. AtPwnam(child, j, rq, an)
    BY <1>1, <2>2 DEF Served
  <2> HIDE DEF j
  <2>4. /\ child.attempt = 1 /\ child.r \in UserauthRequest
        /\ Told(rq, an, j.valid) /\ Account(child, j)
        /\ {"AUTHSERV", "READ_BANNER"} \subseteq j.permit
    BY <1>1, <2>2, <2>3 DEF AtPwnam, Asked
  <2>5. rq = <<>> /\ an = <<j.valid>>
    BY <2>4 DEF Told
  <2>6. answers' = <<>> /\ Head(answers) = j.valid
    BY <1>1, <2>2, <2>5
  <2>7. v => j.valid
    BY <2>6, Zenon
  <2> HIDE DEF v
  <2>8. /\ c.pc = "banner" /\ c.r = child.r /\ c.valid = v
        /\ c.user = child.user /\ c.attempt = child.attempt /\ c.prev_keys = child.prev_keys
        /\ c.none_enabled = child.none_enabled /\ c.failures = child.failures
        /\ c.lists = child.lists /\ c.log = child.log
    BY <1>0, <2>1 DEF ChildState, SameChild
  <2>9. Account(c, j)
    BY <2>4, <2>8 DEF Account, NothingTried
  <2> DEFINE rp == <<Req("AUTHSERV", c.r), Req("READ_BANNER", c.r)>>
  <2>10. reqs' = rp
    BY <1>1, <2>2, <2>5, <2>8
  <2>11. AtBanner(c, j, rp, <<>>)
    BY <2>4, <2>7, <2>8, <2>9 DEF AtBanner
  <2>12. Served(c, j, rp, <<>>)
    BY <2>8, <2>11 DEF Served
  <2> QED BY <1>0, <1>1, <2>2, <2>6, <2>10, <2>12, ServedStep DEF j
<1>5. CASE mm_send_keystate
  <2>1. PICK c : c = [child EXCEPT !.pc = "exported"]
    OBVIOUS
  <2>2. child.pc = "success" /\ child' = c /\ reqs' = reqs \o <<Req("KEYEXPORT", NoRequest)>>
        /\ answers' = answers
    BY <1>5, <2>1 DEF mm_send_keystate, Ask
  <2>3. rq = <<>> /\ an = <<>> /\ j.err = "none" /\ j.phase = "granted"
    BY <1>1, <2>2 DEF Served
  <2> HIDE DEF j
  <2>4. PICK rp : rp = <<Req("KEYEXPORT", NoRequest)>>
    OBVIOUS
  <2>5. reqs' = rp
    BY <1>1, <2>2, <2>3, <2>4
  <2>6. c.pc = "exported" /\ AtExported(j, rp)
    BY <1>0, <2>1, <2>3, <2>4 DEF AtExported, ChildState
  <2>7. Served(c, j, rp, an)
    BY <2>6 DEF Served
  <2> QED BY <1>0, <1>1, <2>2, <2>5, <2>7, ServedStep DEF j
<1> QED BY <1>2, <1>3, <1>4, <1>5

\* A step that leaves nothing for the monitor to do, or tries a method.
LEMMA TryStep ==
    ASSUME TypeOK, conf' = conf, MaxAuthTries \in Nat, NEW c \in ChildState,
           InStep(c, Settled(mon)), Undisputed(c), c.r \in UserauthRequest, reqs = <<>>,
           answers' = <<>>, Try(c)
    PROVE  HonestInv'
<1>1. Settled(mon) \in MonitorState
  BY JudgedType DEF TypeOK, Settled
<1>2. Served(child', Settled(mon), reqs', <<>>)
  BY <1>1, TryServed
<1>3. mon' = mon
  BY DEF Try, Ask
<1>4. PICK n, m, rq : n = child' /\ m = mon /\ rq = reqs'
  OBVIOUS
<1>5. Served(n, Settled(m), rq, <<>>) /\ child' = n /\ mon' = m /\ reqs' = rq
  BY <1>2, <1>3, <1>4
<1> QED BY <1>5, ServedStep

LEMMA AskNothing ==
    ASSUME conf' = conf, NEW c, Served(c, Settled(mon), <<>>, <<>>), Ask(c, <<>>),
           reqs = <<>>, answers' = <<>>
    PROVE  HonestInv'
<1>1. PICK m : m = mon
  OBVIOUS
<1>2. child' = c /\ mon' = m /\ reqs' = <<>>
  BY <1>1 DEF Ask
<1> QED BY <1>1, <1>2, ServedStep

LEMMA BannerHonest ==
    ASSUME TypeOK, conf' = conf, Undisputed(child), MaxAuthTries \in Nat,
           Served(child, Settled(mon), reqs, answers), Banner
    PROVE  HonestInv'
<1> DEFINE j == Settled(mon)
           L == auth2_setup_methods_lists
<1>0. child \in ChildState
  BY DEF TypeOK
<1>1. child.pc = "banner" /\ answers # <<>> /\ answers' = Tail(answers)
  BY DEF Banner, Answered
<1>2. AtBanner(child, j, reqs, answers)
  BY <1>1 DEF Served
<1> HIDE DEF j
<1>3. /\ Account(child, j) /\ (child.valid => j.valid) /\ child.r \in UserauthRequest
      /\ reqs = <<>> /\ answers = <<TRUE>> /\ MON_ISAUTH \subseteq j.permit
  BY <1>1, <1>2 DEF AtBanner
<1>4. answers' = <<>>
  BY <1>1, <1>3
<1>5. CASE Ask([child EXCEPT !.pc = "disconnected"], <<>>)
  <2>1. PICK c : c = [child EXCEPT !.pc = "disconnected"]
    OBVIOUS
  <2>2. c.pc = "disconnected"
    BY <1>0, <2>1 DEF ChildState
  <2>3. Served(c, j, <<>>, <<>>)
    BY <1>3, <2>2 DEF Served, Account, NothingTried
  <2> QED BY <1>3, <1>4, <1>5, <2>1, <2>3, AskNothing DEF j
<1>6. CASE Try([child EXCEPT !.lists = L])
  <2>1. PICK c : c = [child EXCEPT !.lists = L]
    OBVIOUS
  <2>2. L \in MethodLists
    BY ListsType DEF TypeOK
  <2>3. j.lists = L /\ j.user = child.user /\ child.attempt = 1 /\ NothingTried(child, j)
    BY <1>3 DEF Account
  <2> HIDE DEF L
  <2>4. /\ c \in ChildState /\ c.r = child.r /\ c.valid = child.valid /\ c.user = child.user
        /\ c.attempt = child.attempt /\ c.prev_keys = child.prev_keys
        /\ c.none_enabled = child.none_enabled /\ c.failures = child.failures
        /\ c.lists = L /\ c.log = child.log
    BY <1>0, <2>1, <2>2 DEF ChildState
  <2>5. Slack(c) = 0
    BY <2>3, <2>4 DEF Slack, NothingTried
  <2>6. InStep(c, j)
    BY <1>3, <2>3, <2>4, <2>5 DEF InStep, Agree, NothingTried
  <2>7. Undisputed(c)
    BY <2>4 DEF Undisputed
  <2> QED BY <1>3, <1>4, <1>6, <2>1, <2>4, <2>6, <2>7, TryStep DEF j
<1> QED BY <1>5, <1>6 DEF Banner

LEMMA RequestHonest ==
    ASSUME TypeOK, conf' = conf, Undisputed(child), MaxAuthTries \in Nat,
           Served(child, Settled(mon), reqs, answers), input_userauth_request
    PROVE  HonestInv'
<1> DEFINE j == Settled(mon)
<1>0. child \in ChildState
  BY DEF TypeOK
<1>1. child.pc = "idle" /\ answers' = answers
  BY DEF input_userauth_request
<1>2. AtIdle(child, j, reqs, answers)
  BY <1>1 DEF Served
<1> HIDE DEF j
<1>3. reqs = <<>> /\ answers = <<>> /\ answers' = <<>>
  BY <1>1, <1>2 DEF AtIdle
<1>4. PICK r \in UserauthRequest :
        LET c == [child EXCEPT !.r = r, !.attempt = @ + 1]
        IN  \/ /\ child.attempt = 0
               /\ Ask([c EXCEPT !.pc = "pwnam", !.user = r.user, !.service = r.service],
                      <<Req("PWNAM", r)>>)
            \/ child.attempt # 0 /\ Ask([child EXCEPT !.pc = "disconnected"], <<>>)
            \/ child.attempt # 0 /\ Try(c)
  <2>1. /\ child.attempt \in Nat /\ AttemptLimit \in Nat \ {0}
        /\ child.attempt >= AttemptLimit => child.attempt # 0
    BY <1>0, PrivsepAssumption DEF ChildState
  <2>2. child.attempt \in 1 .. AttemptLimit - 1 => child.attempt # 0
    OBVIOUS
  <2> QED BY <2>1, <2>2, Zenon DEF input_userauth_request
<1> DEFINE a == child.attempt + 1
           c == [child EXCEPT !.r = r, !.attempt = a]
<1>5. c = [child EXCEPT !.r = r, !.attempt = @ + 1] /\ a \in Nat /\ child.attempt \in Nat
  BY <1>0 DEF ChildState
<1>6. r \in ClientRequest /\ r.user \in UserNames /\ r.service \in BOOLEAN
  BY DEF UserauthRequest, ClientRequest, UserNames, Keys, Methods
<1> HIDE DEF a
<1>7. /\ c \in ChildState /\ c.r = r /\ c.valid = child.valid /\ c.user = child.user
      /\ c.attempt = a /\ c.prev_keys = child.prev_keys
      /\ c.none_enabled = child.none_enabled /\ c.failures = child.failures
      /\ c.lists = child.lists /\ c.log = child.log
  BY <1>0, <1>5, <1>6 DEF ChildState
<1> HIDE DEF c
<1>8. CASE child.attempt = 0
           /\ Ask([c EXCEPT !.pc = "pwnam", !.user = r.user, !.service = r.service],
                  <<Req("PWNAM", r)>>)
  <2>1. PICK d : d = [c EXCEPT !.pc = "pwnam", !.user = r.user, !.service = r.service]
    OBVIOUS
  <2>2. /\ d.pc = "pwnam" /\ d.r = r /\ d.user = r.user
        /\ d.attempt = c.attempt /\ d.prev_keys = c.prev_keys
        /\ d.none_enabled = c.none_enabled /\ d.failures = c.failures
        /\ d.lists = c.lists /\ d.log = c.log
    BY <1>6, <1>7, <2>1 DEF ChildState
  <2>3. PICK rp, m : rp = <<Req("PWNAM", r)>> /\ m = mon
    OBVIOUS
  <2>4. child' = d /\ reqs' = rp /\ mon' = m
    BY <1>3, <1>8, <2>1, <2>3 DEF Ask
  <2>5. NoAccount(child, j) /\ "PWNAM" \in j.permit
    BY <1>2, <1>8 DEF AtIdle
  <2>6. NoAccount(d, j) /\ d.attempt = 1
    BY <1>5, <1>7, <1>8, <2>2, <2>5 DEF NoAccount, NothingTried, a
  <2>7. AtPwnam(d, j, rp, <<>>)
    BY <2>2, <2>3, <2>5, <2>6 DEF AtPwnam, Asked
  <2>8. Served(d, j, rp, <<>>)
    BY <2>2, <2>7 DEF Served
  <2> QED BY <1>3, <2>3, <2>4, <2>8, ServedStep DEF j
<1>9. ASSUME child.attempt # 0
      PROVE  InStep(child, j)
  BY <1>2, <1>9 DEF AtIdle
<1>10. CASE child.attempt # 0 /\ Ask([child EXCEPT !.pc = "disconnected"], <<>>)
  <2>1. PICK d : d = [child EXCEPT !.pc = "disconnected"]
    OBVIOUS
  <2>2. d.pc = "disconnected"
    BY <1>0, <2>1 DEF ChildState
  <2>3. Served(d, j, <<>>, <<>>)
    BY <1>9, <1>10, <2>2 DEF Served, InStep, Agree
  <2> QED BY <1>3, <1>10, <2>1, <2>3, AskNothing DEF j
<1>11. CASE child.attempt # 0 /\ Try(c)
  <2>1. Slack(c) = Slack(child)
    BY <1>7 DEF Slack
  <2>2. InStep(c, j)
    BY <1>5, <1>7, <1>9, <1>11, <2>1 DEF InStep, Agree, a
  <2>3. Undisputed(c)
    BY <1>7 DEF Undisputed
  <2> QED BY <1>3, <1>7, <1>11, <2>2, <2>3, TryStep DEF j
<1> QED BY <1>4, <1>5, <1>8, <1>10, <1>11 DEF c

LEMMA AnswerHonest ==
    ASSUME TypeOK, conf' = conf, MaxAuthTries \in Nat,
           Served(child, Settled(mon), reqs, answers),
           userauth_passwd \/ userauth_pubkey \/ Verify
    PROVE  HonestInv'
<1> DEFINE j == Settled(mon)
<1>0. child \in ChildState /\ j \in MonitorState
  BY JudgedType DEF TypeOK, Settled
<1>1. answers # <<>> /\ answers' = Tail(answers)
  BY DEF userauth_passwd, userauth_pubkey, Verify, Answered
<1>2. ASSUME NEW b, Told(reqs, answers, b)
      PROVE  b \in BOOLEAN /\ Head(answers) = b /\ reqs = <<>> /\ answers' = <<>>
  BY <1>1, <1>2 DEF Told
<1>3. CASE userauth_passwd
  <2>1. child.pc = "passwd"
    BY <1>3 DEF userauth_passwd, Answered
  <2>2. AtPasswd(child, j, reqs, answers)
    BY <2>1 DEF Served
  <2> HIDE DEF j
  <2>3. PICK b \in BOOLEAN : Told(reqs, answers, b) /\ Outcome(child, j, b)
    BY <1>1, <2>2 DEF AtPasswd, Asked
  <2>4. child.prev_keys = KeysAfter(child, b)
    BY <2>2 DEF AtPasswd, KeysAfter
  <2>5. Served(userauth_finish(child, b), j, <<>>, <<>>)
    BY <1>0, <2>3, <2>4, FinishServed
  <2>6. Ask(userauth_finish(child, b), <<>>)
    BY <1>2, <1>3, <2>3 DEF userauth_passwd
  <2>7. PICK d : d = userauth_finish(child, b)
    OBVIOUS
  <2> QED BY <1>2, <2>3, <2>5, <2>6, <2>7, AskNothing DEF j
<1>4. CASE Verify
  <2>1. child.pc = "verify"
    BY <1>4 DEF Verify, Answered
  <2>2. AtVerify(child, j, reqs, answers)
    BY <2>1 DEF Served
  <2> HIDE DEF j
  <2>3. PICK b \in BOOLEAN : Told(reqs, answers, b) /\ Outcome(child, j, b)
    BY <1>1, <2>2 DEF AtVerify, Asked
  <2> DEFINE k == child.prev_keys \cup {child.r.key}
             e == IF b THEN [child EXCEPT !.prev_keys = k] ELSE child
  <2>4. k \in SUBSET Keys
    BY <1>0, ChildFields
  <2>5. KeysAfter(child, b) = IF b THEN k ELSE child.prev_keys
    BY <2>2 DEF AtVerify, KeysAfter
  <2>6. Ask(userauth_finish(e, b), <<>>)
    BY <1>2, <1>4, <2>3 DEF Verify
  <2> HIDE DEF k
  <2>7. /\ e \in ChildState
        /\ e.user = child.user /\ e.valid = child.valid /\ e.attempt = child.attempt
        /\ e.none_enabled = child.none_enabled /\ e.lists = child.lists /\ e.log = child.log
        /\ e.r = child.r /\ e.failures = child.failures
        /\ e.prev_keys = IF b THEN k ELSE child.prev_keys
    BY <1>0, <2>4 DEF ChildState
  <2> HIDE DEF e
  <2>8. Served(userauth_finish(e, b), j, <<>>, <<>>)
    BY <1>0, <2>3, <2>5, <2>7, FinishServed
  <2>9. PICK d : d = userauth_finish(e, b)
    OBVIOUS
  <2> QED BY <1>2, <2>3, <2>6, <2>8, <2>9, AskNothing DEF j
<1>5. CASE userauth_pubkey
  <2>1. child.pc = "allowed"
    BY <1>5 DEF userauth_pubkey, Answered
  <2>2. AtAllowed(child, j, reqs, answers)
    BY <2>1 DEF Served
  <2> HIDE DEF j
  <2>3. PICK b \in BOOLEAN : Told(reqs, answers, b) /\ (b => j.key_blob = child.r.key)
    BY <1>1, <2>2 DEF AtAllowed, Asked
  <2>4. TryingKey(child, j)
    BY <2>2 DEF AtAllowed
  <2>5. Head(answers) = b /\ reqs = <<>> /\ answers' = <<>>
    BY <1>2, <2>3
  <2>6. InStep(child, j)
    BY <2>4 DEF TryingKey, Trying
  <2>7. CASE b /\ child.r.sig
    <3>1. PICK c, rp, m : /\ c = [child EXCEPT !.pc = "verify"]
                          /\ rp = <<Req("KEYVERIFY", child.r)>> /\ m = mon
      OBVIOUS
    <3>2. Ask(c, rp)
      BY <1>5, <2>5, <2>7, <3>1 DEF userauth_pubkey
    <3>3. child' = c /\ reqs' = rp /\ mon' = m
      BY <2>5, <3>1, <3>2 DEF Ask
    <3>4. /\ c.pc = "verify" /\ SameChild(c, child) /\ c.lists = child.lists
          /\ c.log = child.log /\ c.failures = child.failures /\ c.r = child.r
      BY <1>0, <3>1 DEF ChildState, SameChild
    <3>5. Slack(c) = Slack(child)
      BY <3>4 DEF Slack, SameChild
    <3>6. InStep(c, j) /\ Ready(c)
      BY <2>4, <2>6, <3>4, <3>5 DEF InStep, Agree, Ready, SameChild, TryingKey, Trying
    <3>7. TryingKey(c, j)
      BY <2>4, <3>4, <3>6 DEF TryingKey, Trying, SameChild, EmptyCall
    <3>8. AtVerify(c, j, rp, <<>>)
      BY <2>3, <2>7, <3>1, <3>4, <3>7 DEF AtVerify, Asked, TryingKey
    <3>9. Served(c, j, rp, <<>>)
      BY <3>4, <3>8 DEF Served
    <3> QED BY <2>5, <3>1, <3>3, <3>9, ServedStep DEF j
  <2>8. CASE b /\ ~child.r.sig
    <3>1. PICK c : c = [child EXCEPT !.pc = "idle", !.reply = "PK_OK", !.r = NoRequest]
      OBVIOUS
    <3>2. Ask(c, <<>>)
      BY <1>5, <2>5, <2>8, <3>1 DEF userauth_pubkey
    <3>3. /\ c.pc = "idle" /\ SameChild(c, child) /\ c.lists = child.lists
          /\ c.log = child.log /\ c.failures = child.failures
      BY <1>0, <3>1 DEF ChildState, SameChild
    <3>4. Slack(c) = Slack(child)
      BY <3>3 DEF Slack, SameChild
    <3>5. InStep(c, j) /\ c.attempt > 0
      BY <2>6, <3>3, <3>4 DEF InStep, Agree, SameChild
    <3>6. Served(c, j, <<>>, <<>>)
      BY <3>3, <3>5 DEF Served, AtIdle
    <3> QED BY <2>5, <3>2, <3>6, AskNothing DEF j
  <2>9. CASE ~b
    <3>1. PICK c : c = userauth_finish(child, FALSE)
      OBVIOUS
    <3>2. Ask(c, <<>>)
      BY <1>5, <2>5, <2>9, <3>1 DEF userauth_pubkey
    <3>3. Served(c, j, <<>>, <<>>)
      BY <1>0, <2>6, <3>1, FailServed
    <3> QED BY <2>5, <3>2, <3>3, AskNothing DEF j
  <2> QED BY <2>3, <2>7, <2>8, <2>9
<1> QED BY <1>3, <1>4, <1>5

LEMMA NextHonest ==
    ASSUME TypeOK, NullUser, HonestInv, [Next]_vars
    PROVE  HonestInv'
<1>1. conf' = conf /\ honest' = honest
  BY ConfStays
<1>2. SUFFICES ASSUME honest', ~Disputed' PROVE HonestInv'
  BY DEF HonestInv
<1>3. honest /\ Undisputed(child) /\ Served(child, Settled(mon), reqs, answers)
  BY <1>1, <1>2, DisputeStays DEF HonestInv
<1>4. MaxAuthTries \in Nat
  BY PrivsepAssumption
<1>5. CASE UNCHANGED vars
  <2>1. PICK c, m, rq, an : c = child /\ m = mon /\ rq = reqs /\ an = answers
    OBVIOUS
  <2>2. child' = c /\ mon' = m /\ reqs' = rq /\ answers' = an
    BY <1>5, <2>1 DEF vars
  <2> QED BY <1>1, <1>3, <2>1, <2>2, ServedStep
<1>6. ~AnyRequest
  BY <1>3 DEF AnyRequest
<1>7. CASE Monitor
  BY <1>1, <1>3, <1>4, <1>7, MonitorHonest
<1>8. CASE do_ssh2_kex \/ Signed \/ Pwnam \/ mm_send_keystate
  BY <1>1, <1>3, <1>8, ChildStart
<1>9. CASE Banner
  BY <1>1, <1>3, <1>4, <1>9, BannerHonest
<1>10. CASE userauth_passwd \/ userauth_pubkey \/ Verify
  BY <1>1, <1>3, <1>4, <1>10, AnswerHonest
<1>11. CASE input_userauth_request
  BY <1>1, <1>3, <1>4, <1>11, RequestHonest
<1> QED BY <1>5, <1>6, <1>7, <1>8, <1>9, <1>10, <1>11 DEF Next, Child

LEMMA InitHonest == Init => NullUser /\ HonestInv
<1> SUFFICES ASSUME Init PROVE NullUser /\ HonestInv
  OBVIOUS
<1>1. /\ child.pc = "kex" /\ child.user = "NULL" /\ child.attempt = 0 /\ child.failures = 0
      /\ child.lists = <<>> /\ child.log = <<>> /\ child.prev_keys = {} /\ child.none_enabled
  BY DEF Init, ChildInit
<1>2. /\ mon.phase = Loop /\ mon.err = "none" /\ "SIGN" \in mon.permit /\ mon.attempt = 0
      /\ mon.failures = 0 /\ mon.log = <<>> /\ mon.prev_keys = {}
  BY DEF Init, MonitorInit
<1>3. Settled(mon) = mon
  BY <1>2 DEF Settled, Loop, Decide
<1>4. AtKex(child, mon, reqs, answers)
  BY <1>1, <1>2 DEF AtKex, NoAccount, NothingTried, Init
<1> QED BY <1>1, <1>3, <1>4 DEF NullUser, HonestInv, Served

LEMMA HonestAlways == Spec => [](TypeOK /\ NullUser /\ HonestInv)
<1>1. TypeOK /\ NullUser /\ HonestInv /\ [Next]_vars => NullUser' /\ HonestInv'
  BY UserSetOnce, NextHonest
<1> QED BY <1>1, TypeCorrect, InitHonest, PTL DEF Spec

\* A child that follows auth2.c is never refused by the monitor where the two
\* are not Disputed (lists, with empty passwords permitted or with root under
\* PermitRootLogin no): none of its requests is unpermitted in mon_dispatch, out
\* of order, or names a method that is in no list.  Only the count of failures
\* can end its session, with empty passwords permitted and after a "none", at
\* the failure that uses up the child's own count.
THEOREM HonestChildIsServed == Spec => []HonestChildServed
<1>1. ASSUME TypeOK, HonestInv PROVE HonestChildServed
  <2> SUFFICES ASSUME honest, ~Disputed, mon.err # "none"
               PROVE  /\ mon.err = "tries" /\ conf.empty /\ ~child.none_enabled
                      /\ \/ child.pc = "disconnected"
                         \/ /\ child.pc \in {"passwd", "verify"}
                            /\ child.failures + 1 >= MaxAuthTries
    BY DEF HonestChildServed
  <2>1. Settled(mon) = mon
    BY DEF Settled
  <2>2. Served(child, mon, reqs, answers) /\ child \in ChildState
    BY <1>1, <2>1 DEF HonestInv, TypeOK
  <2>3. ASSUME NEW b, Outcome(child, mon, b)
        PROVE  mon.err = "tries" /\ Slack(child) = 1 /\ child.failures + 1 >= MaxAuthTries
    BY <2>3 DEF Outcome, Agree
  <2>6. Slack(child) = 1 => conf.empty /\ ~child.none_enabled
    BY DEF Slack
  <2>4. CASE child.pc \in {"passwd", "verify"}
    BY <2>2, <2>3, <2>4, <2>6
    DEF Served, AtPasswd, AtVerify, TryingKey, Trying, InStep, Agree
  <2>5. CASE child.pc \notin {"passwd", "verify"}
    BY <2>2, <2>5, <2>6
    DEF Served, AtKex, AtSigned, AtIdle, AtPwnam, AtBanner, AtAllowed, AtExported,
        TryingKey, Trying, InStep, Agree, NoAccount, Account, NothingTried, ChildState
  <2> QED BY <2>4, <2>5
<1> QED BY <1>1, HonestAlways, PTL

\* Between two requests of the client the child's Authctxt and the monitor's
\* agree on the lists, the methods that have succeeded, the keys used and the
\* user, and the monitor counts at most one failure more.
THEOREM ProcessesStayInStep == Spec => []ProcessesAgree
<1>1. ASSUME TypeOK, HonestInv PROVE ProcessesAgree
  <2> SUFFICES ASSUME honest, ~Disputed, child.pc = "idle", child.attempt > 0,
                      mon.phase = Loop
               PROVE  /\ child.lists = mon.lists /\ child.log = mon.log
                      /\ child.prev_keys = mon.prev_keys /\ child.user = mon.user
                      /\ mon.failures <= child.failures + 1
    BY DEF ProcessesAgree
  <2>1. Settled(mon) = mon
    BY DEF Settled, Loop, Decide
  <2>2. AtIdle(child, mon, reqs, answers)
    BY <1>1, <2>1 DEF HonestInv, Served
  <2>3. InStep(child, mon)
    BY <2>2 DEF AtIdle
  <2>4. child.failures \in Nat /\ mon.failures \in Nat /\ Slack(child) \in {0, 1}
    BY <1>1 DEF TypeOK, ChildState, MonitorState, Slack
  <2> QED BY <2>3, <2>4 DEF InStep, Agree
<1> QED BY <1>1, HonestAlways, PTL
=============================================================================
