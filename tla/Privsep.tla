------------------------------- MODULE Privsep -------------------------------
(***************************************************************************)
(* User authentication in OpenSSH's sshd, which two processes share: the   *)
(* unprivileged child (auth2.c, auth2-none.c, auth2-passwd.c,              *)
(* auth2-pubkey.c, monitor_wrap.c) speaks to the client and asks the       *)
(* privileged monitor (monitor.c) for every check; both decide on their    *)
(* own whether the user is authenticated.                                  *)
(*                                                                         *)
(* A run starts with any configuration of Configs.  The client is free in  *)
(* what it asks.  The child follows its code, or, when honest is FALSE, is *)
(* a process that sends the monitor any requests in any order, which is    *)
(* what the monitor is there to withstand.                                 *)
(*                                                                         *)
(* Of the methods, none, password and publickey are carried out; the       *)
(* others appear in lists only.  Left out with them are the host keys of   *)
(* mm_answer_keyallowed (hostbased) and server_caused_failure (GSSAPI),    *)
(* and PermitRootLogin forced-commands-only, which depends on the options  *)
(* of a key.                                                               *)
(***************************************************************************)
EXTENDS Naturals, Sequences, FiniteSets

CONSTANTS
    Configs,        \* server configurations: lists, root, empty, enabled
    Users,          \* user names, "root" one of them
    Accounts,       \* the users getpwnamallow finds and permits
    PubKeys,        \* the public keys the users' authorized_keys hold
    Offered,        \* the public keys clients offer, others among them
    MaxAuthTries,   \* MaxAuthTries of sshd_config
    AttemptLimit,   \* requests the child listens to: 1024
    MaxRequests,    \* requests the client makes
    NoKey

\* The authmethods table of auth2.c.
Methods == {"none", "publickey", "gssapi-with-mic", "password",
            "keyboard-interactive", "hostbased"}

\* AuthenticationMethods, PermitRootLogin, PermitEmptyPasswords, and which
\* methods are enabled.
Config == [lists : Seq(Seq(Methods)),
           root : {"yes", "no", "prohibit-password"},
           empty : BOOLEAN, enabled : SUBSET Methods]

ASSUME PrivsepAssumption ==
    /\ Accounts \subseteq Users
    /\ PubKeys \subseteq Offered /\ NoKey \notin Offered
    /\ \A c \in Configs : c \in Config
    /\ MaxAuthTries \in Nat \ {0} /\ AttemptLimit \in Nat \ {0}
    /\ MaxRequests \in Nat

VARIABLES
    conf,       \* the configuration
    honest,     \* the child runs sshd's own code
    child,      \* the child: its Authctxt and where it is
    mon,        \* the monitor: its Authctxt, its dispatch table
    reqs,       \* requests the child has sent to the monitor
    answers,    \* the monitor's answers
    requests    \* requests the client may still make

vars == <<conf, honest, child, mon, reqs, answers, requests>>

NoRequest == [user |-> "NULL", method |-> "NULL", key |-> NoKey, good |-> FALSE,
              empty |-> FALSE, sig |-> FALSE, service |-> TRUE]

\* A client's SSH2_MSG_USERAUTH_REQUEST.  good: the password or signature is
\* right (for "none", the user's password is empty); empty: the password is
\* empty; sig: the key comes with a signature; service: it asks for
\* ssh-connection.
UserauthRequest ==
    [user : Users, method : {"none"}, key : {NoKey}, good : BOOLEAN,
     empty : {TRUE}, sig : {FALSE}, service : BOOLEAN]
    \cup [user : Users, method : {"password"}, key : {NoKey}, good : BOOLEAN,
          empty : BOOLEAN, sig : {FALSE}, service : BOOLEAN]
    \cup [user : Users, method : {"publickey"}, key : Offered, good : BOOLEAN,
          empty : {FALSE}, sig : BOOLEAN, service : BOOLEAN]

-----------------------------------------------------------------------------
(* Multiple required authentications, in both processes. *)

Enabled(m) == m = "none" \/ m \in conf.enabled

\* Lists with a disabled method are dropped; the others keep their numbers,
\* and with them their order.
auth2_setup_methods_lists ==
    LET kept == {i \in DOMAIN conf.lists :
                    \A j \in DOMAIN conf.lists[i] : Enabled(conf.lists[i][j])}
    IN  [i \in kept |-> conf.lists[i]]

Configured == conf.lists # <<>>

list_starts_with(l, m) == l # <<>> /\ Head(l) = m

auth2_method_allowed(lists, m) ==
    \/ ~Configured
    \/ \E i \in DOMAIN lists : list_starts_with(lists[i], m)

\* The method leaves the head of every list up to the first it completes.
auth2_update_methods_lists(lists, m) ==
    [i \in DOMAIN lists |->
        IF /\ list_starts_with(lists[i], m)
           /\ \A j \in DOMAIN lists : j < i => lists[j] # <<m>>
        THEN Tail(lists[i]) ELSE lists[i]]

Completes(lists, m) == \E i \in DOMAIN lists : lists[i] = <<m>>
InNoList(lists, m) == \A i \in DOMAIN lists : ~list_starts_with(lists[i], m)

auth_root_allowed(m) ==
    \/ conf.root = "yes"
    \/ /\ conf.root = "prohibit-password"
       /\ m \in {"publickey", "hostbased", "gssapi-with-mic"}

-----------------------------------------------------------------------------
(* The monitor. *)

Loop == "loop"          \* waits in monitor_read
Decide == "decide"      \* has answered, and is to judge the outcome
MON_ISAUTH == {"AUTHPASSWORD", "KEYALLOWED", "KEYVERIFY"}
MON_AUTHDECIDE == {"AUTHPASSWORD", "KEYVERIFY"}
MON_ONCE == {"SIGN", "PWNAM", "AUTHSERV", "READ_BANNER"}

MonitorInit ==
    [phase |-> Loop, err |-> "none", permit |-> {"SIGN"}, attempt |-> 0,
     user |-> "NULL", valid |-> FALSE, lists |-> <<>>, failures |-> 0,
     calls |-> 0, key_blob |-> NoKey, prev_keys |-> {}, type |-> "NULL",
     ret |-> FALSE, auth_method |-> "unknown", log |-> <<>>]

Req(type, r) == [type |-> type, user |-> r.user, key |-> r.key,
                 good |-> r.good, empty |-> r.empty, data |-> TRUE]

\* A plausible slip: the account is permitted with the service only.
SignWithoutPwnam(m) == m

mm_answer_sign(m) == [m EXCEPT !.permit = @ \cup {"PWNAM"}]

mm_answer_pwnamallow(m, q) ==
    IF m.attempt # 0 THEN [m EXCEPT !.err = "getpwnam"]
    ELSE [m EXCEPT !.attempt = 1, !.user = q.user,
                   !.valid = q.user \in Accounts,
                   !.lists = auth2_setup_methods_lists,
                   !.permit = @ \cup {"AUTHSERV", "READ_BANNER"}]

mm_answer_authserv(m) == [m EXCEPT !.permit = @ \cup MON_ISAUTH]

\* auth_password: a valid user, root only with PermitRootLogin yes, and an
\* empty password only when those are permitted.
auth_password(m, q) ==
    /\ m.valid /\ q.good
    /\ m.user = "root" => conf.root = "yes"
    /\ q.empty => conf.empty

\* The first call with an empty password is taken for the method "none".
mm_answer_authpassword(m, q) ==
    IF "password" \notin conf.enabled THEN [m EXCEPT !.err = "disabled"]
    ELSE [m EXCEPT !.calls = @ + 1,
                   !.ret = auth_password(m, q),
                   !.auth_method = IF q.empty /\ m.calls = 0
                                   THEN "none" ELSE "password"]

\* A plausible slip: a key already used counts again.
KeyAllowedAgain(m, q) ==
    m.valid /\ "publickey" \in conf.enabled /\ q.key \in PubKeys

\* user_key_allowed finds the keys of PubKeys in authorized_keys.
KeyAllowed(m, q) ==
    /\ m.valid /\ "publickey" \in conf.enabled
    /\ q.key \in PubKeys \ m.prev_keys

mm_answer_keyallowed(m, q) ==
    [m EXCEPT !.auth_method = IF m.valid THEN "publickey" ELSE @,
              !.key_blob = IF KeyAllowed(m, q) THEN q.key ELSE NoKey]

\* data: what was signed names this session, the user and the key.
mm_answer_keyverify(m, q) ==
    IF m.key_blob = NoKey \/ q.key # m.key_blob
    THEN [m EXCEPT !.err = "notallowed"]
    ELSE IF ~q.data THEN [m EXCEPT !.err = "badblob"]
    ELSE [m EXCEPT !.auth_method = "publickey", !.ret = q.good,
                   !.prev_keys = IF q.good THEN @ \cup {q.key} ELSE @,
                   !.key_blob = NoKey]

\* The handler of the request's type; a request not permitted is fatal.
Handler(m, q) ==
    IF q.type \notin m.permit THEN [m EXCEPT !.err = "unpermitted"]
    ELSE CASE q.type = "SIGN"         -> mm_answer_sign(m)
           [] q.type = "PWNAM"        -> mm_answer_pwnamallow(m, q)
           [] q.type = "AUTHSERV"     -> mm_answer_authserv(m)
           [] q.type = "READ_BANNER"  -> m
           [] q.type = "AUTHPASSWORD" -> mm_answer_authpassword(m, q)
           [] q.type = "KEYALLOWED"   -> mm_answer_keyallowed(m, q)
           [] q.type = "KEYVERIFY"    -> mm_answer_keyverify(m, q)

\* monitor_read: a request that may be used once is disabled after its
\* handler.
Handled(m, q) ==
    LET r == Handler([m EXCEPT !.type = q.type, !.ret = FALSE,
                               !.auth_method = "unknown", !.phase = Decide], q)
    IN  IF q.type \in MON_ONCE THEN [r EXCEPT !.permit = @ \ {q.type}] ELSE r

\* What the handler sends back; AUTHSERV has no answer.
Answer(m, q) ==
    IF m.err # "none" \/ q.type = "AUTHSERV" THEN <<>>
    ELSE <<CASE q.type = "PWNAM"          -> m.valid
             [] q.type = "KEYALLOWED"     -> m.key_blob # NoKey
             [] q.type \in MON_AUTHDECIDE -> m.ret
             [] OTHER                     -> TRUE>>

monitor_read ==
    /\ mon.phase = Loop /\ mon.err = "none"
    /\ reqs # <<>>
    /\ \E q \in {Head(reqs)} : \E m \in {Handled(mon, q)} :
         /\ mon' = m
         /\ answers' = answers \o Answer(m, q)
    /\ reqs' = Tail(reqs)
    /\ UNCHANGED <<conf, honest, child, requests>>

\* The rest of monitor_child_preauth's loop, after the answer has gone out:
\* the lists are updated, more is required, the user is authenticated.
Updated(m) == Configured /\ m.ret
Partial(m) == Updated(m) /\ ~Completes(m.lists, m.auth_method)
Authenticated(m) ==
    /\ m.ret /\ ~Partial(m)
    /\ m.user = "root" => auth_root_allowed(m.auth_method)

Judged(m) ==
    LET failed == m.type \in MON_AUTHDECIDE /\ ~Partial(m) /\ ~Authenticated(m)
        p == [m EXCEPT
                !.lists = IF Updated(m)
                          THEN auth2_update_methods_lists(@, m.auth_method)
                          ELSE @,
                !.failures = IF failed THEN @ + 1 ELSE @,
                !.log = IF Authenticated(m) \/ Partial(m)
                        THEN Append(@, m.auth_method) ELSE @]
    IN  IF Updated(m) /\ InNoList(m.lists, m.auth_method)
        THEN [m EXCEPT !.err = "nolist"]
        ELSE IF Authenticated(m) /\ m.type \notin MON_AUTHDECIDE
        THEN [p EXCEPT !.err = "decide"]
        ELSE IF p.failures > MaxAuthTries THEN [p EXCEPT !.err = "tries"]
        ELSE IF Authenticated(m) /\ ~m.valid THEN [p EXCEPT !.err = "invalid"]
        ELSE [p EXCEPT !.phase = IF Authenticated(m) THEN "granted" ELSE Loop,
                       !.type = "NULL"]

monitor_child_preauth ==
    /\ mon.phase = Decide /\ mon.err = "none"
    /\ mon' = Judged(mon)
    /\ UNCHANGED <<conf, honest, child, reqs, answers, requests>>

\* mm_get_keystate: the monitor expects the child's keys and nothing else;
\* then it forks the session.
mm_get_keystate ==
    /\ mon.phase = "granted" /\ mon.err = "none"
    /\ reqs # <<>>
    /\ mon' = IF Head(reqs).type = "KEYEXPORT"
              THEN [mon EXCEPT !.phase = "session"]
              ELSE [mon EXCEPT !.err = "mismatch"]
    /\ reqs' = Tail(reqs)
    /\ UNCHANGED <<conf, honest, child, answers, requests>>

-----------------------------------------------------------------------------
(* The child. *)

ChildInit ==
    [pc |-> "kex", user |-> "NULL", service |-> TRUE, attempt |-> 0, failures |-> 0,
     valid |-> FALSE, lists |-> <<>>, none_enabled |-> TRUE, prev_keys |-> {},
     r |-> NoRequest, reply |-> "NULL", log |-> <<>>]

Ask(c, qs) ==
    /\ child' = c
    /\ reqs' = reqs \o qs
    /\ UNCHANGED <<conf, honest, mon>>

\* The method has succeeded, and root may use it.
Succeeded(c, authenticated) ==
    authenticated /\ (c.user = "root" => auth_root_allowed(c.r.method))

\* userauth_finish: FAILURE, partial success or SUCCESS to the client.
userauth_finish(c, authenticated) ==
    LET m == c.r.method
        ok == Succeeded(c, authenticated)
        partial == ok /\ Configured /\ ~Completes(c.lists, m)
        d == [c EXCEPT !.r = NoRequest,
                       !.lists = IF ok /\ Configured
                                 THEN auth2_update_methods_lists(@, m) ELSE @,
                       !.log = IF ok THEN Append(@, m) ELSE @]
        penalty == ~partial /\ (c.attempt > 1 \/ m # "none")
        f == IF penalty THEN c.failures + 1 ELSE c.failures
    IN  IF authenticated /\ ~c.valid THEN [c EXCEPT !.pc = "internal"]
        ELSE IF ok /\ Configured /\ InNoList(c.lists, m)
        THEN [c EXCEPT !.pc = "nolist"]
        ELSE IF ok /\ ~partial
        THEN [d EXCEPT !.pc = "success", !.reply = "SUCCESS"]
        ELSE [d EXCEPT !.failures = f,
                       !.pc = IF f >= MaxAuthTries THEN "disconnected" ELSE "idle",
                       !.reply = IF partial THEN "PARTIAL" ELSE "FAILURE"]

\* authmethod_lookup: the method is enabled, required next, and the client has
\* tries left.
authmethod_lookup(c, m) ==
    /\ m = "none" => c.none_enabled
    /\ Enabled(m) /\ auth2_method_allowed(c.lists, m)
    /\ c.failures < MaxAuthTries

\* The method's userauth function as far as its first request to the monitor;
\* a result without one finishes at once.
Try(c) ==
    LET m == c.r.method
        tried == authmethod_lookup(c, m)
        d == IF m = "none" /\ tried THEN [c EXCEPT !.none_enabled = FALSE] ELSE c
        password == \/ m = "password"
                    \/ m = "none" /\ conf.empty /\ "password" \in conf.enabled
    IN  IF tried /\ password
        THEN Ask([d EXCEPT !.pc = "passwd"], <<Req("AUTHPASSWORD", d.r)>>)
        ELSE IF tried /\ m = "publickey" /\ d.valid /\ d.r.key \notin d.prev_keys
        THEN Ask([d EXCEPT !.pc = "allowed"], <<Req("KEYALLOWED", d.r)>>)
        ELSE Ask(userauth_finish(d, FALSE), <<>>)

\* The key exchange has the monitor sign the exchange hash.
do_ssh2_kex ==
    /\ honest /\ child.pc = "kex"
    /\ Ask([child EXCEPT !.pc = "signed"], <<Req("SIGN", NoRequest)>>)
    /\ UNCHANGED <<answers, requests>>

\* A request of the client, one within the limit: the first asks the monitor
\* for the account, and none may change the user or the service.
input_userauth_request ==
    /\ honest /\ child.pc = "idle"
    /\ requests > 0 /\ requests' = requests - 1
    /\ \E r \in UserauthRequest :
         LET c == [child EXCEPT !.r = r, !.attempt = @ + 1]
         IN  CASE child.attempt >= AttemptLimit ->
                    Ask([child EXCEPT !.pc = "disconnected"], <<>>)
               [] child.attempt = 0 ->
                    Ask([c EXCEPT !.pc = "pwnam", !.user = r.user,
                                  !.service = r.service],
                        <<Req("PWNAM", r)>>)
               [] child.attempt \in 1 .. AttemptLimit - 1
                    /\ (r.user # child.user \/ r.service # child.service) ->
                    Ask([child EXCEPT !.pc = "disconnected"], <<>>)
               [] OTHER -> Try(c)
    /\ UNCHANGED answers

Answered(pc) == honest /\ child.pc = pc /\ answers # <<>>

Signed ==
    /\ Answered("signed")
    /\ Ask([child EXCEPT !.pc = "idle"], <<>>)
    /\ answers' = Tail(answers)
    /\ UNCHANGED requests

\* getpwnamallow has answered: mm_inform_authserv, then the banner.
Pwnam ==
    /\ Answered("pwnam")
    /\ Ask([child EXCEPT !.pc = "banner",
                         !.valid = Head(answers) /\ child.r.service],
           <<Req("AUTHSERV", child.r), Req("READ_BANNER", child.r)>>)
    /\ answers' = Tail(answers)
    /\ UNCHANGED requests

\* No list left after dropping those with disabled methods: disconnected.
Banner ==
    /\ Answered("banner")
    /\ IF Configured /\ auth2_setup_methods_lists = <<>>
       THEN Ask([child EXCEPT !.pc = "disconnected"], <<>>)
       ELSE Try([child EXCEPT !.lists = auth2_setup_methods_lists])
    /\ answers' = Tail(answers)
    /\ UNCHANGED requests

userauth_passwd ==
    /\ Answered("passwd")
    /\ Ask(userauth_finish(child, Head(answers)), <<>>)
    /\ answers' = Tail(answers)
    /\ UNCHANGED requests

\* The key is allowed or not; without a signature that is all the client
\* wanted to know (PK_OK, the attempt is postponed).
userauth_pubkey ==
    /\ Answered("allowed")
    /\ CASE Head(answers) /\ child.r.sig ->
              Ask([child EXCEPT !.pc = "verify"], <<Req("KEYVERIFY", child.r)>>)
         [] Head(answers) /\ ~child.r.sig ->
              Ask([child EXCEPT !.pc = "idle", !.reply = "PK_OK",
                                !.r = NoRequest], <<>>)
         [] OTHER -> Ask(userauth_finish(child, FALSE), <<>>)
    /\ answers' = Tail(answers)
    /\ UNCHANGED requests

\* A plausible slip: the key is not noted as used.
VerifyUnrecorded ==
    /\ Answered("verify")
    /\ Ask(userauth_finish(child, Head(answers)), <<>>)
    /\ answers' = Tail(answers)
    /\ UNCHANGED requests

Verify ==
    /\ Answered("verify")
    /\ Ask(userauth_finish(
               IF Head(answers)
               THEN [child EXCEPT !.prev_keys = @ \cup {child.r.key}]
               ELSE child, Head(answers)), <<>>)
    /\ answers' = Tail(answers)
    /\ UNCHANGED requests

\* A plausible slip: the keys are kept.
KeystateUnsent ==
    /\ honest /\ child.pc = "success"
    /\ Ask([child EXCEPT !.pc = "exported"], <<>>)
    /\ UNCHANGED <<answers, requests>>

mm_send_keystate ==
    /\ honest /\ child.pc = "success"
    /\ Ask([child EXCEPT !.pc = "exported"], <<Req("KEYEXPORT", NoRequest)>>)
    /\ UNCHANGED <<answers, requests>>

\* A child that does not follow its code.
AnyRequest ==
    /\ ~honest
    /\ requests > 0 /\ requests' = requests - 1
    /\ reqs = <<>>
    /\ \E type \in MON_ONCE \cup MON_ISAUTH \cup {"KEYEXPORT"},
          u \in Users, k \in Offered, good \in BOOLEAN, empty \in BOOLEAN,
          data \in BOOLEAN :
         /\ type # "PWNAM" => u = CHOOSE v \in Users : TRUE
         /\ type \notin MON_AUTHDECIDE => good
         /\ type \notin {"KEYALLOWED", "KEYVERIFY"} => k = CHOOSE l \in Offered : TRUE
         /\ type # "AUTHPASSWORD" => empty
         /\ type # "KEYVERIFY" => data
         /\ reqs' = <<[type |-> type, user |-> u, key |-> k, good |-> good,
                       empty |-> empty, data |-> data]>>
    /\ UNCHANGED <<conf, honest, child, mon, answers>>

-----------------------------------------------------------------------------
Init ==
    /\ conf \in Configs
    /\ honest \in BOOLEAN
    /\ child = ChildInit
    /\ mon = MonitorInit
    /\ reqs = <<>> /\ answers = <<>>
    /\ requests = MaxRequests

Child ==
    \/ do_ssh2_kex \/ Signed \/ Pwnam \/ Banner \/ userauth_passwd
    \/ userauth_pubkey \/ Verify \/ mm_send_keystate

Monitor == monitor_read \/ monitor_child_preauth \/ mm_get_keystate

Next == Child \/ Monitor \/ input_userauth_request \/ AnyRequest

Spec == Init /\ [][Next]_vars

\* Both processes are scheduled; the client need not ask for anything.
FairSpec == Spec /\ WF_vars(Child) /\ WF_vars(Monitor)

-----------------------------------------------------------------------------
(* Properties *)

Subsequence(l, s) ==
    \E f \in [DOMAIN l -> DOMAIN s] :
        \A i, j \in DOMAIN l : /\ s[f[i]] = l[i]
                               /\ i < j => f[i] < f[j]

\* Whatever the child does, the monitor lets a session start only for a user
\* who has an account and whom it has itself seen succeed with every method
\* of one of the configured lists in order (without lists, with one method),
\* no key counted twice, and for root with a method allowed for root.
GrantedOnlyIfCompleted ==
    mon.phase \in {"granted", "session"} =>
        /\ mon.user \in Accounts
        /\ mon.log # <<>>
        /\ mon.user = "root" => auth_root_allowed(mon.log[Len(mon.log)])
        /\ Configured => \E i \in DOMAIN conf.lists :
                            Subsequence(conf.lists[i], mon.log)
        /\ Cardinality({i \in DOMAIN mon.log : mon.log[i] = "publickey"})
               <= Cardinality(mon.prev_keys)

\* With lists configured, the two can disagree about what a success counts
\* for: the monitor calls the first empty password "none", and it takes a
\* method off its lists before it looks whether root may log in at all.
Disputed ==
    /\ Configured
    /\ conf.empty \/ (child.user = "root" /\ conf.root = "no")

\* A child that follows its code is served, except where the two are Disputed:
\* no request of it is unpermitted, out of order or in no list, and none is
\* beyond the monitor's own count of failures before the child's count is
\* full: with empty passwords permitted and a "none" the child does not count,
\* the monitor gives up at the failure for which the child disconnects, which
\* its code says should not happen (NeverShouldNotHappen).
HonestChildServed ==
    honest /\ ~Disputed =>
        \/ mon.err = "none"
        \/ /\ mon.err = "tries" /\ conf.empty /\ ~child.none_enabled
           /\ \/ child.pc = "disconnected"
              \/ /\ child.pc \in {"passwd", "verify"}
                 /\ child.failures + 1 >= MaxAuthTries

\* When neither is at work on a request, the two processes agree on which
\* methods are still required, on the keys used, and on the user, except
\* where they are Disputed (NeverShouldNotHappen).
ProcessesAgree ==
    /\ honest /\ ~Disputed
    /\ child.pc = "idle" /\ child.attempt > 0
    /\ mon.phase = Loop /\ mon.err = "none" /\ reqs = <<>>
    => /\ child.lists = mon.lists
       /\ child.log = mon.log
       /\ child.prev_keys = mon.prev_keys
       /\ child.user = mon.user
       /\ mon.failures <= child.failures + 1

\* A user who is told SUCCESS gets a session, except where the two are
\* Disputed (NeverShouldNotHappen).
SuccessMeansSession ==
    honest /\ ~Disputed /\ child.pc = "success" ~> mon.phase = "session"

\* "Shouldn't happen" (monitor_child_preauth) and "This should not happen"
\* (auth2_update_methods_lists): a child that follows its code makes no more
\* attempts than the monitor counts, and succeeds with no method that is at
\* the head of none of the monitor's lists.
NeverShouldNotHappen == honest => mon.err \notin {"tries", "nolist"}
=============================================================================
