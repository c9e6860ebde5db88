----------------------------- MODULE NativeSignIn -----------------------------
(***************************************************************************)
(* One sign-in of a native app: the visits of /auth/google in a browser,   *)
(* Google's callbacks, the hand-off row between browser and app, and the   *)
(* exchange of its login code for a session.  src/backend/app/api/routes/  *)
(* auth_google.py, services/auth.py and db/repository.py.                  *)
(*                                                                         *)
(* The app chose one hand-off and polls it.  The user may visit the page   *)
(* more than once and the browser may repeat a callback; a code of Google  *)
(* is good for one exchange.  What a callback stores of the grant is the   *)
(* subject of GrantLifecycle.                                              *)
(***************************************************************************)
EXTENDS Naturals, FiniteSets

CONSTANTS
    Visits,     \* visits of /auth/google: the OAuth states
    Callbacks,  \* requests of the browser to the callback; also login codes
    NoVisit, NoCode,
    MaxFaults   \* bound on exchanges and sign-ins refused and requests that die

VARIABLES
    login,      \* login[v]: the oauth_login_sessions row, "none", "open" or "gone"
    spent,      \* visits whose Google code was exchanged
    request,    \* request[c]: what callback c does
    code,       \* code[c]: the mobile_login_codes row of callback c
    handoff,    \* the mobile_oauth_handoffs row
    app,        \* what the app does, and the code it was given
    session,    \* session[c]: the app session issued for the code of c
    void,       \* codes a later callback, time or a fault took from the app
    faults

vars == <<login, spent, request, code, handoff, app, session, void, faults>>

Verdicts == {"code", "cancelled", "failed"}
NoHandoff == [status |-> "none", code |-> NoCode, consumed |-> FALSE]
Idle == [pc |-> "idle", visit |-> NoVisit, verdict |-> "code", known |-> FALSE]

TypeOK ==
    /\ login \in [Visits -> {"none", "open", "gone"}]
    /\ spent \subseteq Visits
    /\ request \in [Callbacks -> [pc : {"idle", "exchange", "accept", "forget", "tell", "issue", "offer", "done"},
                                  visit : Visits \cup {NoVisit}, verdict : Verdicts, known : BOOLEAN]]
    /\ code \in [Callbacks -> {"none", "live", "used", "expired"}]
    /\ handoff \in [status : {"none", "ready", "cancelled", "failed", "expired"},
                    code : Callbacks \cup {NoCode}, consumed : BOOLEAN]
    /\ app \in [pc : {"poll", "exchange", "issue", "in", "refused", "told"}, code : Callbacks \cup {NoCode}]
    /\ session \in [Callbacks -> {"none", "live", "revoked"}]
    /\ void \subseteq Callbacks
    /\ faults \in Nat

Init ==
    /\ login = [v \in Visits |-> "none"] /\ spent = {}
    /\ request = [c \in Callbacks |-> Idle]
    /\ code = [c \in Callbacks |-> "none"]
    /\ handoff = NoHandoff
    /\ app = [pc |-> "poll", code |-> NoCode]
    /\ session = [c \in Callbacks |-> "none"]
    /\ void = {} /\ faults = 0

-----------------------------------------------------------------------------
Fault == faults < MaxFaults /\ faults' = faults + 1
Goto(c, where) == request' = [request EXCEPT ![c].pc = where]

(* ---- the browser ------------------------------------------------------------ *)

(* GET /auth/google: save_oauth_login_session.                               *)
StartSignIn(v) ==
    /\ login[v] = "none"
    /\ login' = [login EXCEPT ![v] = "open"]
    /\ UNCHANGED <<spent, request, code, handoff, app, session, void, faults>>

(* Google sends the browser back, with a code or an error; the row says where *)
(* the outcome belongs, if it is still there.                                *)
Arrive(c, v, verdict) ==
    /\ request[c].pc = "idle" /\ login[v] # "none"
    /\ request' = [request EXCEPT ![c] =
                     [pc |-> IF verdict = "code" THEN "exchange" ELSE "forget",
                      visit |-> v, verdict |-> verdict, known |-> login[v] = "open"]]
    /\ UNCHANGED <<login, spent, code, handoff, app, session, void, faults>>

(* handle_google_callback reads the row again; Google takes a code once.      *)
Exchange(c) ==
    LET v == request[c].visit IN
    /\ request[c].pc = "exchange"
    /\ \/ /\ login[v] = "open" /\ v \notin spent
          /\ spent' = spent \cup {v}
          /\ Goto(c, "accept")
          /\ UNCHANGED faults
       \/ /\ IF login[v] = "open" /\ v \notin spent THEN Fault ELSE UNCHANGED faults
          /\ request' = [request EXCEPT ![c].pc = "forget", ![c].verdict = "failed"]
          /\ UNCHANGED spent
    /\ UNCHANGED <<login, code, handoff, app, session, void>>

(* Under the subject's lock: the row goes first, then the user is stored or    *)
(* refused.                                                                  *)
Accept(c) ==
    /\ request[c].pc = "accept"
    /\ login' = [login EXCEPT ![request[c].visit] = "gone"]
    /\ \/ Goto(c, "issue") /\ UNCHANGED faults
       \/ Fault /\ request' = [request EXCEPT ![c].pc = "tell", ![c].verdict = "failed"]
    /\ UNCHANGED <<spent, code, handoff, app, session, void>>

(* The other endings delete the row, and tell the app if they know of it.       *)
Forget(c) ==
    /\ request[c].pc = "forget"
    /\ login' = [login EXCEPT ![request[c].visit] = "gone"]
    /\ Goto(c, IF request[c].known THEN "tell" ELSE "done")
    /\ UNCHANGED <<spent, code, handoff, app, session, void, faults>>

(* create_mobile_oauth_handoff is an upsert: it replaces what an earlier        *)
(* callback left, consumed or not.                                          *)
Replaced(new) ==
    /\ handoff' = new
    /\ void' = IF handoff.status = "ready" THEN void \cup {handoff.code} ELSE void

(* _persist_terminal_mobile_handoff.                                          *)
Tell(c) ==
    /\ request[c].pc = "tell"
    /\ Replaced([status |-> request[c].verdict, code |-> NoCode, consumed |-> FALSE])
    /\ Goto(c, "done")
    /\ UNCHANGED <<login, spent, code, app, session, faults>>

(* create_mobile_code.                                                       *)
IssueCode(c) ==
    /\ request[c].pc = "issue"
    /\ code' = [code EXCEPT ![c] = "live"]
    /\ Goto(c, "offer")
    /\ UNCHANGED <<login, spent, handoff, app, session, void, faults>>

Offer(c) ==
    /\ request[c].pc = "offer"
    /\ Replaced([status |-> "ready", code |-> c, consumed |-> FALSE])
    /\ Goto(c, "done")
    /\ UNCHANGED <<login, spent, code, app, session, faults>>

Die(c) ==
    /\ request[c].pc \notin {"idle", "done"}
    /\ Fault
    /\ Goto(c, "done")
    /\ UNCHANGED <<login, spent, code, handoff, app, session, void>>

(* ---- the app ----------------------------------------------------------------- *)

(* get_mobile_oauth_handoff: what the app and the browser's page read.         *)
Readable == handoff.status \in {"ready", "cancelled", "failed"} /\ ~handoff.consumed

DeliveredOnce == [handoff EXCEPT !.consumed = TRUE]
(* The code is delivered as often as it is asked for: the row stays as it is.   *)
Delivered == handoff

(* GET /v1/auth/mobile/handoff: pending, the code, or the end of the attempt.   *)
Poll ==
    /\ app.pc = "poll" /\ Readable
    /\ app' = IF handoff.status = "ready" THEN [pc |-> "exchange", code |-> handoff.code]
                                          ELSE [app EXCEPT !.pc = "told"]
    /\ handoff' = IF handoff.status = "ready" THEN Delivered ELSE handoff
    /\ UNCHANGED <<login, spent, request, code, session, void, faults>>

(* The code and its hand-off are consumed together, or neither.                 *)
Eligible(c) == handoff.status = "ready" /\ ~handoff.consumed /\ handoff.code = c

(* consume_bound_mobile_login_code.                                           *)
Consume ==
    /\ app.pc = "exchange"
    /\ IF Eligible(app.code) /\ code[app.code] = "live"
         THEN /\ code' = [code EXCEPT ![app.code] = "used"]
              /\ handoff' = [handoff EXCEPT !.consumed = TRUE]
              /\ app' = [app EXCEPT !.pc = "issue"]
         ELSE /\ app' = [app EXCEPT !.pc = "refused"]
              /\ UNCHANGED <<code, handoff>>
    /\ UNCHANGED <<login, spent, request, session, void, faults>>

(* issue_session follows in a transaction of its own; if the request dies, or   *)
(* its answer is lost, the code is gone.                                     *)
IssueSession ==
    /\ app.pc = "issue"
    /\ \/ /\ session' = [session EXCEPT ![app.code] = "live"]
          /\ app' = [app EXCEPT !.pc = "in"]
          /\ UNCHANGED <<void, faults>>
       \/ /\ Fault
          /\ session' \in {session, [session EXCEPT ![app.code] = "live"]}
          /\ app' = [app EXCEPT !.pc = "exchange"]
          /\ void' = void \cup {app.code}
    /\ UNCHANGED <<login, spent, request, code, handoff>>

(* revoke_app_session, revoke_user_app_sessions.                             *)
SignOut ==
    /\ \E c \in Callbacks : session[c] = "live"
    /\ session' = [c \in Callbacks |-> IF session[c] = "live" THEN "revoked" ELSE session[c]]
    /\ UNCHANGED <<login, spent, request, code, handoff, app, void, faults>>

(* A code lives five minutes, the row of its hand-off as long from then on.      *)
ExpireCode(c) ==
    /\ code[c] = "live"
    /\ code' = [code EXCEPT ![c] = "expired"] /\ void' = void \cup {c}
    /\ UNCHANGED <<login, spent, request, handoff, app, session, faults>>

ExpireHandoff ==
    /\ handoff.status = "ready" => code[handoff.code] # "live"
    /\ handoff.status \notin {"none", "expired"}
    /\ handoff' = [status |-> "expired", code |-> NoCode, consumed |-> FALSE]
    /\ UNCHANGED <<login, spent, request, code, app, session, void, faults>>

-----------------------------------------------------------------------------
Browser(c) ==
    \/ \E v \in Visits, verdict \in Verdicts : Arrive(c, v, verdict)
    \/ Exchange(c) \/ Accept(c) \/ Forget(c) \/ Tell(c) \/ IssueCode(c) \/ Offer(c)

Next ==
    \/ \E v \in Visits : StartSignIn(v)
    \/ \E c \in Callbacks : Browser(c) \/ Die(c) \/ ExpireCode(c)
    \/ Poll \/ Consume \/ IssueSession \/ SignOut \/ ExpireHandoff

Spec == Init /\ [][Next]_vars

-----------------------------------------------------------------------------
(* A code the app was given signs it in, however often the page and the app    *)
(* read the hand-off, unless another callback replaced it, it expired or its   *)
(* exchange was cut off; and nobody is signed in by a code not consumed.       *)
GivenCodeWorks ==
    /\ app.pc = "refused" => app.code \in void
    /\ \A c \in Callbacks : session[c] # "none" => code[c] = "used"

(* A code of Google signs in once: of the callbacks of one visit at most one   *)
(* makes a login code.                                                      *)
OneCodePerVisit ==
    \A c, d \in Callbacks :
        code[c] # "none" /\ code[d] # "none" /\ request[c].visit = request[d].visit => c = d

(* Both.                                                                     *)
SignInHolds == GivenCodeWorks /\ OneCodePerVisit
=============================================================================
