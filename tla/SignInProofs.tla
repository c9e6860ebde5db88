---------------------------- MODULE SignInProofs ----------------------------
(***************************************************************************)
(* Theorems about signing in.  Of a native app, for every number of visits, *)
(* callbacks and faults: the code an app was given signs it in, and a code *)
(* of Google signs in once.  Of the Google grants of one subject, for every *)
(* number of sign-ins, requests, workers and faults: a login that began    *)
(* before a disconnect connects nobody after it, no live grant is left     *)
(* behind unseen, and no connected user stands on a grant the program      *)
(* itself invalidated.                                                     *)
(***************************************************************************)
EXTENDS MC_GrantLifecycle, TLAPS

-----------------------------------------------------------------------------
(* The inductive invariant.                                                *)

(* A callback that has exchanged Google's code, or made a login code.       *)
Passed(c) == request[c].pc \in {"accept", "issue", "offer"} \/ code[c] # "none"

(* Google's code of a visit was exchanged by one callback only.             *)
OneExchange ==
    /\ \A c \in Callbacks : request[c].pc = "exchange" => request[c].visit \in Visits
    /\ \A c \in Callbacks : Passed(c) => request[c].visit \in spent
    /\ \A c, d \in Callbacks :
          Passed(c) /\ Passed(d) /\ request[c].visit = request[d].visit => c = d

(* A login code does not exist before create_mobile_code.                   *)
NotYetIssued ==
    \A c \in Callbacks :
        request[c].pc \in {"idle", "exchange", "accept", "forget", "issue"} => code[c] = "none"

(* Whoever holds a code could still redeem it, or something took it away:   *)
(* the callback about to offer it, the hand-off row, and the app.           *)
Good(c) == c \in Callbacks /\ (code[c] = "live" \/ c \in void)
Offered ==
    /\ \A c \in Callbacks : request[c].pc \in {"forget", "tell"} => request[c].verdict # "code"
    /\ \A c \in Callbacks : request[c].pc = "offer" => Good(c)
    /\ handoff.status = "ready" =>
         /\ handoff.code \in Callbacks /\ request[handoff.code].pc = "done"
         /\ ~handoff.consumed => Good(handoff.code)
Given ==
    /\ app.pc \in {"exchange", "issue", "refused"} => app.code \in Callbacks
    /\ app.pc = "exchange" =>
         app.code \in void \/ (N!Eligible(app.code) /\ code[app.code] = "live")
    /\ app.pc = "issue" => code[app.code] = "used"

SignInInv == N!TypeOK /\ OneExchange /\ NotYetIssued /\ Offered /\ Given /\ N!GivenCodeWorks

-----------------------------------------------------------------------------
LEMMA SignInInvInitially == N!Init => SignInInv
  BY DEF N!Init, SignInInv, N!TypeOK, OneExchange, Passed, NotYetIssued, Offered, Given, Good,
     N!GivenCodeWorks, N!Idle, N!NoHandoff, N!Verdicts

(* The types, action by action.                                             *)
PCs == {"idle", "exchange", "accept", "forget", "tell", "issue", "offer", "done"}
RequestType == [pc : PCs, visit : Visits \cup {NoVisit}, verdict : N!Verdicts, known : BOOLEAN]

LEMMA RequestMoved ==
  ASSUME request \in [Callbacks -> RequestType], NEW c \in Callbacks, NEW to \in PCs
  PROVE  /\ [request EXCEPT ![c].pc = to] \in [Callbacks -> RequestType]
         /\ [request EXCEPT ![c].pc = to, ![c].verdict = "failed"] \in [Callbacks -> RequestType]
<1> HIDE DEF PCs
<1>1. request[c] \in RequestType
  OBVIOUS
<1>2. [request[c] EXCEPT !.pc = to] \in RequestType
  BY <1>1 DEF RequestType
<1>3. [request[c] EXCEPT !.pc = to, !.verdict = "failed"] \in RequestType
  BY <1>1 DEF RequestType, N!Verdicts
<1> QED BY <1>2, <1>3

LEMMA SignInTypePreserved ==
  ASSUME N!TypeOK, OneExchange, Given, Offered, [N!Next]_(N!vars)
  PROVE  N!TypeOK'
<1> USE DEF N!Fault, N!Goto
<1>0. request \in [Callbacks -> RequestType]
  BY DEF RequestType, PCs, N!TypeOK
<1>a. login \in [Visits -> {"none", "open", "gone"}] /\ mishaps \in Nat
  BY DEF N!TypeOK
<1>b. PCs = {"idle", "exchange", "accept", "forget", "tell", "issue", "offer", "done"}
  BY DEF PCs
<1>1. ASSUME NEW v \in Visits, N!StartSignIn(v) PROVE N!TypeOK'
  BY <1>1 DEF N!StartSignIn, N!TypeOK
<1>2. ASSUME NEW c \in Callbacks, NEW v \in Visits, NEW d \in N!Verdicts, N!Arrive(c, v, d) PROVE N!TypeOK'
  BY <1>2 DEF N!Arrive, N!Verdicts, N!TypeOK
<1>3. ASSUME NEW c \in Callbacks, N!Exchange(c) PROVE N!TypeOK'
  BY SMTT(30), <1>3 DEF N!Exchange, OneExchange, N!Verdicts, N!TypeOK
<1>4. ASSUME NEW c \in Callbacks, N!Accept(c) PROVE N!TypeOK'
  <2>1. \/ request' = [request EXCEPT ![c].pc = "issue"] /\ mishaps' = mishaps
        \/ request' = [request EXCEPT ![c].pc = "tell", ![c].verdict = "failed"] /\ mishaps' = mishaps + 1
    BY <1>4 DEF N!Accept
  <2>a. [request EXCEPT ![c].pc = "issue"] \in [Callbacks -> RequestType]
    BY <1>0, <1>b, RequestMoved
  <2>b. [request EXCEPT ![c].pc = "tell", ![c].verdict = "failed"] \in [Callbacks -> RequestType]
    BY <1>0, <1>b, RequestMoved
  <2>2. request' \in [Callbacks -> RequestType]
    BY <2>1, <2>a, <2>b
  <2>3. login' \in [Visits -> {"none", "open", "gone"}]
    BY <1>4, <1>a DEF N!Accept
  <2>4. mishaps' \in Nat
    BY <2>1, <1>a
  <2> QED BY <1>4, <2>2, <2>3, <2>4 DEF N!Accept, RequestType, PCs, N!TypeOK
<1>5. ASSUME NEW c \in Callbacks, N!Forget(c) PROVE N!TypeOK'
  <2>1. \/ request' = [request EXCEPT ![c].pc = "tell"]
        \/ request' = [request EXCEPT ![c].pc = "done"]
    BY <1>5 DEF N!Forget
  <2>a. [request EXCEPT ![c].pc = "tell"] \in [Callbacks -> RequestType]
    BY <1>0, <1>b, RequestMoved
  <2>b. [request EXCEPT ![c].pc = "done"] \in [Callbacks -> RequestType]
    BY <1>0, <1>b, RequestMoved
  <2>2. request' \in [Callbacks -> RequestType]
    BY <2>1, <2>a, <2>b
  <2>3. login' \in [Visits -> {"none", "open", "gone"}]
    BY <1>5, <1>a DEF N!Forget
  <2> QED BY <1>5, <2>2, <2>3 DEF N!Forget, RequestType, PCs, N!TypeOK
<1>6. ASSUME NEW c \in Callbacks, N!Tell(c) PROVE N!TypeOK'
  <2>1. request[c].verdict \in {"cancelled", "failed"}
    BY <1>0, <1>6 DEF RequestType, N!Verdicts, N!Tell, Offered
  <2>2. handoff' \in [status : {"none", "ready", "cancelled", "failed", "expired"},
                      code : Callbacks \cup {NoCode}, consumed : BOOLEAN]
    BY <1>6, <2>1 DEF N!Tell, N!Replaced
  <2>3. request' \in [Callbacks -> RequestType]
    BY <1>0, <1>6, <1>b, RequestMoved DEF N!Tell
  <2>4. void' \subseteq Callbacks
    BY <1>6 DEF N!Tell, N!Replaced, Offered, N!TypeOK
  <2> QED BY <1>6, <2>2, <2>3, <2>4 DEF N!Tell, RequestType, PCs, N!TypeOK
<1>7. ASSUME NEW c \in Callbacks, N!IssueCode(c) PROVE N!TypeOK'
  BY <1>7 DEF N!IssueCode, N!TypeOK
<1>8. ASSUME NEW c \in Callbacks, N!Offer(c) PROVE N!TypeOK'
  BY <1>8 DEF N!Offer, N!Replaced, Offered, N!TypeOK
<1>9. ASSUME NEW c \in Callbacks, N!Die(c) \/ N!ExpireCode(c) PROVE N!TypeOK'
  BY SMTT(30), <1>9 DEF N!Die, N!ExpireCode, N!TypeOK
<1>10. CASE N!Poll
  BY <1>10 DEF N!Poll, N!Delivered, N!TypeOK
<1>11. CASE N!Consume
  <2>1. /\ code' \in [Callbacks -> {"none", "live", "used", "expired"}]
        /\ handoff' \in [status : {"none", "ready", "cancelled", "failed", "expired"},
                         code : Callbacks \cup {NoCode}, consumed : BOOLEAN]
    BY ZenonT(30), <1>11 DEF N!Consume, N!TypeOK
  <2>2. app' = [app EXCEPT !.pc = "issue"] \/ app' = [app EXCEPT !.pc = "refused"]
    BY <1>11 DEF N!Consume
  <2>3. app' \in [pc : {"poll", "exchange", "issue", "in", "refused", "told"},
                  code : Callbacks \cup {NoCode}]
    BY <2>2 DEF N!TypeOK
  <2> QED BY <1>11, <2>1, <2>3 DEF N!Consume, N!TypeOK
<1>12. CASE N!IssueSession
  BY <1>12 DEF N!IssueSession, Given, N!TypeOK
<1>13. CASE N!SignOut
  BY <1>13 DEF N!SignOut, N!TypeOK
<1>14. CASE N!ExpireHandoff
  BY <1>14 DEF N!ExpireHandoff, N!TypeOK
<1>15. CASE UNCHANGED N!vars
  BY <1>15 DEF N!vars, N!TypeOK
<1> QED
  BY <1>1, <1>2, <1>3, <1>4, <1>5, <1>6, <1>7, <1>8, <1>9, <1>10, <1>11, <1>12, <1>13,
     <1>14, <1>15 DEF N!Next, N!Browser

-----------------------------------------------------------------------------
(* What every step preserves.                                               *)

LEMMA SignInInvInductive ==
  ASSUME SignInInv, [N!Next]_(N!vars)
  PROVE  SignInInv'
<1> DEFINE Rest == OneExchange /\ NotYetIssued /\ Offered /\ Given /\ N!GivenCodeWorks
<1>0. N!TypeOK /\ Rest
  BY DEF SignInInv
<1>t. N!TypeOK'
  BY <1>0, SignInTypePreserved
<1>1. ASSUME NEW v \in Visits, N!StartSignIn(v) PROVE Rest'
  <2>1. OneExchange'
    BY <1>0, <1>t, <1>1 DEF N!StartSignIn, N!TypeOK, OneExchange, Passed
  <2>2. NotYetIssued'
    BY <1>0, <1>t, <1>1 DEF N!StartSignIn, N!TypeOK, NotYetIssued
  <2>3. Offered'
    BY <1>0, <1>t, <1>1 DEF N!StartSignIn, N!TypeOK, Offered, Good, NotYetIssued, Given, N!Eligible
  <2>4. Given'
    BY <1>0, <1>t, <1>1 DEF N!StartSignIn, N!TypeOK, Given, Good, Offered, NotYetIssued, N!Eligible
  <2>5. N!GivenCodeWorks'
    BY <1>0, <1>t, <1>1 DEF N!StartSignIn, N!TypeOK, N!GivenCodeWorks, Given, NotYetIssued
  <2> QED BY <2>1, <2>2, <2>3, <2>4, <2>5
<1>2. ASSUME NEW c \in Callbacks, NEW v \in Visits, NEW d \in N!Verdicts, N!Arrive(c, v, d) PROVE Rest'
  <2>1. OneExchange'
    <3>1. \A x \in Callbacks : Passed(x)' => Passed(x) /\ request'[x].visit = request[x].visit
      BY <1>0, <1>2 DEF N!Arrive, N!TypeOK, Passed, NotYetIssued
    <3>2. \A x \in Callbacks : request'[x].pc = "exchange" => request'[x].visit \in Visits
      BY <1>0, <1>2 DEF N!Arrive, N!TypeOK, OneExchange
    <3> QED BY <1>0, <1>2, <3>1, <3>2 DEF N!Arrive, OneExchange
  <2>2. NotYetIssued'
    BY <1>0, <1>t, <1>2 DEF N!Arrive, N!Verdicts, N!TypeOK, NotYetIssued
  <2>3. Offered'
    BY <1>0, <1>t, <1>2 DEF N!Arrive, N!Verdicts, N!TypeOK, Offered, Good, NotYetIssued, Given, N!Eligible
  <2>4. Given'
    BY <1>0, <1>t, <1>2 DEF N!Arrive, N!Verdicts, N!TypeOK, Given, Good, Offered, NotYetIssued, N!Eligible
  <2>5. N!GivenCodeWorks'
    BY <1>0, <1>t, <1>2 DEF N!Arrive, N!Verdicts, N!TypeOK, N!GivenCodeWorks, Given, NotYetIssued
  <2> QED BY <2>1, <2>2, <2>3, <2>4, <2>5
<1>3. ASSUME NEW c \in Callbacks, N!Exchange(c) PROVE Rest'
  <2>1. OneExchange'
    <3>0. \A x \in Callbacks : request'[x].visit = request[x].visit
      BY <1>0, <1>3 DEF N!Exchange, N!Goto, N!TypeOK
    <3>1. \A x \in Callbacks \ {c} : request'[x] = request[x] /\ (Passed(x)' => Passed(x))
      BY <1>0, <1>3 DEF N!Exchange, N!Goto, N!TypeOK, Passed
    <3>2. request'[c].pc \in {"accept", "forget"} /\ code'[c] = "none"
      BY <1>0, <1>3 DEF N!Exchange, N!Goto, N!TypeOK, NotYetIssued
    <3>3. request'[c].pc = "accept" => request[c].visit \notin spent /\ spent' = spent \cup {request[c].visit}
      BY <1>0, <1>3 DEF N!Exchange, N!Goto, N!TypeOK
    <3>4. spent \subseteq spent'
      BY <1>3 DEF N!Exchange
    <3> QED BY <1>0, <3>0, <3>1, <3>2, <3>3, <3>4 DEF OneExchange, Passed
  <2>2. NotYetIssued'
    BY <1>0, <1>t, <1>3 DEF N!Exchange, N!Goto, N!Fault, N!TypeOK, NotYetIssued
  <2>3. Offered'
    <3>1. \A x \in Callbacks \ {c} : request'[x] = request[x]
      BY <1>0, <1>3 DEF N!Exchange, N!Goto, N!TypeOK
    <3>2. request'[c].pc = "accept" \/ (request'[c].pc = "forget" /\ request'[c].verdict = "failed")
      BY <1>0, <1>3 DEF N!Exchange, N!Goto, N!TypeOK, Offered, N!Verdicts
    <3>3. request[c].pc # "done" /\ UNCHANGED <<code, handoff, void>>
      BY <1>3 DEF N!Exchange
    <3> QED BY <1>0, <3>1, <3>2, <3>3 DEF Offered, Good
  <2>4. Given'
    BY <1>0, <1>t, <1>3 DEF N!Exchange, N!Goto, N!Fault, N!TypeOK, Given, Good, Offered, NotYetIssued, N!Eligible
  <2>5. N!GivenCodeWorks'
    BY <1>0, <1>t, <1>3 DEF N!Exchange, N!Goto, N!Fault, N!TypeOK, N!GivenCodeWorks, Given, NotYetIssued
  <2> QED BY <2>1, <2>2, <2>3, <2>4, <2>5
<1>4. ASSUME NEW c \in Callbacks, N!Accept(c) PROVE Rest'
  <2>1. OneExchange'
    <3>1. \A x \in Callbacks \ {c} : request'[x] = request[x]
      BY <1>0, <1>4 DEF N!Accept, N!Goto, N!TypeOK
    <3>2. request[c].pc = "accept" /\ request'[c].visit = request[c].visit
      BY <1>0, <1>4 DEF N!Accept, N!Goto, N!TypeOK
    <3>3. request'[c].pc \in {"issue", "tell"}
      BY <1>0, <1>4 DEF N!Accept, N!Goto, N!TypeOK
    <3>4. UNCHANGED <<code, spent>>
      BY <1>4 DEF N!Accept
    <3> QED BY <1>0, <3>1, <3>2, <3>3, <3>4 DEF OneExchange, Passed
  <2>2. NotYetIssued'
    BY <1>0, <1>t, <1>4 DEF N!Accept, N!Goto, N!Fault, N!TypeOK, NotYetIssued
  <2>3. Offered'
    <3>1. \A x \in Callbacks \ {c} : request'[x] = request[x]
      BY <1>0, <1>4 DEF N!Accept, N!Goto, N!TypeOK
    <3>2. request'[c].pc = "issue" \/ (request'[c].pc = "tell" /\ request'[c].verdict = "failed")
      BY <1>0, <1>4 DEF N!Accept, N!Goto, N!TypeOK, Offered, N!Verdicts
    <3>3. request[c].pc # "done" /\ UNCHANGED <<code, handoff, void>>
      BY <1>4 DEF N!Accept
    <3> QED BY <1>0, <3>1, <3>2, <3>3 DEF Offered, Good
  <2>4. Given'
    BY <1>0, <1>t, <1>4 DEF N!Accept, N!Goto, N!Fault, N!TypeOK, Given, Good, Offered, NotYetIssued, N!Eligible
  <2>5. N!GivenCodeWorks'
    BY <1>0, <1>t, <1>4 DEF N!Accept, N!Goto, N!Fault, N!TypeOK, N!GivenCodeWorks, Given, NotYetIssued
  <2> QED BY <2>1, <2>2, <2>3, <2>4, <2>5
<1>5. ASSUME NEW c \in Callbacks, N!Forget(c) PROVE Rest'
  <2>1. OneExchange'
    BY <1>0, <1>t, <1>5 DEF N!Forget, N!Goto, N!TypeOK, OneExchange, Passed
  <2>2. NotYetIssued'
    BY <1>0, <1>t, <1>5 DEF N!Forget, N!Goto, N!TypeOK, NotYetIssued
  <2>3. Offered'
    BY <1>0, <1>t, <1>5 DEF N!Forget, N!Goto, N!TypeOK, Offered, Good, NotYetIssued, Given, N!Eligible
  <2>4. Given'
    BY <1>0, <1>t, <1>5 DEF N!Forget, N!Goto, N!TypeOK, Given, Good, Offered, NotYetIssued, N!Eligible
  <2>5. N!GivenCodeWorks'
    BY <1>0, <1>t, <1>5 DEF N!Forget, N!Goto, N!TypeOK, N!GivenCodeWorks, Given, NotYetIssued
  <2> QED BY <2>1, <2>2, <2>3, <2>4, <2>5
<1>6. ASSUME NEW c \in Callbacks, N!Tell(c) PROVE Rest'
  <2>1. OneExchange'
    BY <1>0, <1>t, <1>6 DEF N!Tell, N!Goto, N!Replaced, N!TypeOK, OneExchange, Passed
  <2>2. NotYetIssued'
    BY <1>0, <1>t, <1>6 DEF N!Tell, N!Goto, N!Replaced, N!TypeOK, NotYetIssued
  <2>3. Offered'
    <3>1. request[c].verdict \in {"cancelled", "failed"}
      BY <1>0, <1>6 DEF N!Tell, N!TypeOK, N!Verdicts, Offered
    <3>2. handoff'.status # "ready"
      BY <1>6, <3>1 DEF N!Tell, N!Replaced
    <3>3. \A x \in Callbacks : /\ request'[x].verdict = request[x].verdict
                               /\ request'[x].pc = request[x].pc \/ request'[x].pc = "done"
      BY <1>0, <1>6 DEF N!Tell, N!Goto, N!TypeOK
    <3>4. code' = code /\ void \subseteq void'
      BY <1>6 DEF N!Tell, N!Replaced
    <3> QED BY <1>0, <3>2, <3>3, <3>4 DEF Offered, Good
  <2>4. Given'
    BY <1>0, <1>t, <1>6 DEF N!Tell, N!Goto, N!Replaced, N!TypeOK, Given, Good, Offered, NotYetIssued, N!Eligible
  <2>5. N!GivenCodeWorks'
    BY <1>0, <1>t, <1>6 DEF N!Tell, N!Goto, N!Replaced, N!TypeOK, N!GivenCodeWorks, Given, NotYetIssued
  <2> QED BY <2>1, <2>2, <2>3, <2>4, <2>5
<1>7. ASSUME NEW c \in Callbacks, N!IssueCode(c) PROVE Rest'
  <2>1. OneExchange'
    BY <1>0, <1>t, <1>7 DEF N!IssueCode, N!Goto, N!TypeOK, OneExchange, Passed
  <2>2. NotYetIssued'
    BY <1>0, <1>t, <1>7 DEF N!IssueCode, N!Goto, N!TypeOK, NotYetIssued
  <2>3. Offered'
    BY <1>0, <1>t, <1>7 DEF N!IssueCode, N!Goto, N!TypeOK, Offered, Good, NotYetIssued, Given, N!Eligible
  <2>4. Given'
    BY <1>0, <1>t, <1>7 DEF N!IssueCode, N!Goto, N!TypeOK, Given, Good, Offered, NotYetIssued, N!Eligible
  <2>5. N!GivenCodeWorks'
    BY <1>0, <1>t, <1>7 DEF N!IssueCode, N!Goto, N!TypeOK, N!GivenCodeWorks, Given, NotYetIssued
  <2> QED BY <2>1, <2>2, <2>3, <2>4, <2>5
<1>8. ASSUME NEW c \in Callbacks, N!Offer(c) PROVE Rest'
  <2>1. OneExchange'
    BY <1>0, <1>t, <1>8 DEF N!Offer, N!Goto, N!Replaced, N!TypeOK, OneExchange, Passed
  <2>2. NotYetIssued'
    BY <1>0, <1>t, <1>8 DEF N!Offer, N!Goto, N!Replaced, N!TypeOK, NotYetIssued
  <2>3. Offered'
    BY <1>0, <1>t, <1>8 DEF N!Offer, N!Goto, N!Replaced, N!TypeOK, Offered, Good, NotYetIssued, Given, N!Eligible
  <2>4. Given'
    BY <1>0, <1>t, <1>8 DEF N!Offer, N!Goto, N!Replaced, N!TypeOK, Given, Good, Offered, NotYetIssued, N!Eligible
  <2>5. N!GivenCodeWorks'
    BY <1>0, <1>t, <1>8 DEF N!Offer, N!Goto, N!Replaced, N!TypeOK, N!GivenCodeWorks, Given, NotYetIssued
  <2> QED BY <2>1, <2>2, <2>3, <2>4, <2>5
<1>9. ASSUME NEW c \in Callbacks, N!Die(c) PROVE Rest'
  <2>1. OneExchange'
    BY <1>0, <1>t, <1>9 DEF N!Die, N!Goto, N!Fault, N!TypeOK, OneExchange, Passed
  <2>2. NotYetIssued'
    BY <1>0, <1>t, <1>9 DEF N!Die, N!Goto, N!Fault, N!TypeOK, NotYetIssued
  <2>3. Offered'
    BY <1>0, <1>t, <1>9 DEF N!Die, N!Goto, N!Fault, N!TypeOK, Offered, Good, NotYetIssued, Given, N!Eligible
  <2>4. Given'
    BY <1>0, <1>t, <1>9 DEF N!Die, N!Goto, N!Fault, N!TypeOK, Given, Good, Offered, NotYetIssued, N!Eligible
  <2>5. N!GivenCodeWorks'
    BY <1>0, <1>t, <1>9 DEF N!Die, N!Goto, N!Fault, N!TypeOK, N!GivenCodeWorks, Given, NotYetIssued
  <2> QED BY <2>1, <2>2, <2>3, <2>4, <2>5
<1>10. ASSUME NEW c \in Callbacks, N!ExpireCode(c) PROVE Rest'
  <2>1. OneExchange'
    BY <1>0, <1>t, <1>10 DEF N!ExpireCode, N!TypeOK, OneExchange, Passed
  <2>2. NotYetIssued'
    BY <1>0, <1>t, <1>10 DEF N!ExpireCode, N!TypeOK, NotYetIssued
  <2>3. Offered'
    BY <1>0, <1>t, <1>10 DEF N!ExpireCode, N!TypeOK, Offered, Good, NotYetIssued, Given, N!Eligible
  <2>4. Given'
    BY <1>0, <1>t, <1>10 DEF N!ExpireCode, N!TypeOK, Given, Good, Offered, NotYetIssued, N!Eligible
  <2>5. N!GivenCodeWorks'
    BY <1>0, <1>t, <1>10 DEF N!ExpireCode, N!TypeOK, N!GivenCodeWorks, Given, NotYetIssued
  <2> QED BY <2>1, <2>2, <2>3, <2>4, <2>5
<1>11. ASSUME N!Poll PROVE Rest'
  <2>1. OneExchange'
    BY <1>0, <1>t, <1>11 DEF N!Poll, N!Readable, N!Delivered, N!TypeOK, OneExchange, Passed
  <2>2. NotYetIssued'
    BY <1>0, <1>t, <1>11 DEF N!Poll, N!Readable, N!Delivered, N!TypeOK, NotYetIssued
  <2>3. Offered'
    BY <1>0, <1>t, <1>11 DEF N!Poll, N!Readable, N!Delivered, N!TypeOK, Offered, Good, NotYetIssued, Given, N!Eligible
  <2>4. Given'
    BY <1>0, <1>t, <1>11 DEF N!Poll, N!Readable, N!Delivered, N!TypeOK, Given, Good, Offered, NotYetIssued, N!Eligible
  <2>5. N!GivenCodeWorks'
    BY <1>0, <1>t, <1>11 DEF N!Poll, N!Readable, N!Delivered, N!TypeOK, N!GivenCodeWorks, Given, NotYetIssued
  <2> QED BY <2>1, <2>2, <2>3, <2>4, <2>5
<1>12. ASSUME N!Consume PROVE Rest'
  <2>1. OneExchange'
    BY <1>0, <1>t, <1>12 DEF N!Consume, N!TypeOK, OneExchange, Passed
  <2>2. NotYetIssued'
    BY <1>0, <1>t, <1>12 DEF N!Consume, N!TypeOK, NotYetIssued
  <2>3. Offered'
    BY <1>0, <1>t, <1>12 DEF N!Consume, N!TypeOK, Offered, Good, NotYetIssued, Given, N!Eligible
  <2>4. Given'
    BY <1>0, <1>t, <1>12 DEF N!Consume, N!TypeOK, Given, Good, Offered, NotYetIssued, N!Eligible
  <2>5. N!GivenCodeWorks'
    BY <1>0, <1>t, <1>12 DEF N!Consume, N!TypeOK, N!GivenCodeWorks, Given, NotYetIssued
  <2> QED BY <2>1, <2>2, <2>3, <2>4, <2>5
<1>13. ASSUME N!IssueSession PROVE Rest'
  <2>1. OneExchange'
    BY <1>0, <1>t, <1>13 DEF N!IssueSession, N!Fault, N!TypeOK, OneExchange, Passed
  <2>2. NotYetIssued'
    BY <1>0, <1>t, <1>13 DEF N!IssueSession, N!Fault, N!TypeOK, NotYetIssued
  <2>3. Offered'
    BY <1>0, <1>t, <1>13 DEF N!IssueSession, N!Fault, N!TypeOK, Offered, Good, NotYetIssued, Given, N!Eligible
  <2>4. Given'
    BY <1>0, <1>t, <1>13 DEF N!IssueSession, N!Fault, N!TypeOK, Given, Good, Offered, NotYetIssued, N!Eligible
  <2>5. N!GivenCodeWorks'
    BY <1>0, <1>t, <1>13 DEF N!IssueSession, N!Fault, N!TypeOK, N!GivenCodeWorks, Given, NotYetIssued
  <2> QED BY <2>1, <2>2, <2>3, <2>4, <2>5
<1>14. ASSUME N!SignOut PROVE Rest'
  <2>1. OneExchange'
    BY <1>0, <1>t, <1>14 DEF N!SignOut, N!TypeOK, OneExchange, Passed
  <2>2. NotYetIssued'
    BY <1>0, <1>t, <1>14 DEF N!SignOut, N!TypeOK, NotYetIssued
  <2>3. Offered'
    BY <1>0, <1>t, <1>14 DEF N!SignOut, N!TypeOK, Offered, Good, NotYetIssued, Given, N!Eligible
  <2>4. Given'
    BY <1>0, <1>t, <1>14 DEF N!SignOut, N!TypeOK, Given, Good, Offered, NotYetIssued, N!Eligible
  <2>5. N!GivenCodeWorks'
    BY <1>0, <1>t, <1>14 DEF N!SignOut, N!TypeOK, N!GivenCodeWorks, Given, NotYetIssued
  <2> QED BY <2>1, <2>2, <2>3, <2>4, <2>5
<1>15. ASSUME N!ExpireHandoff PROVE Rest'
  <2>1. OneExchange'
    BY <1>0, <1>t, <1>15 DEF N!ExpireHandoff, N!TypeOK, OneExchange, Passed
  <2>2. NotYetIssued'
    BY <1>0, <1>t, <1>15 DEF N!ExpireHandoff, N!TypeOK, NotYetIssued
  <2>3. Offered'
    BY <1>0, <1>t, <1>15 DEF N!ExpireHandoff, N!TypeOK, Offered, Good, NotYetIssued, Given, N!Eligible
  <2>4. Given'
    BY <1>0, <1>t, <1>15 DEF N!ExpireHandoff, N!TypeOK, Given, Good, Offered, NotYetIssued, N!Eligible
  <2>5. N!GivenCodeWorks'
    BY <1>0, <1>t, <1>15 DEF N!ExpireHandoff, N!TypeOK, N!GivenCodeWorks, Given, NotYetIssued
  <2> QED BY <2>1, <2>2, <2>3, <2>4, <2>5
<1>16. ASSUME UNCHANGED N!vars PROVE Rest'
  <2>1. OneExchange'
    BY <1>0, <1>t, <1>16 DEF N!vars, N!TypeOK, OneExchange, Passed
  <2>2. NotYetIssued'
    BY <1>0, <1>t, <1>16 DEF N!vars, N!TypeOK, NotYetIssued
  <2>3. Offered'
    BY <1>0, <1>t, <1>16 DEF N!vars, N!TypeOK, Offered, Good, NotYetIssued, Given, N!Eligible
  <2>4. Given'
    BY <1>0, <1>t, <1>16 DEF N!vars, N!TypeOK, Given, Good, Offered, NotYetIssued, N!Eligible
  <2>5. N!GivenCodeWorks'
    BY <1>0, <1>t, <1>16 DEF N!vars, N!TypeOK, N!GivenCodeWorks, Given, NotYetIssued
  <2> QED BY <2>1, <2>2, <2>3, <2>4, <2>5
<1> QED
  BY <1>t, <1>1, <1>2, <1>3, <1>4, <1>5, <1>6, <1>7, <1>8, <1>9, <1>10, <1>11, <1>12, <1>13, <1>14, <1>15, <1>16 DEF SignInInv, N!Next, N!Browser

-----------------------------------------------------------------------------
(* A code given to the app signs it in unless something took it away, no    *)
(* session exists without a code consumed, and no code of Google makes two  *)
(* login codes: handle_google_callback and consume_bound_mobile_login_code. *)
THEOREM CodesHold == N!Spec => []SignInHolds
<1>1. SignInInv => SignInHolds
  BY DEF SignInInv, SignInHolds, N!SignInHolds, OneExchange, Passed, N!OneCodePerVisit
<1>2. SignInInv /\ [N!Next]_(N!vars) => SignInInv'
  BY SignInInvInductive
<1> QED
  BY SignInInvInitially, <1>1, <1>2, PTL DEF N!Spec

-----------------------------------------------------------------------------
(* The grants of one subject: the inductive invariants.                     *)

(* The stages of each kind of process.                                      *)
Revoking == {"revoking", "allRevoked", "oneInvalid", "completeAll", "completeOne"}
LoginStages ==
    {"idle", "consent", "unverified", "exchanged", "checking", "fresh", "upserting", "upserted",
     "storing", "cleanup", "severing", "severed", "fallback", "direct", "resolved",
     "done"} \cup Revoking
RequestStages ==
    {"idle", "waiting", "recording", "draining", "reading", "marking", "deleting",
     "done"} \cup Revoking
WorkerStages == {"idle", "claimed", "verifying"} \cup Revoking
ReaderStages == {"idle", "refreshed", "blocked"}

Staged ==
    /\ \A l \in Logins : pc[l] \in LoginStages
    /\ \A r \in Requests : pc[r] \in RequestStages
    /\ \A w \in Workers : pc[w] \in WorkerStages
    /\ pc[Reader] \in ReaderStages

(* What a process does between taking the subject lock and giving it back.  *)
InSubject ==
    Revoking \cup {"checking", "fresh", "upserting", "upserted", "storing", "cleanup", "severing",
                   "severed", "direct", "resolved", "recording", "draining", "reading", "marking",
                   "deleting", "verifying"}

(* Who is inside holds the lock, so at most one is; the same of the mail     *)
(* lock, which also keeps the reader out.                                   *)
LocksHeld ==
    /\ \A p \in Processes : pc[p] \in InSubject => subjectLock = p
    /\ \A l \in Logins : pc[l] \in {"storing", "severed"} => mailLock = l
    /\ \A r \in Requests :
          pc[r] \in Revoking \cup {"reading", "marking", "deleting"} => mailLock = r
    /\ mailLock # None => pc[Reader] = "idle"

(* The reader refreshes the credential that stays stored meanwhile.         *)
ReaderKeeps == pc[Reader] = "refreshed" => stored # None /\ stored = target[Reader]

(* How far the attempt of a grant has come.                                 *)
Tracked == Revoking \cup {"severing", "severed", "direct", "resolved", "done"}
GrantsCome ==
    /\ \A g \in live \cup killed : pc[g] \notin {"idle", "consent"}
    /\ stored # None => pc[stored] = "done"
    /\ \A g \in Logins : Active(g) => pc[g] \in Tracked
    /\ \A p \in Processes : target[p] # None => pc[target[p]] \notin {"idle", "consent"}

(* The barrier only rises, and a stored grant began after the last fence.   *)
Barrier ==
    /\ \A l \in Logins : started[l] <= epoch
    /\ tombstone <= epoch /\ fence <= tombstone
    /\ stored # None => fence < started[stored]

(* The user a callback works on.                                            *)
UserKnown ==
    /\ stored # None => user # None
    /\ \A l \in Logins :
         /\ pc[l] \in {"fresh", "upserting", "upserted", "storing", "cleanup"} => uid[l] = user
         /\ pc[l] \in {"upserted", "storing"} => user # None

(* A revocation is of a grant whose job is queued or running.               *)
TargetPends ==
    /\ \A p \in Processes :
          pc[p] \in Revoking \cup {"severing", "severed"} => target[p] # None /\ Active(target[p])
    /\ \A w \in Workers : pc[w] # "idle" => target[w] # None

Ground ==
    /\ TypeOK /\ Staged /\ LocksHeld /\ ReaderKeeps
    /\ GrantsCome /\ Barrier /\ UserKnown /\ TargetPends

(* Google's answer stands until the jobs it settles are completed.          *)
Answered ==
    \A p \in Processes :
        /\ pc[p] \in Revoking \ {"revoking"} => target[p] \notin live
        /\ pc[p] \in {"allRevoked", "completeAll"} => \A g \in live : ~Active(g)

(* A request holds on to the grant it will delete.                          *)
Taken ==
    \A r \in Requests :
        /\ pc[r] \in Revoking => stored = target[r]
        /\ pc[r] \in {"marking", "deleting"} =>
             stored = None \/ stored \notin live \/ Active(stored)

(* A callback past its check revokes the grant it was given.                *)
Own == \A l \in Logins : pc[l] \in {"severing", "direct", "resolved"} => target[l] = l

Accounted == Own /\ Answered /\ Taken /\ GrantsAreAccountedFor

(* A callback past its check stores a grant while no revocation is pending. *)
NonePends ==
    \A l \in Logins : pc[l] \in {"upserting", "upserted", "storing"} => ~PendingRevocation

(* A killed grant is too old to be stored, or a pending job says so; once    *)
(* the barrier is up it is too old.                                         *)
KilledIsOld ==
    /\ \A g \in killed : ~Fresh(g) \/ PendingRevocation
    /\ \A p \in Processes : pc[p] \in {"completeAll", "completeOne"} => \A g \in killed : ~Fresh(g)

Ending == Revoking \cup {"marking"}

(* A connected user with a revocation pending, or a killed grant, is being   *)
(* disconnected by the process in the lock.                                 *)
BeingCut ==
    /\ Connected /\ PendingRevocation =>
         \/ \E l \in Logins : pc[l] = "severing"
         \/ \E r \in Requests : pc[r] \in Ending
    /\ Connected /\ stored \in killed => \E r \in Requests : pc[r] \in Ending

Live == NonePends /\ KilledIsOld /\ BeingCut

(* A callback that could not enter the subject lock a second time enqueues   *)
(* the revocation of its grant outside it.                                  *)
GivesUp == \E l \in Logins : LoginTimesOut(l) /\ At(l, "fallback")

(* The steps by which a grant of this subject dies, or is marked for it,     *)
(* with nothing that keeps a connected user from standing on it:             *)
Strays ==
    \* a revocation outside the subject lock, with neither job nor barrier;
    \/ \E l \in Logins : RevokeUnverified(l) /\ live' # live
    \/ RevokeRefreshed /\ live' # live
    \* a callback that gave up on a lock, and revokes or enqueues all the same;
    \/ \E l \in Logins : RevokeUnstored(l) /\ live' # live
    \/ \E l \in Logins : LoginTimesOut(l) /\ pc[l] \in {"fallback", "severing"}
    \* the process that was about to disconnect the connected user dies.
    \/ \E l \in Logins : Crash(l) /\ Connected /\ pc[l] = "severing"
    \/ \E r \in Requests : Crash(r) /\ Connected /\ pc[r] \in Ending

-----------------------------------------------------------------------------
(* The roles of the processes are apart.                                    *)
LEMMA Roles ==
    /\ Logins \subseteq Processes /\ Requests \subseteq Processes /\ Workers \subseteq Processes
    /\ Disconnects \subseteq Requests /\ Deletions \subseteq Requests
    /\ Reader \in Processes /\ None \notin Processes /\ None \notin Logins
    /\ \A l \in Logins : l \notin Requests /\ l \notin Workers /\ l # Reader /\ l # None
    /\ \A r \in Requests : r \notin Workers /\ r \notin Logins /\ r # Reader /\ r # None
    /\ \A w \in Workers : w # Reader /\ w # None /\ w \notin Logins /\ w \notin Requests
    /\ \A p \in Processes : p \in Logins \/ p \in Requests \/ p \in Workers \/ p = Reader
    /\ "none" \notin Workers /\ "queued" \notin Workers /\ "succeeded" \notin Workers
    /\ MaxFaults \in Nat /\ LockTimeouts \in BOOLEAN /\ UnlockedRevocations \in BOOLEAN
  BY GrantAssumption DEF GrantAssumption, Processes, Requests

(* Every step keeps the ground the rest stands on.                          *)
LEMMA GroundInductive ==
  ASSUME TypeOK, Staged, LocksHeld, ReaderKeeps, GrantsCome, Barrier, UserKnown, TargetPends,
         [Next]_vars
  PROVE  Ground'
<1> USE DEF procVars, rowVars, barrier, locks, google, history, Goto, At, Fault, Active, Fresh,
   RaiseBarrier, SetGuard, MailFree, LeaveSubject, AfterRevocation, ProjectRevoked, Unanswered,
   Enqueue, AskGoogle, CompletedJobs, GiveBack, Revoking, InSubject, Tracked, LoginStages,
   RequestStages, WorkerStages, ReaderStages, Stages, PendingRevocation, HoldsGrant, Connected,
   Ending
<1>1. ASSUME NEW l \in Logins, StartLogin(l) PROVE Ground'
  <2>1. TypeOK'
    BY <1>1, Roles DEF StartLogin, TypeOK
  <2>2. Staged' /\ LocksHeld'
    BY <1>1, Roles DEF StartLogin, Staged, LocksHeld, TypeOK
  <2>3. ReaderKeeps' /\ GrantsCome' /\ Barrier' /\ UserKnown' /\ TargetPends'
    BY <1>1, Roles DEF StartLogin, ReaderKeeps, GrantsCome, Barrier, UserKnown, TargetPends,
       TypeOK, Staged, LocksHeld
  <2> QED BY <2>1, <2>2, <2>3 DEF Ground
<1>2. ASSUME NEW l \in Logins, ExchangeCode(l) PROVE Ground'
  <2>1. TypeOK'
    BY <1>2, Roles DEF ExchangeCode, TypeOK
  <2>2. Staged' /\ LocksHeld'
    BY <1>2, Roles DEF ExchangeCode, Staged, LocksHeld, TypeOK
  <2>3. ReaderKeeps' /\ GrantsCome' /\ Barrier' /\ UserKnown' /\ TargetPends'
    BY <1>2, Roles DEF ExchangeCode, ReaderKeeps, GrantsCome, Barrier, UserKnown, TargetPends,
       TypeOK, Staged, LocksHeld
  <2> QED BY <2>1, <2>2, <2>3 DEF Ground
<1>3. ASSUME NEW l \in Logins, RevokeUnverified(l) PROVE Ground'
  <2>1. TypeOK'
    BY <1>3, Roles DEF RevokeUnverified, TypeOK
  <2>2. Staged' /\ LocksHeld'
    BY <1>3, Roles DEF RevokeUnverified, Staged, LocksHeld, TypeOK
  <2>3. ReaderKeeps' /\ GrantsCome' /\ Barrier' /\ UserKnown' /\ TargetPends'
    BY <1>3, Roles DEF RevokeUnverified, ReaderKeeps, GrantsCome, Barrier, UserKnown,
       TargetPends, TypeOK, Staged, LocksHeld
  <2> QED BY <2>1, <2>2, <2>3 DEF Ground
<1>4. ASSUME NEW l \in Logins, LoginEnters(l) PROVE Ground'
  <2>1. TypeOK'
    BY <1>4, Roles DEF LoginEnters, TypeOK
  <2>2. Staged' /\ LocksHeld'
    BY <1>4, Roles DEF LoginEnters, Staged, LocksHeld, TypeOK
  <2>3. ReaderKeeps' /\ GrantsCome' /\ Barrier' /\ UserKnown' /\ TargetPends'
    BY <1>4, Roles DEF LoginEnters, ReaderKeeps, GrantsCome, Barrier, UserKnown, TargetPends,
       TypeOK, Staged, LocksHeld
  <2> QED BY <2>1, <2>2, <2>3 DEF Ground
<1>5. ASSUME NEW l \in Logins, CheckFresh(l) PROVE Ground'
  <2>1. TypeOK'
    BY <1>5, Roles DEF CheckFresh, TypeOK
  <2>2. Staged' /\ LocksHeld'
    BY <1>5, Roles DEF CheckFresh, Staged, LocksHeld, TypeOK
  <2>3. ReaderKeeps' /\ GrantsCome' /\ Barrier' /\ UserKnown' /\ TargetPends'
    BY <1>5, Roles DEF CheckFresh, ReaderKeeps, GrantsCome, Barrier, UserKnown, TargetPends,
       TypeOK, Staged, LocksHeld
  <2> QED BY <2>1, <2>2, <2>3 DEF Ground
<1>6. ASSUME NEW l \in Logins, CheckPending(l) PROVE Ground'
  <2>1. TypeOK'
    BY <1>6, Roles DEF CheckPending, TypeOK
  <2>2. Staged' /\ LocksHeld'
    BY <1>6, Roles DEF CheckPending, Staged, LocksHeld, TypeOK
  <2>3. ReaderKeeps' /\ GrantsCome' /\ Barrier' /\ UserKnown' /\ TargetPends'
    BY <1>6, Roles DEF CheckPending, ReaderKeeps, GrantsCome, Barrier, UserKnown, TargetPends,
       TypeOK, Staged, LocksHeld
  <2> QED BY <2>1, <2>2, <2>3 DEF Ground
<1>7. ASSUME NEW l \in Logins, UpsertUser(l) PROVE Ground'
  <2>1. TypeOK'
    BY <1>7, Roles DEF UpsertUser, TypeOK
  <2>2. Staged' /\ LocksHeld'
    BY <1>7, Roles DEF UpsertUser, Staged, LocksHeld, TypeOK
  <2>3. ReaderKeeps' /\ GrantsCome' /\ Barrier' /\ UserKnown' /\ TargetPends'
    BY <1>7, Roles DEF UpsertUser, ReaderKeeps, GrantsCome, Barrier, UserKnown, TargetPends,
       TypeOK, Staged, LocksHeld
  <2> QED BY <2>1, <2>2, <2>3 DEF Ground
<1>8. ASSUME NEW l \in Logins, LoginLocksMail(l) PROVE Ground'
  <2>1. TypeOK'
    BY <1>8, Roles DEF LoginLocksMail, TypeOK
  <2>2. Staged' /\ LocksHeld'
    BY <1>8, Roles DEF LoginLocksMail, Staged, LocksHeld, TypeOK
  <2>3. ReaderKeeps' /\ GrantsCome' /\ Barrier' /\ UserKnown' /\ TargetPends'
    BY <1>8, Roles DEF LoginLocksMail, ReaderKeeps, GrantsCome, Barrier, UserKnown, TargetPends,
       TypeOK, Staged, LocksHeld
  <2> QED BY <2>1, <2>2, <2>3 DEF Ground
<1>9. ASSUME NEW l \in Logins, Reconnect(l) PROVE Ground'
  <2>1. TypeOK'
    <3>1. pc' \in [Processes -> Stages]
      BY <1>9, Roles DEF Reconnect, TypeOK
    <3>3. dropped' \subseteq Logins
      BY <1>9, Roles DEF Reconnect, TypeOK
    <3>2. subjectLock' \in Processes \cup {None} /\ mailLock' \in Processes \cup {None}
      BY <1>9, Roles DEF Reconnect, TypeOK
    <3> QED BY <1>9, <3>1, <3>2, <3>3 DEF Reconnect, TypeOK
  <2>2. Staged' /\ LocksHeld'
    BY <1>9, Roles DEF Reconnect, Staged, LocksHeld, TypeOK
  <2>3. ReaderKeeps' /\ GrantsCome' /\ Barrier' /\ UserKnown' /\ TargetPends'
    BY <1>9, Roles DEF Reconnect, ReaderKeeps, GrantsCome, Barrier, UserKnown, TargetPends,
       TypeOK, Staged, LocksHeld
  <2> QED BY <2>1, <2>2, <2>3 DEF Ground
<1>10. ASSUME NEW l \in Logins, TrackUnstored(l) PROVE Ground'
  <2>1. TypeOK'
    BY <1>10, Roles DEF TrackUnstored, TypeOK
  <2>2. Staged' /\ LocksHeld'
    BY <1>10, Roles DEF TrackUnstored, Staged, LocksHeld, TypeOK
  <2>3. ReaderKeeps' /\ GrantsCome' /\ Barrier' /\ UserKnown' /\ TargetPends'
    BY <1>10, Roles DEF TrackUnstored, ReaderKeeps, GrantsCome, Barrier, UserKnown, TargetPends,
       TypeOK, Staged, LocksHeld
  <2> QED BY <2>1, <2>2, <2>3 DEF Ground
<1>11. ASSUME NEW l \in Logins, DeleteSeveredToken(l) PROVE Ground'
  <2>1. TypeOK'
    BY <1>11, Roles DEF DeleteSeveredToken, TypeOK
  <2>2. Staged' /\ LocksHeld'
    BY <1>11, Roles DEF DeleteSeveredToken, Staged, LocksHeld, TypeOK
  <2>3. ReaderKeeps' /\ GrantsCome' /\ Barrier' /\ UserKnown' /\ TargetPends'
    BY <1>11, Roles DEF DeleteSeveredToken, ReaderKeeps, GrantsCome, Barrier, UserKnown,
       TargetPends, TypeOK, Staged, LocksHeld
  <2> QED BY <2>1, <2>2, <2>3 DEF Ground
<1>12. ASSUME NEW l \in Logins, MarkSevered(l) PROVE Ground'
  <2>1. TypeOK'
    BY <1>12, Roles DEF MarkSevered, TypeOK
  <2>2. Staged' /\ LocksHeld'
    BY <1>12, Roles DEF MarkSevered, Staged, LocksHeld, TypeOK
  <2>3. ReaderKeeps' /\ GrantsCome' /\ Barrier' /\ UserKnown' /\ TargetPends'
    BY <1>12, Roles DEF MarkSevered, ReaderKeeps, GrantsCome, Barrier, UserKnown, TargetPends,
       TypeOK, Staged, LocksHeld
  <2> QED BY <2>1, <2>2, <2>3 DEF Ground
<1>13. ASSUME NEW l \in Logins, LoginTimesOut(l) PROVE Ground'
  <2>1. TypeOK'
    BY <1>13, Roles DEF LoginTimesOut, TypeOK
  <2>2. Staged' /\ LocksHeld'
    BY <1>13, Roles DEF LoginTimesOut, Staged, LocksHeld, TypeOK
  <2>3. ReaderKeeps' /\ GrantsCome' /\ Barrier' /\ UserKnown' /\ TargetPends'
    BY <1>13, Roles DEF LoginTimesOut, ReaderKeeps, GrantsCome, Barrier, UserKnown, TargetPends,
       TypeOK, Staged, LocksHeld
  <2> QED BY <2>1, <2>2, <2>3 DEF Ground
<1>14. ASSUME NEW l \in Logins, FallbackEnters(l) PROVE Ground'
  <2>1. TypeOK'
    BY <1>14, Roles DEF FallbackEnters, TypeOK
  <2>2. Staged' /\ LocksHeld'
    BY <1>14, Roles DEF FallbackEnters, Staged, LocksHeld, TypeOK
  <2>3. ReaderKeeps' /\ GrantsCome' /\ Barrier' /\ UserKnown' /\ TargetPends'
    BY <1>14, Roles DEF FallbackEnters, ReaderKeeps, GrantsCome, Barrier, UserKnown,
       TargetPends, TypeOK, Staged, LocksHeld
  <2> QED BY <2>1, <2>2, <2>3 DEF Ground
<1>15. ASSUME NEW l \in Logins, RevokeUnstored(l) PROVE Ground'
  <2>1. TypeOK'
    BY <1>15, Roles DEF RevokeUnstored, TypeOK
  <2>2. Staged' /\ LocksHeld'
    BY <1>15, Roles DEF RevokeUnstored, Staged, LocksHeld, TypeOK
  <2>3. ReaderKeeps' /\ GrantsCome' /\ Barrier' /\ UserKnown' /\ TargetPends'
    BY <1>15, Roles DEF RevokeUnstored, ReaderKeeps, GrantsCome, Barrier, UserKnown,
       TargetPends, TypeOK, Staged, LocksHeld
  <2> QED BY <2>1, <2>2, <2>3 DEF Ground
<1>16. ASSUME NEW l \in Logins, RecordUnstored(l) PROVE Ground'
  <2>1. TypeOK'
    BY <1>16, Roles DEF RecordUnstored, TypeOK
  <2>2. Staged' /\ LocksHeld'
    BY <1>16, Roles DEF RecordUnstored, Staged, LocksHeld, TypeOK
  <2>3. ReaderKeeps' /\ GrantsCome' /\ Barrier' /\ UserKnown' /\ TargetPends'
    BY <1>16, Roles DEF RecordUnstored, ReaderKeeps, GrantsCome, Barrier, UserKnown,
       TargetPends, TypeOK, Staged, LocksHeld
  <2> QED BY <2>1, <2>2, <2>3 DEF Ground
<1>17. ASSUME NEW r \in Requests, Request(r) PROVE Ground'
  <2>1. TypeOK'
    BY <1>17, Roles DEF Request, TypeOK
  <2>2. Staged' /\ LocksHeld'
    BY <1>17, Roles DEF Request, Staged, LocksHeld, TypeOK
  <2>3. ReaderKeeps' /\ GrantsCome' /\ Barrier' /\ UserKnown' /\ TargetPends'
    BY <1>17, Roles DEF Request, ReaderKeeps, GrantsCome, Barrier, UserKnown, TargetPends,
       TypeOK, Staged, LocksHeld
  <2> QED BY <2>1, <2>2, <2>3 DEF Ground
<1>18. ASSUME NEW r \in Requests, RequestEnters(r) PROVE Ground'
  <2>1. TypeOK'
    BY <1>18, Roles DEF RequestEnters, TypeOK
  <2>2. Staged' /\ LocksHeld'
    BY <1>18, Roles DEF RequestEnters, Staged, LocksHeld, TypeOK
  <2>3. ReaderKeeps' /\ GrantsCome' /\ Barrier' /\ UserKnown' /\ TargetPends'
    BY <1>18, Roles DEF RequestEnters, ReaderKeeps, GrantsCome, Barrier, UserKnown, TargetPends,
       TypeOK, Staged, LocksHeld
  <2> QED BY <2>1, <2>2, <2>3 DEF Ground
<1>19. ASSUME NEW r \in Requests, RecordRequest(r) PROVE Ground'
  <2>1. TypeOK'
    BY <1>19, Roles DEF RecordRequest, TypeOK
  <2>2. Staged' /\ LocksHeld'
    BY <1>19, Roles DEF RecordRequest, Staged, LocksHeld, TypeOK
  <2>3. ReaderKeeps' /\ GrantsCome' /\ Barrier' /\ UserKnown' /\ TargetPends'
    BY <1>19, Roles DEF RecordRequest, ReaderKeeps, GrantsCome, Barrier, UserKnown, TargetPends,
       TypeOK, Staged, LocksHeld
  <2> QED BY <2>1, <2>2, <2>3 DEF Ground
<1>20. ASSUME NEW r \in Requests, DrainMail(r) PROVE Ground'
  <2>1. TypeOK'
    BY <1>20, Roles DEF DrainMail, TypeOK
  <2>2. Staged' /\ LocksHeld'
    BY <1>20, Roles DEF DrainMail, Staged, LocksHeld, TypeOK
  <2>3. ReaderKeeps' /\ GrantsCome' /\ Barrier' /\ UserKnown' /\ TargetPends'
    BY <1>20, Roles DEF DrainMail, ReaderKeeps, GrantsCome, Barrier, UserKnown, TargetPends,
       TypeOK, Staged, LocksHeld
  <2> QED BY <2>1, <2>2, <2>3 DEF Ground
<1>21. ASSUME NEW r \in Requests, TrackStored(r) PROVE Ground'
  <2>1. TypeOK'
    BY <1>21, Roles DEF TrackStored, TypeOK
  <2>2. Staged' /\ LocksHeld'
    BY <1>21, Roles DEF TrackStored, Staged, LocksHeld, TypeOK
  <2>3. ReaderKeeps' /\ GrantsCome' /\ Barrier' /\ UserKnown' /\ TargetPends'
    BY <1>21, Roles DEF TrackStored, ReaderKeeps, GrantsCome, Barrier, UserKnown, TargetPends,
       TypeOK, Staged, LocksHeld
  <2> QED BY <2>1, <2>2, <2>3 DEF Ground
<1>22. ASSUME NEW r \in Requests, CannotSecure(r) PROVE Ground'
  <2>1. TypeOK'
    BY <1>22, Roles DEF CannotSecure, TypeOK
  <2>2. Staged' /\ LocksHeld'
    BY <1>22, Roles DEF CannotSecure, Staged, LocksHeld, TypeOK
  <2>3. ReaderKeeps' /\ GrantsCome' /\ Barrier' /\ UserKnown' /\ TargetPends'
    BY <1>22, Roles DEF CannotSecure, ReaderKeeps, GrantsCome, Barrier, UserKnown, TargetPends,
       TypeOK, Staged, LocksHeld
  <2> QED BY <2>1, <2>2, <2>3 DEF Ground
<1>23. ASSUME NEW r \in Requests, MarkDisconnected(r) PROVE Ground'
  <2>1. TypeOK'
    BY <1>23, Roles DEF MarkDisconnected, TypeOK
  <2>2. Staged' /\ LocksHeld'
    BY <1>23, Roles DEF MarkDisconnected, Staged, LocksHeld, TypeOK
  <2>3. ReaderKeeps' /\ GrantsCome' /\ Barrier' /\ UserKnown' /\ TargetPends'
    BY <1>23, Roles DEF MarkDisconnected, ReaderKeeps, GrantsCome, Barrier, UserKnown,
       TargetPends, TypeOK, Staged, LocksHeld
  <2> QED BY <2>1, <2>2, <2>3 DEF Ground
<1>24. ASSUME NEW r \in Requests, DeleteStored(r) PROVE Ground'
  <2>1. TypeOK'
    <3>1. pc' \in [Processes -> Stages]
      BY <1>24, Roles DEF DeleteStored, TypeOK
    <3>2. subjectLock' \in Processes \cup {None} /\ mailLock' \in Processes \cup {None}
      BY <1>24, Roles DEF DeleteStored, TypeOK
    <3>3. epoch' \in Nat /\ tombstone' \in Nat /\ fence' \in Nat
      BY <1>24, Roles DEF DeleteStored, TypeOK
    <3> QED BY <1>24, <3>1, <3>2, <3>3 DEF DeleteStored, TypeOK
  <2>2. Staged' /\ LocksHeld'
    BY <1>24, Roles DEF DeleteStored, Staged, LocksHeld, TypeOK
  <2>3. ReaderKeeps' /\ GrantsCome' /\ Barrier' /\ UserKnown' /\ TargetPends'
    BY <1>24, Roles DEF DeleteStored, ReaderKeeps, GrantsCome, Barrier, UserKnown, TargetPends,
       TypeOK, Staged, LocksHeld
  <2> QED BY <2>1, <2>2, <2>3 DEF Ground
<1>25. ASSUME NEW r \in Requests, RequestTimesOut(r) PROVE Ground'
  <2>1. TypeOK'
    BY <1>25, Roles DEF RequestTimesOut, TypeOK
  <2>2. Staged' /\ LocksHeld'
    BY <1>25, Roles DEF RequestTimesOut, Staged, LocksHeld, TypeOK
  <2>3. ReaderKeeps' /\ GrantsCome' /\ Barrier' /\ UserKnown' /\ TargetPends'
    BY <1>25, Roles DEF RequestTimesOut, ReaderKeeps, GrantsCome, Barrier, UserKnown,
       TargetPends, TypeOK, Staged, LocksHeld
  <2> QED BY <2>1, <2>2, <2>3 DEF Ground
<1>26. ASSUME NEW w \in Workers, NEW g \in Logins, ClaimRevocation(w, g) PROVE Ground'
  <2>1. TypeOK'
    BY <1>26, Roles DEF ClaimRevocation, TypeOK
  <2>2. Staged' /\ LocksHeld'
    BY <1>26, Roles DEF ClaimRevocation, Staged, LocksHeld, TypeOK
  <2>3. ReaderKeeps' /\ GrantsCome' /\ Barrier' /\ UserKnown' /\ TargetPends'
    BY <1>26, Roles DEF ClaimRevocation, ReaderKeeps, GrantsCome, Barrier, UserKnown,
       TargetPends, TypeOK, Staged, LocksHeld
  <2> QED BY <2>1, <2>2, <2>3 DEF Ground
<1>27. ASSUME NEW w \in Workers, WorkerEnters(w) PROVE Ground'
  <2>1. TypeOK'
    BY <1>27, Roles DEF WorkerEnters, TypeOK
  <2>2. Staged' /\ LocksHeld'
    BY <1>27, Roles DEF WorkerEnters, Staged, LocksHeld, TypeOK
  <2>3. ReaderKeeps' /\ GrantsCome' /\ Barrier' /\ UserKnown' /\ TargetPends'
    BY <1>27, Roles DEF WorkerEnters, ReaderKeeps, GrantsCome, Barrier, UserKnown, TargetPends,
       TypeOK, Staged, LocksHeld
  <2> QED BY <2>1, <2>2, <2>3 DEF Ground
<1>28. ASSUME NEW w \in Workers, WorkerVerifies(w) PROVE Ground'
  <2>1. TypeOK'
    BY <1>28, Roles DEF WorkerVerifies, TypeOK
  <2>2. Staged' /\ LocksHeld'
    BY <1>28, Roles DEF WorkerVerifies, Staged, LocksHeld, TypeOK
  <2>3. ReaderKeeps' /\ GrantsCome' /\ Barrier' /\ UserKnown' /\ TargetPends'
    BY <1>28, Roles DEF WorkerVerifies, ReaderKeeps, GrantsCome, Barrier, UserKnown,
       TargetPends, TypeOK, Staged, LocksHeld
  <2> QED BY <2>1, <2>2, <2>3 DEF Ground
<1>29. ASSUME NEW w \in Workers, WorkerFails(w) PROVE Ground'
  <2>1. TypeOK'
    BY <1>29, Roles DEF WorkerFails, TypeOK, TargetPends
  <2>2. Staged' /\ LocksHeld'
    BY <1>29, Roles DEF WorkerFails, Staged, LocksHeld, TypeOK
  <2>3. ReaderKeeps' /\ GrantsCome' /\ Barrier' /\ UserKnown' /\ TargetPends'
    BY <1>29, Roles DEF WorkerFails, ReaderKeeps, GrantsCome, Barrier, UserKnown, TargetPends,
       TypeOK, Staged, LocksHeld
  <2> QED BY <2>1, <2>2, <2>3 DEF Ground
<1>30. ASSUME NEW w \in Workers, WorkerRevokes(w) PROVE Ground'
  <2>1. TypeOK'
    BY <1>30, Roles DEF WorkerRevokes, TypeOK
  <2>2. Staged' /\ LocksHeld'
    BY <1>30, Roles DEF WorkerRevokes, Staged, LocksHeld, TypeOK
  <2>3. ReaderKeeps' /\ GrantsCome' /\ Barrier' /\ UserKnown' /\ TargetPends'
    BY <1>30, Roles DEF WorkerRevokes, ReaderKeeps, GrantsCome, Barrier, UserKnown, TargetPends,
       TypeOK, Staged, LocksHeld
  <2> QED BY <2>1, <2>2, <2>3 DEF Ground
<1>31. ASSUME NEW p \in Processes, RevokeTracked(p) PROVE Ground'
  <2>1. TypeOK'
    BY <1>31, Roles DEF RevokeTracked, TypeOK
  <2>2. Staged' /\ LocksHeld'
    BY <1>31, Roles DEF RevokeTracked, Staged, LocksHeld, TypeOK
  <2>3. ReaderKeeps' /\ GrantsCome' /\ Barrier' /\ UserKnown' /\ TargetPends'
    BY <1>31, Roles DEF RevokeTracked, ReaderKeeps, GrantsCome, Barrier, UserKnown, TargetPends,
       TypeOK, Staged, LocksHeld
  <2> QED BY <2>1, <2>2, <2>3 DEF Ground
<1>32. ASSUME NEW p \in Processes, RecordRevocation(p) PROVE Ground'
  <2>1. TypeOK'
    BY <1>32, Roles DEF RecordRevocation, TypeOK
  <2>2. Staged' /\ LocksHeld'
    BY <1>32, Roles DEF RecordRevocation, Staged, LocksHeld, TypeOK
  <2>3. ReaderKeeps' /\ GrantsCome' /\ Barrier' /\ UserKnown' /\ TargetPends'
    BY <1>32, Roles DEF RecordRevocation, ReaderKeeps, GrantsCome, Barrier, UserKnown,
       TargetPends, TypeOK, Staged, LocksHeld
  <2> QED BY <2>1, <2>2, <2>3 DEF Ground
<1>33. ASSUME NEW p \in Processes, CompleteRevocation(p) PROVE Ground'
  <2>1. TypeOK'
    BY <1>33, Roles DEF CompleteRevocation, TypeOK
  <2>2. Staged' /\ LocksHeld'
    BY <1>33, Roles DEF CompleteRevocation, Staged, LocksHeld, TypeOK
  <2>3. ReaderKeeps' /\ GrantsCome' /\ Barrier' /\ UserKnown' /\ TargetPends'
    BY <1>33, Roles DEF CompleteRevocation, ReaderKeeps, GrantsCome, Barrier, UserKnown,
       TargetPends, TypeOK, Staged, LocksHeld
  <2> QED BY <2>1, <2>2, <2>3 DEF Ground
<1>34. ASSUME RefreshCredential PROVE Ground'
  <2>1. TypeOK'
    BY <1>34, Roles DEF RefreshCredential, TypeOK
  <2>2. Staged' /\ LocksHeld'
    BY <1>34, Roles DEF RefreshCredential, Staged, LocksHeld, TypeOK
  <2>3. ReaderKeeps' /\ GrantsCome' /\ Barrier' /\ UserKnown' /\ TargetPends'
    BY <1>34, Roles DEF RefreshCredential, ReaderKeeps, GrantsCome, Barrier, UserKnown,
       TargetPends, TypeOK, Staged, LocksHeld
  <2> QED BY <2>1, <2>2, <2>3 DEF Ground
<1>35. ASSUME PersistRefresh PROVE Ground'
  <2>1. TypeOK'
    BY <1>35, Roles DEF PersistRefresh, TypeOK
  <2>2. Staged' /\ LocksHeld'
    BY <1>35, Roles DEF PersistRefresh, Staged, LocksHeld, TypeOK
  <2>3. ReaderKeeps' /\ GrantsCome' /\ Barrier' /\ UserKnown' /\ TargetPends'
    BY <1>35, Roles DEF PersistRefresh, ReaderKeeps, GrantsCome, Barrier, UserKnown,
       TargetPends, TypeOK, Staged, LocksHeld
  <2> QED BY <2>1, <2>2, <2>3 DEF Ground
<1>36. ASSUME RevokeRefreshed PROVE Ground'
  <2>1. TypeOK'
    BY <1>36, Roles DEF RevokeRefreshed, TypeOK
  <2>2. Staged' /\ LocksHeld'
    BY <1>36, Roles DEF RevokeRefreshed, Staged, LocksHeld, TypeOK
  <2>3. ReaderKeeps' /\ GrantsCome' /\ Barrier' /\ UserKnown' /\ TargetPends'
    BY <1>36, Roles DEF RevokeRefreshed, ReaderKeeps, GrantsCome, Barrier, UserKnown,
       TargetPends, TypeOK, Staged, LocksHeld
  <2> QED BY <2>1, <2>2, <2>3 DEF Ground
<1>37. ASSUME LoseAuthorization PROVE Ground'
  <2>1. TypeOK'
    BY <1>37, Roles DEF LoseAuthorization, TypeOK
  <2>2. Staged' /\ LocksHeld'
    BY <1>37, Roles DEF LoseAuthorization, Staged, LocksHeld, TypeOK
  <2>3. ReaderKeeps' /\ GrantsCome' /\ Barrier' /\ UserKnown' /\ TargetPends'
    BY <1>37, Roles DEF LoseAuthorization, ReaderKeeps, GrantsCome, Barrier, UserKnown,
       TargetPends, TypeOK, Staged, LocksHeld
  <2> QED BY <2>1, <2>2, <2>3 DEF Ground
<1>38. ASSUME NEW g \in Logins, GrantExpires(g) PROVE Ground'
  <2>1. TypeOK'
    BY <1>38, Roles DEF GrantExpires, TypeOK
  <2>2. Staged' /\ LocksHeld'
    BY <1>38, Roles DEF GrantExpires, Staged, LocksHeld, TypeOK
  <2>3. ReaderKeeps' /\ GrantsCome' /\ Barrier' /\ UserKnown' /\ TargetPends'
    BY <1>38, Roles DEF GrantExpires, ReaderKeeps, GrantsCome, Barrier, UserKnown, TargetPends,
       TypeOK, Staged, LocksHeld
  <2> QED BY <2>1, <2>2, <2>3 DEF Ground
<1>39. ASSUME NEW g \in Logins, LeaseExpires(g) PROVE Ground'
  <2>1. TypeOK'
    BY <1>39, Roles DEF LeaseExpires, TypeOK
  <2>2. Staged' /\ LocksHeld'
    BY <1>39, Roles DEF LeaseExpires, Staged, LocksHeld, TypeOK
  <2>3. ReaderKeeps' /\ GrantsCome' /\ Barrier' /\ UserKnown' /\ TargetPends'
    BY <1>39, Roles DEF LeaseExpires, ReaderKeeps, GrantsCome, Barrier, UserKnown, TargetPends,
       TypeOK, Staged, LocksHeld
  <2> QED BY <2>1, <2>2, <2>3 DEF Ground
<1>40. ASSUME NEW p \in Processes, Crash(p) PROVE Ground'
  <2>1. TypeOK'
    BY <1>40, Roles DEF Crash, TypeOK
  <2>2. Staged' /\ LocksHeld'
    BY <1>40, Roles DEF Crash, Staged, LocksHeld, TypeOK
  <2>3. ReaderKeeps' /\ GrantsCome' /\ Barrier' /\ UserKnown' /\ TargetPends'
    BY <1>40, Roles DEF Crash, ReaderKeeps, GrantsCome, Barrier, UserKnown, TargetPends, TypeOK,
       Staged, LocksHeld
  <2> QED BY <2>1, <2>2, <2>3 DEF Ground
<1>41. CASE UNCHANGED vars
  BY <1>41 DEF Ground, vars, TypeOK, Staged, LocksHeld, ReaderKeeps, GrantsCome, Barrier,
     UserKnown, TargetPends
<1> QED
  BY <1>1, <1>2, <1>3, <1>4, <1>5, <1>6, <1>7, <1>8, <1>9, <1>10, <1>11, <1>12, <1>13, <1>14,
     <1>15, <1>16, <1>17, <1>18, <1>19, <1>20, <1>21, <1>22, <1>23, <1>24, <1>25, <1>26, <1>27,
     <1>28, <1>29, <1>30, <1>31, <1>32, <1>33, <1>34, <1>35, <1>36, <1>37, <1>38, <1>39, <1>40,
     <1>41
     DEF Next, LoginStep, RequestStep, WorkerStep, RevocationStep, ReaderStep

(* Every step keeps each live grant in somebody's hands.                    *)
LEMMA AccountedInductive ==
  ASSUME TypeOK, Staged, LocksHeld, ReaderKeeps, GrantsCome, Barrier, UserKnown, TargetPends,
         Own, Answered, Taken, GrantsAreAccountedFor, ~GivesUp, [Next]_vars
  PROVE  Accounted'
<1> USE DEF procVars, rowVars, barrier, locks, google, history, Goto, At, Fault, Active, Fresh,
   RaiseBarrier, SetGuard, MailFree, LeaveSubject, AfterRevocation, ProjectRevoked, Unanswered,
   Enqueue, AskGoogle, CompletedJobs, GiveBack, Revoking, InSubject, Tracked, LoginStages,
   RequestStages, WorkerStages, ReaderStages, Stages, PendingRevocation, HoldsGrant, Connected,
   Ending
<1>1. ASSUME NEW l \in Logins, StartLogin(l) PROVE Accounted'
  BY <1>1, Roles DEF StartLogin, Own, Answered, Taken, GrantsAreAccountedFor, TypeOK,
     Staged, LocksHeld, ReaderKeeps, GrantsCome, TargetPends, Accounted
<1>2. ASSUME NEW l \in Logins, ExchangeCode(l) PROVE Accounted'
  BY <1>2, Roles DEF ExchangeCode, Own, Answered, Taken, GrantsAreAccountedFor, TypeOK,
     Staged, LocksHeld, ReaderKeeps, GrantsCome, TargetPends, Accounted
<1>3. ASSUME NEW l \in Logins, RevokeUnverified(l) PROVE Accounted'
  BY <1>3, Roles DEF RevokeUnverified, Own, Answered, Taken, GrantsAreAccountedFor,
     TypeOK, Staged, LocksHeld, ReaderKeeps, GrantsCome, TargetPends, Accounted
<1>4. ASSUME NEW l \in Logins, LoginEnters(l) PROVE Accounted'
  BY <1>4, Roles DEF LoginEnters, Own, Answered, Taken, GrantsAreAccountedFor, TypeOK,
     Staged, LocksHeld, ReaderKeeps, GrantsCome, TargetPends, Accounted
<1>5. ASSUME NEW l \in Logins, CheckFresh(l) PROVE Accounted'
  BY <1>5, Roles DEF CheckFresh, Own, Answered, Taken, GrantsAreAccountedFor, TypeOK,
     Staged, LocksHeld, ReaderKeeps, GrantsCome, TargetPends, Accounted
<1>6. ASSUME NEW l \in Logins, CheckPending(l) PROVE Accounted'
  BY <1>6, Roles DEF CheckPending, Own, Answered, Taken, GrantsAreAccountedFor, TypeOK,
     Staged, LocksHeld, ReaderKeeps, GrantsCome, TargetPends, Accounted
<1>7. ASSUME NEW l \in Logins, UpsertUser(l) PROVE Accounted'
  BY <1>7, Roles DEF UpsertUser, Own, Answered, Taken, GrantsAreAccountedFor, TypeOK,
     Staged, LocksHeld, ReaderKeeps, GrantsCome, TargetPends, Accounted
<1>8. ASSUME NEW l \in Logins, LoginLocksMail(l) PROVE Accounted'
  BY <1>8, Roles DEF LoginLocksMail, Own, Answered, Taken, GrantsAreAccountedFor, TypeOK,
     Staged, LocksHeld, ReaderKeeps, GrantsCome, TargetPends, Accounted
<1>9. ASSUME NEW l \in Logins, Reconnect(l) PROVE Accounted'
  BY <1>9, Roles DEF Reconnect, Own, Answered, Taken, GrantsAreAccountedFor, TypeOK,
     Staged, LocksHeld, ReaderKeeps, GrantsCome, TargetPends, Accounted
<1>10. ASSUME NEW l \in Logins, TrackUnstored(l) PROVE Accounted'
  BY <1>10, Roles DEF TrackUnstored, Own, Answered, Taken, GrantsAreAccountedFor, TypeOK,
     Staged, LocksHeld, ReaderKeeps, GrantsCome, TargetPends, Accounted
<1>11. ASSUME NEW l \in Logins, DeleteSeveredToken(l) PROVE Accounted'
  BY <1>11, Roles DEF DeleteSeveredToken, Own, Answered, Taken, GrantsAreAccountedFor,
     TypeOK, Staged, LocksHeld, ReaderKeeps, GrantsCome, TargetPends, Accounted
<1>12. ASSUME NEW l \in Logins, MarkSevered(l) PROVE Accounted'
  BY <1>12, Roles DEF MarkSevered, Own, Answered, Taken, GrantsAreAccountedFor, TypeOK,
     Staged, LocksHeld, ReaderKeeps, GrantsCome, TargetPends, Accounted
<1>13. ASSUME NEW l \in Logins, LoginTimesOut(l) PROVE Accounted'
  <2>0. pc[l] # "fallback"
    BY <1>13 DEF GivesUp
  <2> QED
    BY <1>13, <2>0, Roles DEF LoginTimesOut, Own, Answered, Taken, GrantsAreAccountedFor, TypeOK,
     Staged, LocksHeld, ReaderKeeps, GrantsCome, TargetPends, Accounted
<1>14. ASSUME NEW l \in Logins, FallbackEnters(l) PROVE Accounted'
  BY <1>14, Roles DEF FallbackEnters, Own, Answered, Taken, GrantsAreAccountedFor, TypeOK,
     Staged, LocksHeld, ReaderKeeps, GrantsCome, TargetPends, Accounted
<1>15. ASSUME NEW l \in Logins, RevokeUnstored(l) PROVE Accounted'
  BY <1>15, Roles DEF RevokeUnstored, Own, Answered, Taken, GrantsAreAccountedFor, TypeOK,
     Staged, LocksHeld, ReaderKeeps, GrantsCome, TargetPends, Accounted
<1>16. ASSUME NEW l \in Logins, RecordUnstored(l) PROVE Accounted'
  BY <1>16, Roles DEF RecordUnstored, Own, Answered, Taken, GrantsAreAccountedFor, TypeOK,
     Staged, LocksHeld, ReaderKeeps, GrantsCome, TargetPends, Accounted
<1>17. ASSUME NEW r \in Requests, Request(r) PROVE Accounted'
  BY <1>17, Roles DEF Request, Own, Answered, Taken, GrantsAreAccountedFor, TypeOK,
     Staged, LocksHeld, ReaderKeeps, GrantsCome, TargetPends, Accounted
<1>18. ASSUME NEW r \in Requests, RequestEnters(r) PROVE Accounted'
  BY <1>18, Roles DEF RequestEnters, Own, Answered, Taken, GrantsAreAccountedFor, TypeOK,
     Staged, LocksHeld, ReaderKeeps, GrantsCome, TargetPends, Accounted
<1>19. ASSUME NEW r \in Requests, RecordRequest(r) PROVE Accounted'
  BY <1>19, Roles DEF RecordRequest, Own, Answered, Taken, GrantsAreAccountedFor, TypeOK,
     Staged, LocksHeld, ReaderKeeps, GrantsCome, TargetPends, Accounted
<1>20. ASSUME NEW r \in Requests, DrainMail(r) PROVE Accounted'
  BY <1>20, Roles DEF DrainMail, Own, Answered, Taken, GrantsAreAccountedFor, TypeOK,
     Staged, LocksHeld, ReaderKeeps, GrantsCome, TargetPends, Accounted
<1>21. ASSUME NEW r \in Requests, TrackStored(r) PROVE Accounted'
  BY <1>21, Roles DEF TrackStored, Own, Answered, Taken, GrantsAreAccountedFor, TypeOK,
     Staged, LocksHeld, ReaderKeeps, GrantsCome, TargetPends, Accounted
<1>22. ASSUME NEW r \in Requests, CannotSecure(r) PROVE Accounted'
  BY <1>22, Roles DEF CannotSecure, Own, Answered, Taken, GrantsAreAccountedFor, TypeOK,
     Staged, LocksHeld, ReaderKeeps, GrantsCome, TargetPends, Accounted
<1>23. ASSUME NEW r \in Requests, MarkDisconnected(r) PROVE Accounted'
  BY <1>23, Roles DEF MarkDisconnected, Own, Answered, Taken, GrantsAreAccountedFor,
     TypeOK, Staged, LocksHeld, ReaderKeeps, GrantsCome, TargetPends, Accounted
<1>24. ASSUME NEW r \in Requests, DeleteStored(r) PROVE Accounted'
  BY <1>24, Roles DEF DeleteStored, Own, Answered, Taken, GrantsAreAccountedFor, TypeOK,
     Staged, LocksHeld, ReaderKeeps, GrantsCome, TargetPends, Accounted
<1>25. ASSUME NEW r \in Requests, RequestTimesOut(r) PROVE Accounted'
  BY <1>25, Roles DEF RequestTimesOut, Own, Answered, Taken, GrantsAreAccountedFor,
     TypeOK, Staged, LocksHeld, ReaderKeeps, GrantsCome, TargetPends, Accounted
<1>26. ASSUME NEW w \in Workers, NEW g \in Logins, ClaimRevocation(w, g) PROVE Accounted'
  BY <1>26, Roles DEF ClaimRevocation, Own, Answered, Taken, GrantsAreAccountedFor,
     TypeOK, Staged, LocksHeld, ReaderKeeps, GrantsCome, TargetPends, Accounted
<1>27. ASSUME NEW w \in Workers, WorkerEnters(w) PROVE Accounted'
  BY <1>27, Roles DEF WorkerEnters, Own, Answered, Taken, GrantsAreAccountedFor, TypeOK,
     Staged, LocksHeld, ReaderKeeps, GrantsCome, TargetPends, Accounted
<1>28. ASSUME NEW w \in Workers, WorkerVerifies(w) PROVE Accounted'
  BY <1>28, Roles DEF WorkerVerifies, Own, Answered, Taken, GrantsAreAccountedFor, TypeOK,
     Staged, LocksHeld, ReaderKeeps, GrantsCome, TargetPends, Accounted
<1>29. ASSUME NEW w \in Workers, WorkerFails(w) PROVE Accounted'
  BY <1>29, Roles DEF WorkerFails, Own, Answered, Taken, GrantsAreAccountedFor, TypeOK,
     Staged, LocksHeld, ReaderKeeps, GrantsCome, TargetPends, Accounted
<1>30. ASSUME NEW w \in Workers, WorkerRevokes(w) PROVE Accounted'
  BY <1>30, Roles DEF WorkerRevokes, Own, Answered, Taken, GrantsAreAccountedFor, TypeOK,
     Staged, LocksHeld, ReaderKeeps, GrantsCome, TargetPends, Accounted
<1>31. ASSUME NEW p \in Processes, RevokeTracked(p) PROVE Accounted'
  BY <1>31, Roles DEF RevokeTracked, Own, Answered, Taken, GrantsAreAccountedFor, TypeOK,
     Staged, LocksHeld, ReaderKeeps, GrantsCome, TargetPends, Accounted
<1>32. ASSUME NEW p \in Processes, RecordRevocation(p) PROVE Accounted'
  BY <1>32, Roles DEF RecordRevocation, Own, Answered, Taken, GrantsAreAccountedFor,
     TypeOK, Staged, LocksHeld, ReaderKeeps, GrantsCome, TargetPends, Accounted
<1>33. ASSUME NEW p \in Processes, CompleteRevocation(p) PROVE Accounted'
  BY <1>33, Roles DEF CompleteRevocation, Own, Answered, Taken, GrantsAreAccountedFor,
     TypeOK, Staged, LocksHeld, ReaderKeeps, GrantsCome, TargetPends, Accounted
<1>34. ASSUME RefreshCredential PROVE Accounted'
  BY <1>34, Roles DEF RefreshCredential, Own, Answered, Taken, GrantsAreAccountedFor,
     TypeOK, Staged, LocksHeld, ReaderKeeps, GrantsCome, TargetPends, Accounted
<1>35. ASSUME PersistRefresh PROVE Accounted'
  BY <1>35, Roles DEF PersistRefresh, Own, Answered, Taken, GrantsAreAccountedFor, TypeOK,
     Staged, LocksHeld, ReaderKeeps, GrantsCome, TargetPends, Accounted
<1>36. ASSUME RevokeRefreshed PROVE Accounted'
  BY <1>36, Roles DEF RevokeRefreshed, Own, Answered, Taken, GrantsAreAccountedFor,
     TypeOK, Staged, LocksHeld, ReaderKeeps, GrantsCome, TargetPends, Accounted
<1>37. ASSUME LoseAuthorization PROVE Accounted'
  BY <1>37, Roles DEF LoseAuthorization, Own, Answered, Taken, GrantsAreAccountedFor,
     TypeOK, Staged, LocksHeld, ReaderKeeps, GrantsCome, TargetPends, Accounted
<1>38. ASSUME NEW g \in Logins, GrantExpires(g) PROVE Accounted'
  BY <1>38, Roles DEF GrantExpires, Own, Answered, Taken, GrantsAreAccountedFor, TypeOK,
     Staged, LocksHeld, ReaderKeeps, GrantsCome, TargetPends, Accounted
<1>39. ASSUME NEW g \in Logins, LeaseExpires(g) PROVE Accounted'
  BY <1>39, Roles DEF LeaseExpires, Own, Answered, Taken, GrantsAreAccountedFor, TypeOK,
     Staged, LocksHeld, ReaderKeeps, GrantsCome, TargetPends, Accounted
<1>40. ASSUME NEW p \in Processes, Crash(p) PROVE Accounted'
  BY <1>40, Roles DEF Crash, Own, Answered, Taken, GrantsAreAccountedFor, TypeOK, Staged,
     LocksHeld, ReaderKeeps, GrantsCome, TargetPends, Accounted
<1>41. CASE UNCHANGED vars
  BY <1>41 DEF Accounted, vars, TypeOK, Staged, LocksHeld, ReaderKeeps, GrantsCome, Barrier,
     UserKnown, TargetPends, Own, Answered, Taken, GrantsAreAccountedFor
<1> QED
  BY <1>1, <1>2, <1>3, <1>4, <1>5, <1>6, <1>7, <1>8, <1>9, <1>10, <1>11, <1>12, <1>13, <1>14,
     <1>15, <1>16, <1>17, <1>18, <1>19, <1>20, <1>21, <1>22, <1>23, <1>24, <1>25, <1>26, <1>27,
     <1>28, <1>29, <1>30, <1>31, <1>32, <1>33, <1>34, <1>35, <1>36, <1>37, <1>38, <1>39, <1>40,
     <1>41
     DEF Next, LoginStep, RequestStep, WorkerStep, RevocationStep, ReaderStep

(* Every step keeps killed grants out of reach.                             *)
LEMMA LiveInductive ==
  ASSUME TypeOK, Staged, LocksHeld, ReaderKeeps, GrantsCome, Barrier, UserKnown, TargetPends,
         NonePends, KilledIsOld, BeingCut, ~Strays, [Next]_vars
  PROVE  Live'
<1> USE DEF procVars, rowVars, barrier, locks, google, history, Goto, At, Fault, Active, Fresh,
   RaiseBarrier, SetGuard, MailFree, LeaveSubject, AfterRevocation, ProjectRevoked, Unanswered,
   Enqueue, AskGoogle, CompletedJobs, GiveBack, Revoking, InSubject, Tracked, LoginStages,
   RequestStages, WorkerStages, ReaderStages, Stages, PendingRevocation, HoldsGrant, Connected,
   Ending
<1>1. ASSUME NEW l \in Logins, StartLogin(l) PROVE Live'
  <2>1. NonePends'
    BY <1>1, Roles DEF StartLogin, NonePends, TypeOK, Staged, LocksHeld
  <2>2. KilledIsOld' /\ BeingCut'
    BY <1>1, Roles DEF StartLogin, KilledIsOld, BeingCut, TypeOK, Staged, LocksHeld,
       ReaderKeeps, GrantsCome, Barrier, UserKnown, TargetPends, NonePends
  <2> QED BY <2>1, <2>2 DEF Live
<1>2. ASSUME NEW l \in Logins, ExchangeCode(l) PROVE Live'
  <2>1. NonePends'
    BY <1>2, Roles DEF ExchangeCode, NonePends, TypeOK, Staged, LocksHeld
  <2>2. KilledIsOld' /\ BeingCut'
    BY <1>2, Roles DEF ExchangeCode, KilledIsOld, BeingCut, TypeOK, Staged, LocksHeld,
       ReaderKeeps, GrantsCome, Barrier, UserKnown, TargetPends, NonePends
  <2> QED BY <2>1, <2>2 DEF Live
<1>3. ASSUME NEW l \in Logins, RevokeUnverified(l) PROVE Live'
  <2>0. live' = live
    BY <1>3 DEF Strays
  <2>1. NonePends'
    BY <1>3, <2>0, Roles DEF RevokeUnverified, NonePends, TypeOK, Staged, LocksHeld
  <2>2. KilledIsOld' /\ BeingCut'
    BY <1>3, <2>0, Roles DEF RevokeUnverified, KilledIsOld, BeingCut, TypeOK, Staged, LocksHeld,
       ReaderKeeps, GrantsCome, Barrier, UserKnown, TargetPends, NonePends
  <2> QED BY <2>1, <2>2 DEF Live
<1>4. ASSUME NEW l \in Logins, LoginEnters(l) PROVE Live'
  <2>1. NonePends'
    BY <1>4, Roles DEF LoginEnters, NonePends, TypeOK, Staged, LocksHeld
  <2>2. KilledIsOld' /\ BeingCut'
    BY <1>4, Roles DEF LoginEnters, KilledIsOld, BeingCut, TypeOK, Staged, LocksHeld,
       ReaderKeeps, GrantsCome, Barrier, UserKnown, TargetPends, NonePends
  <2> QED BY <2>1, <2>2 DEF Live
<1>5. ASSUME NEW l \in Logins, CheckFresh(l) PROVE Live'
  <2>1. NonePends'
    BY <1>5, Roles DEF CheckFresh, NonePends, TypeOK, Staged, LocksHeld
  <2>2. KilledIsOld' /\ BeingCut'
    BY <1>5, Roles DEF CheckFresh, KilledIsOld, BeingCut, TypeOK, Staged, LocksHeld,
       ReaderKeeps, GrantsCome, Barrier, UserKnown, TargetPends, NonePends
  <2> QED BY <2>1, <2>2 DEF Live
<1>6. ASSUME NEW l \in Logins, CheckPending(l) PROVE Live'
  <2>1. NonePends'
    BY <1>6, Roles DEF CheckPending, NonePends, TypeOK, Staged, LocksHeld
  <2>2. KilledIsOld' /\ BeingCut'
    BY <1>6, Roles DEF CheckPending, KilledIsOld, BeingCut, TypeOK, Staged, LocksHeld,
       ReaderKeeps, GrantsCome, Barrier, UserKnown, TargetPends, NonePends
  <2> QED BY <2>1, <2>2 DEF Live
<1>7. ASSUME NEW l \in Logins, UpsertUser(l) PROVE Live'
  <2>1. NonePends'
    BY <1>7, Roles DEF UpsertUser, NonePends, TypeOK, Staged, LocksHeld
  <2>2. KilledIsOld' /\ BeingCut'
    BY <1>7, Roles DEF UpsertUser, KilledIsOld, BeingCut, TypeOK, Staged, LocksHeld,
       ReaderKeeps, GrantsCome, Barrier, UserKnown, TargetPends, NonePends
  <2> QED BY <2>1, <2>2 DEF Live
<1>8. ASSUME NEW l \in Logins, LoginLocksMail(l) PROVE Live'
  <2>1. NonePends'
    BY <1>8, Roles DEF LoginLocksMail, NonePends, TypeOK, Staged, LocksHeld
  <2>2. KilledIsOld' /\ BeingCut'
    BY <1>8, Roles DEF LoginLocksMail, KilledIsOld, BeingCut, TypeOK, Staged, LocksHeld,
       ReaderKeeps, GrantsCome, Barrier, UserKnown, TargetPends, NonePends
  <2> QED BY <2>1, <2>2 DEF Live
<1>9. ASSUME NEW l \in Logins, Reconnect(l) PROVE Live'
  <2>1. NonePends'
    BY <1>9, Roles DEF Reconnect, NonePends, TypeOK, Staged, LocksHeld
  <2>2. KilledIsOld' /\ BeingCut'
    BY <1>9, Roles DEF Reconnect, KilledIsOld, BeingCut, TypeOK, Staged, LocksHeld, ReaderKeeps,
       GrantsCome, Barrier, UserKnown, TargetPends, NonePends
  <2> QED BY <2>1, <2>2 DEF Live
<1>10. ASSUME NEW l \in Logins, TrackUnstored(l) PROVE Live'
  <2>1. NonePends'
    BY <1>10, Roles DEF TrackUnstored, NonePends, TypeOK, Staged, LocksHeld
  <2>2. KilledIsOld' /\ BeingCut'
    BY <1>10, Roles DEF TrackUnstored, KilledIsOld, BeingCut, TypeOK, Staged, LocksHeld,
       ReaderKeeps, GrantsCome, Barrier, UserKnown, TargetPends, NonePends
  <2> QED BY <2>1, <2>2 DEF Live
<1>11. ASSUME NEW l \in Logins, DeleteSeveredToken(l) PROVE Live'
  <2>1. NonePends'
    BY <1>11, Roles DEF DeleteSeveredToken, NonePends, TypeOK, Staged, LocksHeld
  <2>2. KilledIsOld' /\ BeingCut'
    BY <1>11, Roles DEF DeleteSeveredToken, KilledIsOld, BeingCut, TypeOK, Staged, LocksHeld,
       ReaderKeeps, GrantsCome, Barrier, UserKnown, TargetPends, NonePends
  <2> QED BY <2>1, <2>2 DEF Live
<1>12. ASSUME NEW l \in Logins, MarkSevered(l) PROVE Live'
  <2>1. NonePends'
    BY <1>12, Roles DEF MarkSevered, NonePends, TypeOK, Staged, LocksHeld
  <2>2. KilledIsOld' /\ BeingCut'
    BY <1>12, Roles DEF MarkSevered, KilledIsOld, BeingCut, TypeOK, Staged, LocksHeld,
       ReaderKeeps, GrantsCome, Barrier, UserKnown, TargetPends, NonePends
  <2> QED BY <2>1, <2>2 DEF Live
<1>13. ASSUME NEW l \in Logins, LoginTimesOut(l) PROVE Live'
  <2>0. pc[l] \notin {"fallback", "severing"}
    BY <1>13 DEF Strays
  <2>1. NonePends'
    BY <1>13, <2>0, Roles DEF LoginTimesOut, NonePends, TypeOK, Staged, LocksHeld
  <2>2. KilledIsOld' /\ BeingCut'
    BY <1>13, <2>0, Roles DEF LoginTimesOut, KilledIsOld, BeingCut, TypeOK, Staged, LocksHeld,
       ReaderKeeps, GrantsCome, Barrier, UserKnown, TargetPends, NonePends
  <2> QED BY <2>1, <2>2 DEF Live
<1>14. ASSUME NEW l \in Logins, FallbackEnters(l) PROVE Live'
  <2>1. NonePends'
    BY <1>14, Roles DEF FallbackEnters, NonePends, TypeOK, Staged, LocksHeld
  <2>2. KilledIsOld' /\ BeingCut'
    BY <1>14, Roles DEF FallbackEnters, KilledIsOld, BeingCut, TypeOK, Staged, LocksHeld,
       ReaderKeeps, GrantsCome, Barrier, UserKnown, TargetPends, NonePends
  <2> QED BY <2>1, <2>2 DEF Live
<1>15. ASSUME NEW l \in Logins, RevokeUnstored(l) PROVE Live'
  <2>0. live' = live
    BY <1>15 DEF Strays
  <2>1. NonePends'
    BY <1>15, <2>0, Roles DEF RevokeUnstored, NonePends, TypeOK, Staged, LocksHeld
  <2>2. KilledIsOld' /\ BeingCut'
    BY <1>15, <2>0, Roles DEF RevokeUnstored, KilledIsOld, BeingCut, TypeOK, Staged, LocksHeld,
       ReaderKeeps, GrantsCome, Barrier, UserKnown, TargetPends, NonePends
  <2> QED BY <2>1, <2>2 DEF Live
<1>16. ASSUME NEW l \in Logins, RecordUnstored(l) PROVE Live'
  <2>1. NonePends'
    BY <1>16, Roles DEF RecordUnstored, NonePends, TypeOK, Staged, LocksHeld
  <2>2. KilledIsOld' /\ BeingCut'
    BY <1>16, Roles DEF RecordUnstored, KilledIsOld, BeingCut, TypeOK, Staged, LocksHeld,
       ReaderKeeps, GrantsCome, Barrier, UserKnown, TargetPends, NonePends
  <2> QED BY <2>1, <2>2 DEF Live
<1>17. ASSUME NEW r \in Requests, Request(r) PROVE Live'
  <2>1. NonePends'
    BY <1>17, Roles DEF Request, NonePends, TypeOK, Staged, LocksHeld
  <2>2. KilledIsOld' /\ BeingCut'
    BY <1>17, Roles DEF Request, KilledIsOld, BeingCut, TypeOK, Staged, LocksHeld, ReaderKeeps,
       GrantsCome, Barrier, UserKnown, TargetPends, NonePends
  <2> QED BY <2>1, <2>2 DEF Live
<1>18. ASSUME NEW r \in Requests, RequestEnters(r) PROVE Live'
  <2>1. NonePends'
    BY <1>18, Roles DEF RequestEnters, NonePends, TypeOK, Staged, LocksHeld
  <2>2. KilledIsOld' /\ BeingCut'
    BY <1>18, Roles DEF RequestEnters, KilledIsOld, BeingCut, TypeOK, Staged, LocksHeld,
       ReaderKeeps, GrantsCome, Barrier, UserKnown, TargetPends, NonePends
  <2> QED BY <2>1, <2>2 DEF Live
<1>19. ASSUME NEW r \in Requests, RecordRequest(r) PROVE Live'
  <2>1. NonePends'
    BY <1>19, Roles DEF RecordRequest, NonePends, TypeOK, Staged, LocksHeld
  <2>2. KilledIsOld' /\ BeingCut'
    BY <1>19, Roles DEF RecordRequest, KilledIsOld, BeingCut, TypeOK, Staged, LocksHeld,
       ReaderKeeps, GrantsCome, Barrier, UserKnown, TargetPends, NonePends
  <2> QED BY <2>1, <2>2 DEF Live
<1>20. ASSUME NEW r \in Requests, DrainMail(r) PROVE Live'
  <2>1. NonePends'
    BY <1>20, Roles DEF DrainMail, NonePends, TypeOK, Staged, LocksHeld
  <2>2. KilledIsOld' /\ BeingCut'
    BY <1>20, Roles DEF DrainMail, KilledIsOld, BeingCut, TypeOK, Staged, LocksHeld,
       ReaderKeeps, GrantsCome, Barrier, UserKnown, TargetPends, NonePends
  <2> QED BY <2>1, <2>2 DEF Live
<1>21. ASSUME NEW r \in Requests, TrackStored(r) PROVE Live'
  <2>1. NonePends'
    BY <1>21, Roles DEF TrackStored, NonePends, TypeOK, Staged, LocksHeld
  <2>2. KilledIsOld' /\ BeingCut'
    BY <1>21, Roles DEF TrackStored, KilledIsOld, BeingCut, TypeOK, Staged, LocksHeld,
       ReaderKeeps, GrantsCome, Barrier, UserKnown, TargetPends, NonePends
  <2> QED BY <2>1, <2>2 DEF Live
<1>22. ASSUME NEW r \in Requests, CannotSecure(r) PROVE Live'
  <2>1. NonePends'
    BY <1>22, Roles DEF CannotSecure, NonePends, TypeOK, Staged, LocksHeld
  <2>2. KilledIsOld' /\ BeingCut'
    BY <1>22, Roles DEF CannotSecure, KilledIsOld, BeingCut, TypeOK, Staged, LocksHeld,
       ReaderKeeps, GrantsCome, Barrier, UserKnown, TargetPends, NonePends
  <2> QED BY <2>1, <2>2 DEF Live
<1>23. ASSUME NEW r \in Requests, MarkDisconnected(r) PROVE Live'
  <2>1. NonePends'
    BY <1>23, Roles DEF MarkDisconnected, NonePends, TypeOK, Staged, LocksHeld
  <2>2. KilledIsOld'
    BY <1>23, Roles DEF MarkDisconnected, KilledIsOld, BeingCut, TypeOK, Staged, LocksHeld,
       ReaderKeeps, GrantsCome, Barrier, UserKnown, TargetPends, NonePends
  <2>3. BeingCut'
    BY <1>23, Roles DEF MarkDisconnected, BeingCut, KilledIsOld, TypeOK, Staged, LocksHeld,
       ReaderKeeps, GrantsCome, Barrier, UserKnown, TargetPends, NonePends
  <2> QED BY <2>1, <2>2, <2>3 DEF Live
<1>24. ASSUME NEW r \in Requests, DeleteStored(r) PROVE Live'
  <2>1. NonePends'
    BY <1>24, Roles DEF DeleteStored, NonePends, TypeOK, Staged, LocksHeld
  <2>2. KilledIsOld' /\ BeingCut'
    BY <1>24, Roles DEF DeleteStored, KilledIsOld, BeingCut, TypeOK, Staged, LocksHeld,
       ReaderKeeps, GrantsCome, Barrier, UserKnown, TargetPends, NonePends
  <2> QED BY <2>1, <2>2 DEF Live
<1>25. ASSUME NEW r \in Requests, RequestTimesOut(r) PROVE Live'
  <2>1. NonePends'
    BY <1>25, Roles DEF RequestTimesOut, NonePends, TypeOK, Staged, LocksHeld
  <2>2. KilledIsOld' /\ BeingCut'
    BY <1>25, Roles DEF RequestTimesOut, KilledIsOld, BeingCut, TypeOK, Staged, LocksHeld,
       ReaderKeeps, GrantsCome, Barrier, UserKnown, TargetPends, NonePends
  <2> QED BY <2>1, <2>2 DEF Live
<1>26. ASSUME NEW w \in Workers, NEW g \in Logins, ClaimRevocation(w, g) PROVE Live'
  <2>1. NonePends'
    BY <1>26, Roles DEF ClaimRevocation, NonePends, TypeOK, Staged, LocksHeld
  <2>2. KilledIsOld' /\ BeingCut'
    BY <1>26, Roles DEF ClaimRevocation, KilledIsOld, BeingCut, TypeOK, Staged, LocksHeld,
       ReaderKeeps, GrantsCome, Barrier, UserKnown, TargetPends, NonePends
  <2> QED BY <2>1, <2>2 DEF Live
<1>27. ASSUME NEW w \in Workers, WorkerEnters(w) PROVE Live'
  <2>1. NonePends'
    BY <1>27, Roles DEF WorkerEnters, NonePends, TypeOK, Staged, LocksHeld
  <2>2. KilledIsOld' /\ BeingCut'
    BY <1>27, Roles DEF WorkerEnters, KilledIsOld, BeingCut, TypeOK, Staged, LocksHeld,
       ReaderKeeps, GrantsCome, Barrier, UserKnown, TargetPends, NonePends
  <2> QED BY <2>1, <2>2 DEF Live
<1>28. ASSUME NEW w \in Workers, WorkerVerifies(w) PROVE Live'
  <2>1. NonePends'
    BY <1>28, Roles DEF WorkerVerifies, NonePends, TypeOK, Staged, LocksHeld
  <2>2. KilledIsOld' /\ BeingCut'
    BY <1>28, Roles DEF WorkerVerifies, KilledIsOld, BeingCut, TypeOK, Staged, LocksHeld,
       ReaderKeeps, GrantsCome, Barrier, UserKnown, TargetPends, NonePends
  <2> QED BY <2>1, <2>2 DEF Live
<1>29. ASSUME NEW w \in Workers, WorkerFails(w) PROVE Live'
  <2>1. NonePends'
    BY <1>29, Roles DEF WorkerFails, NonePends, TypeOK, Staged, LocksHeld
  <2>2. KilledIsOld' /\ BeingCut'
    BY <1>29, Roles DEF WorkerFails, KilledIsOld, BeingCut, TypeOK, Staged, LocksHeld,
       ReaderKeeps, GrantsCome, Barrier, UserKnown, TargetPends, NonePends
  <2> QED BY <2>1, <2>2 DEF Live
<1>30. ASSUME NEW w \in Workers, WorkerRevokes(w) PROVE Live'
  <2>1. NonePends'
    BY <1>30, Roles DEF WorkerRevokes, NonePends, TypeOK, Staged, LocksHeld
  <2>2. KilledIsOld' /\ BeingCut'
    BY <1>30, Roles DEF WorkerRevokes, KilledIsOld, BeingCut, TypeOK, Staged, LocksHeld,
       ReaderKeeps, GrantsCome, Barrier, UserKnown, TargetPends, NonePends
  <2> QED BY <2>1, <2>2 DEF Live
<1>31. ASSUME NEW p \in Processes, RevokeTracked(p) PROVE Live'
  <2>1. NonePends'
    BY <1>31, Roles DEF RevokeTracked, NonePends, TypeOK, Staged, LocksHeld
  <2>2. KilledIsOld' /\ BeingCut'
    BY <1>31, Roles DEF RevokeTracked, KilledIsOld, BeingCut, TypeOK, Staged, LocksHeld,
       ReaderKeeps, GrantsCome, Barrier, UserKnown, TargetPends, NonePends
  <2> QED BY <2>1, <2>2 DEF Live
<1>32. ASSUME NEW p \in Processes, RecordRevocation(p) PROVE Live'
  <2>1. NonePends'
    BY <1>32, Roles DEF RecordRevocation, NonePends, TypeOK, Staged, LocksHeld
  <2>2. KilledIsOld' /\ BeingCut'
    BY <1>32, Roles DEF RecordRevocation, KilledIsOld, BeingCut, TypeOK, Staged, LocksHeld,
       ReaderKeeps, GrantsCome, Barrier, UserKnown, TargetPends, NonePends
  <2> QED BY <2>1, <2>2 DEF Live
<1>33. ASSUME NEW p \in Processes, CompleteRevocation(p) PROVE Live'
  <2>1. NonePends'
    BY <1>33, Roles DEF CompleteRevocation, NonePends, TypeOK, Staged, LocksHeld
  <2>2. KilledIsOld' /\ BeingCut'
    BY <1>33, Roles DEF CompleteRevocation, KilledIsOld, BeingCut, TypeOK, Staged, LocksHeld,
       ReaderKeeps, GrantsCome, Barrier, UserKnown, TargetPends, NonePends
  <2> QED BY <2>1, <2>2 DEF Live
<1>34. ASSUME RefreshCredential PROVE Live'
  <2>1. NonePends'
    BY <1>34, Roles DEF RefreshCredential, NonePends, TypeOK, Staged, LocksHeld
  <2>2. KilledIsOld' /\ BeingCut'
    BY <1>34, Roles DEF RefreshCredential, KilledIsOld, BeingCut, TypeOK, Staged, LocksHeld,
       ReaderKeeps, GrantsCome, Barrier, UserKnown, TargetPends, NonePends
  <2> QED BY <2>1, <2>2 DEF Live
<1>35. ASSUME PersistRefresh PROVE Live'
  <2>1. NonePends'
    BY <1>35, Roles DEF PersistRefresh, NonePends, TypeOK, Staged, LocksHeld
  <2>2. KilledIsOld' /\ BeingCut'
    BY <1>35, Roles DEF PersistRefresh, KilledIsOld, BeingCut, TypeOK, Staged, LocksHeld,
       ReaderKeeps, GrantsCome, Barrier, UserKnown, TargetPends, NonePends
  <2> QED BY <2>1, <2>2 DEF Live
<1>36. ASSUME RevokeRefreshed PROVE Live'
  <2>0. live' = live
    BY <1>36 DEF Strays
  <2>1. NonePends'
    BY <1>36, <2>0, Roles DEF RevokeRefreshed, NonePends, TypeOK, Staged, LocksHeld
  <2>2. KilledIsOld' /\ BeingCut'
    BY <1>36, <2>0, Roles DEF RevokeRefreshed, KilledIsOld, BeingCut, TypeOK, Staged, LocksHeld,
       ReaderKeeps, GrantsCome, Barrier, UserKnown, TargetPends, NonePends
  <2> QED BY <2>1, <2>2 DEF Live
<1>37. ASSUME LoseAuthorization PROVE Live'
  <2>1. NonePends'
    BY <1>37, Roles DEF LoseAuthorization, NonePends, TypeOK, Staged, LocksHeld
  <2>2. KilledIsOld' /\ BeingCut'
    BY <1>37, Roles DEF LoseAuthorization, KilledIsOld, BeingCut, TypeOK, Staged, LocksHeld,
       ReaderKeeps, GrantsCome, Barrier, UserKnown, TargetPends, NonePends
  <2> QED BY <2>1, <2>2 DEF Live
<1>38. ASSUME NEW g \in Logins, GrantExpires(g) PROVE Live'
  <2>1. NonePends'
    BY <1>38, Roles DEF GrantExpires, NonePends, TypeOK, Staged, LocksHeld
  <2>2. KilledIsOld' /\ BeingCut'
    BY <1>38, Roles DEF GrantExpires, KilledIsOld, BeingCut, TypeOK, Staged, LocksHeld,
       ReaderKeeps, GrantsCome, Barrier, UserKnown, TargetPends, NonePends
  <2> QED BY <2>1, <2>2 DEF Live
<1>39. ASSUME NEW g \in Logins, LeaseExpires(g) PROVE Live'
  <2>1. NonePends'
    BY <1>39, Roles DEF LeaseExpires, NonePends, TypeOK, Staged, LocksHeld
  <2>2. KilledIsOld' /\ BeingCut'
    BY <1>39, Roles DEF LeaseExpires, KilledIsOld, BeingCut, TypeOK, Staged, LocksHeld,
       ReaderKeeps, GrantsCome, Barrier, UserKnown, TargetPends, NonePends
  <2> QED BY <2>1, <2>2 DEF Live
<1>40. ASSUME NEW p \in Processes, Crash(p) PROVE Live'
  <2>0. /\ p \in Logins => ~Connected \/ pc[p] # "severing"
        /\ p \in Requests => ~Connected \/ pc[p] \notin Ending
    BY <1>40 DEF Strays
  <2>1. NonePends'
    BY <1>40, <2>0, Roles DEF Crash, NonePends, TypeOK, Staged, LocksHeld
  <2>2. KilledIsOld' /\ BeingCut'
    BY <1>40, <2>0, Roles DEF Crash, KilledIsOld, BeingCut, TypeOK, Staged, LocksHeld, ReaderKeeps,
       GrantsCome, Barrier, UserKnown, TargetPends, NonePends
  <2> QED BY <2>1, <2>2 DEF Live
<1>41. CASE UNCHANGED vars
  BY <1>41 DEF Live, vars, TypeOK, Staged, LocksHeld, ReaderKeeps, GrantsCome, Barrier,
     UserKnown, TargetPends, NonePends, KilledIsOld, BeingCut
<1> QED
  BY <1>1, <1>2, <1>3, <1>4, <1>5, <1>6, <1>7, <1>8, <1>9, <1>10, <1>11, <1>12, <1>13, <1>14,
     <1>15, <1>16, <1>17, <1>18, <1>19, <1>20, <1>21, <1>22, <1>23, <1>24, <1>25, <1>26, <1>27,
     <1>28, <1>29, <1>30, <1>31, <1>32, <1>33, <1>34, <1>35, <1>36, <1>37, <1>38, <1>39, <1>40,
     <1>41
     DEF Next, LoginStep, RequestStep, WorkerStep, RevocationStep, ReaderStep

LEMMA GroundInitially == Init => Ground
<1> SUFFICES ASSUME Init PROVE Ground
  OBVIOUS
<1>1. TypeOK
  <2>1. /\ pc \in [Processes -> Stages]
        /\ uid \in [Logins \cup Requests -> Logins \cup {None}]
        /\ target \in [Processes -> Logins \cup {None}]
        /\ started \in [Logins -> Nat]
        /\ job \in [Logins -> {"none", "queued", "succeeded"} \cup Workers]
    BY Roles DEF Init, Stages
  <2>2. /\ epoch = 0 /\ tombstone = 0 /\ fence = 0 /\ faults = 0
        /\ user = None /\ stored = None /\ guarded \in BOOLEAN
        /\ subjectLock = None /\ mailLock = None
        /\ live = {} /\ killed = {} /\ expired = {} /\ dropped = {} /\ lost = {}
    BY DEF Init
  <2>3. faults \in 0 .. MaxFaults
    BY <2>2, Roles
  <2> QED BY <2>1, <2>2, <2>3 DEF TypeOK
<1>2. \A p \in Processes : pc[p] = "idle" /\ target[p] = None
  BY Roles DEF Init
<1> QED
  BY <1>1, <1>2, Roles DEF Init, Ground, Staged, LoginStages, RequestStages, WorkerStages,
     ReaderStages, Revoking, LocksHeld, InSubject, ReaderKeeps, GrantsCome, Active, Barrier,
     UserKnown, TargetPends

(* The types, the locks and the barrier hold with every fault the model     *)
(* knows: lock timeouts, revocations outside the locks, any process dying.  *)
THEOREM GroundHolds == Spec => []Ground
<1>1. Ground /\ [Next]_vars => Ground'
  BY GroundInductive DEF Ground
<1> QED BY GroundInitially, <1>1, PTL DEF Spec

(* No callback that began before a disconnect or an account deletion        *)
(* connects the user again once that completed: the epoch of its login, the *)
(* tombstone and the triggers of migration 0023 turn it away, whatever      *)
(* fails, times out or dies beside it.                                      *)
THEOREM LoginsStopAtTheFence == Spec => []NoLoginSurvivesItsFence
<1>1. Ground => NoLoginSurvivesItsFence
  BY DEF Ground, NoLoginSurvivesItsFence, Connected, Barrier, TypeOK
<1> QED BY GroundHolds, <1>1, PTL

(* A live grant is stored, has a revocation job, is held by a callback, was  *)
(* replaced by one, or was lost with its process, whatever times out but the *)
(* second try of a callback at the subject lock: the job that callback then  *)
(* enqueues outside the lock may be completed by a request that asked Google *)
(* before the grant was issued (_cleanup_unpersisted_callback_grant).        *)
THEOREM GrantsHaveAHolder == Spec /\ [][~GivesUp]_vars => []GrantsAreAccountedFor
<1>1. Init => Accounted
  BY Roles DEF Init, Accounted, Own, Answered, Taken, GrantsAreAccountedFor, Revoking
<1>2. Ground /\ Accounted /\ [Next]_vars /\ [~GivesUp]_vars => Accounted'
  <2>1. CASE UNCHANGED vars
    BY <2>1 DEF Accounted, Own, Answered, Taken, GrantsAreAccountedFor, vars, procVars,
       rowVars, google, history, Active, HoldsGrant
  <2>2. CASE ~GivesUp
    BY <2>2, AccountedInductive DEF Ground, Accounted
  <2> QED BY <2>1, <2>2
<1>3. Accounted => GrantsAreAccountedFor
  BY DEF Accounted
<1> QED BY GroundHolds, <1>1, <1>2, <1>3, PTL DEF Spec

(* But for the steps named in Strays, a connected user's grant is none that  *)
(* this program invalidated, whatever lock times out and whoever dies beside *)
(* it: each other revocation is made while a job or the barrier keeps a      *)
(* callback's grant out, or disconnects the user first (auth_google.py:112,  *)
(* google.py:731).                                                          *)
THEOREM ConnectedGrantLives == Spec /\ [][~Strays]_vars => []StoredGrantIsLive
<1>1. Init => Live
  BY Roles DEF Init, Live, NonePends, KilledIsOld, BeingCut, PendingRevocation,
     Active, Connected
<1>2. Ground /\ Live /\ [Next]_vars /\ [~Strays]_vars => Live'
  <2>1. CASE UNCHANGED vars
    BY <2>1 DEF Live, NonePends, KilledIsOld, BeingCut, vars, procVars, rowVars, barrier, google,
       PendingRevocation, Active, Fresh, Connected
  <2>2. CASE ~Strays
    BY <2>2, LiveInductive DEF Ground, Live
  <2> QED BY <2>1, <2>2
<1>3. Ground /\ Live => StoredGrantIsLive
  BY Roles DEF Ground, Live, BeingCut, Ending, LocksHeld, InSubject, Revoking,
     StoredGrantIsLive, Settled, Connected
<1> QED BY GroundHolds, <1>1, <1>2, <1>3, PTL DEF Spec
=============================================================================
