-------------------------- MODULE MC_GrantLifecycle --------------------------
(***************************************************************************)
(* Two parts of signing in that share no state, side by side in one run:   *)
(*   grants   the life of the Google grants (GrantLifecycle)               *)
(*   app      the sign-in of a native app (NativeSignIn)                   *)
(* The part is chosen in the initial state.  What must go on in the grants *)
(* has begun there, so their fairness asks nothing of the other part.      *)
(***************************************************************************)
EXTENDS GrantLifecycle, TLC

CONSTANTS Visits, Callbacks, NoVisit, NoCode

VARIABLES part, login, spent, request, code, handoff, app, session, void, mishaps

N == INSTANCE NativeSignIn WITH faults <- mishaps

appVars == <<login, spent, request, code, handoff, app, session, void, mishaps>>

MCInit == part \in {"grants", "app"} /\ Init /\ N!Init

MCNext ==
  /\ UNCHANGED part
  /\ \/ part = "grants" /\ Next /\ UNCHANGED appVars
     \/ part = "app" /\ N!Next /\ UNCHANGED vars

MCSpec == MCInit /\ [][MCNext]_<<part, vars, appVars>> /\ Fairness

(* The property of NativeSignIn, stated there.                             *)
SignInHolds == N!SignInHolds
=============================================================================
