----------------------------- MODULE WebSession -----------------------------
(***************************************************************************)
(* The session of the web interface: App.svelte decides what is mounted    *)
(* (state) and the router what of it is shown (path); lib/api.ts keeps the *)
(* token in the browser's storage and drops it when the server refuses it; *)
(* setup, login and the account menu of the header change both.            *)
(*                                                                         *)
(* A token is the session generation of the server at its issue: the       *)
(* server accepts the tokens of the current one.  The pages of the gateway *)
(* other than "/" are one, "/page".                                        *)
(***************************************************************************)
EXTENDS WebCommon

CONSTANTS MaxGeneration,  \* bound: changes of the credentials
          MaxCalls        \* bound: requests of the pages, or for a new password, at once

ASSUME SessionAssumption == MaxGeneration \in Nat /\ MaxCalls \in Nat /\ None \notin Nat

VARIABLES session,     \* the browser tab
          sessionNet,  \* its requests; args.token is the token sent
          auth         \* the server: setup is complete; the session generation

sessionVars == <<session, sessionNet, auth>>

Protected == {"/", "/page"}
Paths == Protected \cup {"/login", "/setup"}

AskSession(net, op) == Send(net, op, [token |-> session.jwt])

(* App.svelte and its children as a page load leaves them.                 *)
Loaded(path, jwt, back, wentBack) ==
  [state |-> "checking", path |-> path, jwt |-> jwt, loggedIn |-> FALSE,
   statusLoaded |-> FALSE, submitting |-> FALSE, back |-> back, wentBack |-> wentBack]

SessionInit ==
  /\ auth \in [complete : BOOLEAN, generation : {1}]
  /\ \E path \in Paths, jwt \in {None, 0, 1} :
       /\ ~auth.complete => jwt = None
       /\ session = Loaded(path, jwt, {}, FALSE)
       /\ sessionNet = Send({}, "status", [token |-> jwt])

(* gsNavigate: the path left stays in the history, or is replaced.         *)
gsNavigate(ui, to) == [ui EXCEPT !.path = to, !.back = @ \cup {ui.path}]
gsReplace(ui, to) == [ui EXCEPT !.path = to]

setLoggedOut(ui) == [ui EXCEPT !.jwt = None, !.loggedIn = FALSE]
setLoggedIn(ui, token) == [ui EXCEPT !.jwt = token, !.loggedIn = TRUE]

SessionRests(ui, r) ==
  /\ session' = ui
  /\ sessionNet' = sessionNet \ {r}
  /\ UNCHANGED auth

Accepted(token) == auth.complete /\ token = auth.generation

(* What is on the screen.                                                  *)
Screen ==
  CASE session.state \in {"checking", "error"} -> session.state
    [] session.state = "setup" -> IF session.path = "/setup" THEN "setup" ELSE "nothing"
    [] session.state = "login" -> IF session.path = "/login" THEN "login" ELSE "nothing"
    [] session.state = "authenticated" -> IF session.path \in Protected THEN "page" ELSE "not found"

(***************************************************************************)
(* checkSession: the setup status, then the token.                         *)
(***************************************************************************)
RetryStatusCheck ==
  /\ Screen = "error"
  /\ session' = [session EXCEPT !.state = "checking"]
  /\ sessionNet' = AskSession(sessionNet, "status")
  /\ UNCHANGED auth

setupStatus(r, ok) ==
  /\ r.op = "status" /\ (ok => r.done)
  /\ IF ~ok THEN SessionRests([session EXCEPT !.state = "error"], r)
     ELSE IF r.snap.complete
     THEN /\ sessionNet' = AskSession(sessionNet \ {r}, "verify")
          /\ UNCHANGED <<session, auth>>
     ELSE /\ session' = [gsReplace(setLoggedOut(session), "/setup") EXCEPT !.state = "setup"]
          /\ sessionNet' = AskSession(sessionNet \ {r}, "setupStatus")
          /\ UNCHANGED auth

(* verifyToken: an answer other than 200, whatever its reason, logs out.   *)
verifyToken(r, answer) ==
  /\ r.op = "verify"
  /\ \/ /\ answer = "ok" /\ r.done /\ r.snap.accepted
        /\ SessionRests([gsReplace(setLoggedIn(session, session.jwt),
                                   IF session.path \in {"/login", "/setup"} THEN "/" ELSE session.path)
                           EXCEPT !.state = "authenticated"], r)
     \/ /\ answer = "refused" /\ r.done
        /\ SessionRests([gsReplace(setLoggedOut(session), "/login") EXCEPT !.state = "login"], r)
     \/ /\ answer = "failed"
        /\ SessionRests([session EXCEPT !.state = "error"], r)

(* The browser loads the page again: nothing but the token survives.       *)
PageLoads(path) ==
  /\ session' = Loaded(path, session.jwt, session.back, session.wentBack)
  /\ sessionNet' = AskSession({}, "status")

ReloadPage == PageLoads(session.path) /\ UNCHANGED auth

GoBack(path) ==
  /\ path \in session.back \ {session.path}
  /\ session' = [session EXCEPT !.path = path, !.wentBack = TRUE]
  /\ UNCHANGED <<sessionNet, auth>>

(***************************************************************************)
(* The setup page.                                                         *)
(***************************************************************************)
setupLoadStatus(r, ok) ==
  /\ r.op = "setupStatus" /\ (ok => r.done)
  /\ SessionRests(IF ~ok THEN session
                  ELSE IF r.snap.complete THEN gsNavigate(session, "/login")
                  ELSE [session EXCEPT !.statusLoaded = TRUE], r)

RetrySetupStatus ==
  /\ Screen = "setup" /\ ~session.statusLoaded /\ ~InFlight(sessionNet, {"setupStatus"})
  /\ sessionNet' = AskSession(sessionNet, "setupStatus")
  /\ UNCHANGED <<session, auth>>

submitSetup ==
  /\ Screen = "setup" /\ session.statusLoaded /\ ~session.submitting
  /\ session' = [session EXCEPT !.submitting = TRUE]
  /\ sessionNet' = AskSession(sessionNet, "setup")
  /\ UNCHANGED auth

(* A 409, another error or a lost answer leaves the form where it is.      *)
setupSubmitted(r, ok) ==
  /\ r.op = "setup" /\ (ok => r.done /\ r.snap.accepted)
  /\ IF ok THEN PageLoads("/login") /\ UNCHANGED auth
     ELSE SessionRests([session EXCEPT !.submitting = FALSE], r)

SetupElsewhere ==
  /\ ~auth.complete
  /\ auth' = [auth EXCEPT !.complete = TRUE]
  /\ UNCHANGED <<session, sessionNet>>

(***************************************************************************)
(* Login, the account menu and the requests of the pages.                  *)
(***************************************************************************)
handleLogin ==
  /\ Screen = "login" /\ ~session.submitting
  /\ session' = [session EXCEPT !.submitting = TRUE]
  /\ sessionNet' = AskSession(sessionNet, "login")
  /\ UNCHANGED auth

loginAnswered(r, ok) ==
  /\ r.op = "login" /\ (ok => r.done)
  /\ SessionRests(IF ok THEN [gsReplace(setLoggedIn(session, r.snap.generation), "/") EXCEPT
                                !.state = "authenticated", !.submitting = FALSE]
                  ELSE [session EXCEPT !.submitting = FALSE], r)

\* Mutant: the shell is told, and the address stays.
LogoutInPlace ==
  /\ session.state = "authenticated"
  /\ session' = [setLoggedOut(session) EXCEPT !.state = "login"]
  /\ UNCHANGED <<sessionNet, auth>>

logout ==
  /\ session.state = "authenticated"
  /\ session' = [gsReplace(setLoggedOut(session), "/login") EXCEPT !.state = "login"]
  /\ UNCHANGED <<sessionNet, auth>>

\* The number of requests of a kind that are under way.
UnderWay(op) == Cardinality({r \in sessionNet : r.op = op})

savePassword ==
  /\ session.state = "authenticated" /\ auth.generation < MaxGeneration
  /\ UnderWay("password") < MaxCalls
  /\ sessionNet' = AskSession(sessionNet, "password")
  /\ UNCHANGED <<session, auth>>

Navigate(to) ==
  /\ session.state = "authenticated" /\ to # session.path
  /\ session' = gsNavigate(session, to)
  /\ UNCHANGED <<sessionNet, auth>>

PageAsks ==
  /\ Screen = "page" /\ UnderWay("api") < MaxCalls
  /\ sessionNet' = AskSession(sessionNet, "api")
  /\ UNCHANGED <<session, auth>>

\* Mutant: every failed request drops the token.
DoCallDropsToken(r, answer) ==
  /\ r.op \in {"api", "password"}
  /\ \/ /\ answer = "ok" /\ r.done /\ r.snap.accepted
        /\ SessionRests(IF r.op = "api" THEN session
                        ELSE gsNavigate(setLoggedOut(session), "/login"), r)
     \/ answer # "ok" /\ SessionRests(setLoggedOut(session), r)

(* doCall: 401 calls onUnauthorized, which drops the token and nothing     *)
(* else; any other failure only throws.  A new password ends the session   *)
(* in the browser too: updateNetwork drops the token and goes to /login.   *)
doCall(r, answer) ==
  /\ r.op \in {"api", "password"}
  /\ \/ /\ answer = "ok" /\ r.done /\ r.snap.accepted
        /\ SessionRests(IF r.op = "api" THEN session
                        ELSE gsNavigate(setLoggedOut(session), "/login"), r)
     \/ /\ answer = "401" /\ r.done /\ ~r.snap.accepted
        /\ SessionRests(setLoggedOut(session), r)
     \/ /\ answer = "failed"
        /\ SessionRests(session, r)

(* The server.  A setup or a password change takes effect when served.     *)
ServeSession(r) ==
  /\ ~r.done
  /\ sessionNet' = Served(sessionNet, r,
       [complete |-> auth.complete, generation |-> auth.generation,
        accepted |-> IF r.op = "setup" THEN ~auth.complete ELSE Accepted(r.args.token)])
  /\ auth' = CASE r.op = "setup" -> [auth EXCEPT !.complete = TRUE]
               [] r.op = "password" /\ Accepted(r.args.token) -> [auth EXCEPT !.generation = @ + 1]
               [] OTHER -> auth
  /\ UNCHANGED session

(* Another administrator changes the credentials, or the hour is over for  *)
(* which a token is valid: the tokens issued so far are refused.           *)
PasswordElsewhere ==
  /\ auth.complete /\ auth.generation < MaxGeneration
  /\ auth' = [auth EXCEPT !.generation = @ + 1]
  /\ UNCHANGED <<session, sessionNet>>

SessionNext ==
  \/ RetryStatusCheck \/ ReloadPage \/ RetrySetupStatus \/ submitSetup \/ SetupElsewhere
  \/ handleLogin \/ logout \/ savePassword \/ PageAsks \/ PasswordElsewhere
  \/ \E path \in Paths : GoBack(path)
  \/ \E to \in Protected : Navigate(to)
  \/ \E r \in sessionNet :
       \/ ServeSession(r)
       \/ \E ok \in BOOLEAN :
            \/ setupStatus(r, ok) \/ setupLoadStatus(r, ok)
            \/ setupSubmitted(r, ok) \/ loginAnswered(r, ok)
       \/ \E answer \in {"ok", "refused", "failed"} : verifyToken(r, answer)
       \/ \E answer \in {"ok", "401", "failed"} : doCall(r, answer)

SessionSpec == SessionInit /\ [][SessionNext]_sessionVars

(***************************************************************************)
(* Properties.                                                             *)
(***************************************************************************)
(* The screen goes blank in two ways only: through the history of the      *)
(* browser, and when somebody else completes the setup between the two     *)
(* readings of its status (the setup page then goes to /login, which       *)
(* App.svelte does not mount in the state "setup").                        *)
NotBlank ==
  Screen = "nothing" => session.wentBack \/ (session.state = "setup" /\ auth.complete)

(* The application checks, and a form submits, only with a request on its  *)
(* way.                                                                    *)
SessionBusy ==
  /\ session.state = "checking" => InFlight(sessionNet, {"status", "verify"})
  /\ session.submitting => InFlight(sessionNet, {"login", "setup"})

(* A token that the server accepts is not dropped by a failing request: it *)
(* goes when the administrator logs out or changes the password, when the  *)
(* check of the session at a page load does not succeed, or, the one race, *)
(* when a 401 for an older token arrives after a new login.                *)
SessionKept ==
  [][Accepted(session.jwt) /\ session'.jwt = None =>
       \/ session.state = "checking" \/ session'.path = "/login"
       \/ \E r \in sessionNet \ sessionNet' : r.args.token # session.jwt]_sessionVars

(* "Logging out now renders the login page immediately instead of a        *)
(* page-not-found state" (CHANGELOG.md): whenever a session ends, what is  *)
(* on the screen next is the login, or the setup.                          *)
LogoutShowsLogin ==
  [][session.loggedIn /\ ~session'.loggedIn => Screen' # "not found"]_sessionVars
=============================================================================
