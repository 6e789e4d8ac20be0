----------------------------- MODULE WebSession ----------------------------
(***************************************************************************)
(* web-client/app.js: a page that logs in, and tries again on a new        *)
(* WebSocket when the server refuses the name, the gateway fails or the    *)
(* connection is lost.                                                     *)
(*                                                                         *)
(* The page closes the old WebSocket and forgets it, but the listeners of  *)
(* every WebSocket work on the page's one state, so the close event of an  *)
(* old one may come at any later time.  The gateway is the FIFO between a  *)
(* WebSocket and its session at the server.                                *)
(***************************************************************************)
EXTENDS StdMap, Integers, Sequences

CONSTANTS Names,        \* names the user may type
          TakenNames,   \* those another user is logged in with
          NoName,       \* the empty string
          MaxSockets    \* bound on the WebSockets the page makes

VARIABLES
  state,      \* the page: ws, loggedIn, username, pendingUsername
  loginForm,  \* "enabled", "disabled", or "hidden" by the main view
  sockets,    \* readyState of every WebSocket made, and "lost": broken,
              \* and the page does not know it yet
  requests,   \* what each has sent and the server not yet read
  responses,  \* what the server has sent to each
  session,    \* the server: who is logged in on each
  ended       \* the WebSockets whose end the server has seen

sessionVars == <<state, loginForm, sockets, requests, responses, session,
                 ended>>

Init ==
  /\ state = [ws |-> 0, loggedIn |-> FALSE, username |-> NoName,
              pendingUsername |-> NoName]
  /\ loginForm = "enabled"
  /\ sockets = <<>> /\ requests = <<>> /\ responses = <<>> /\ session = <<>>
  /\ ended = {}

Sockets == DOMAIN sockets

-----------------------------------------------------------------------------
(* The page.                                                               *)

(* setLoginEnabled: the form is of no use once the main view shows.        *)
EnableLogin == loginForm' = IF loginForm = "hidden" THEN "hidden" ELSE "enabled"

(* Mutant: the old WebSocket is forgotten without being closed.            *)
ConnectForget(name) ==
  /\ loginForm = "enabled" /\ Len(sockets) < MaxSockets
  /\ state' = [state EXCEPT !.ws = Len(sockets) + 1, !.pendingUsername = name]
  /\ loginForm' = "disabled"
  /\ sockets' = Append(sockets, "connecting")
  /\ requests' = Append(requests, <<>>)
  /\ responses' = Append(responses, <<>>)
  /\ session' = Append(session, NoName)
  /\ UNCHANGED ended

(* handleLoginSubmit and connectAndLogin                                   *)
ConnectAndLogin(name) ==
  /\ loginForm = "enabled" /\ Len(sockets) < MaxSockets
  /\ state' = [state EXCEPT !.ws = Len(sockets) + 1, !.pendingUsername = name]
  /\ loginForm' = "disabled"
  /\ sockets' = Append([s \in Sockets |->
                          IF s = state.ws
                             /\ sockets[s] \in {"connecting", "open"}
                          THEN "closing" ELSE sockets[s]], "connecting")
  /\ requests' = Append(requests, <<>>)
  /\ responses' = Append(responses, <<>>)
  /\ session' = Append(session, NoName)
  /\ UNCHANGED ended

(* open: the login goes out on the page's WebSocket of the moment, with    *)
(* the name the page holds then.                                           *)
OnOpen(s) ==
  /\ sockets[s] = "connecting"
  /\ sockets' = [sockets EXCEPT ![s] = "open"]
  /\ requests' = IF sockets'[state.ws] = "open"
                 THEN [requests EXCEPT ![state.ws] =
                                         Append(@, state.pendingUsername)]
                 ELSE requests
  /\ UNCHANGED <<state, loginForm, responses, session, ended>>

(* message: handleServerMessage.  A WebSocket that is not open delivers    *)
(* nothing.  showMainWindow, or handleLoginOrMainError.                    *)
OnMessage(s) ==
  /\ sockets[s] = "open" /\ responses[s] # <<>>
  /\ responses' = [responses EXCEPT ![s] = Tail(@)]
  /\ LET name == Head(responses[s]) IN
       IF name # NoName
       THEN /\ state' = [state EXCEPT !.username = name, !.loggedIn = TRUE,
                                      !.pendingUsername = NoName]
            /\ loginForm' = "hidden"
       ELSE UNCHANGED state /\ EnableLogin
  /\ UNCHANGED <<sockets, requests, session, ended>>

(* error and close: the gateway cannot be reached, or ends the connection, *)
(* or the page's own close is through.  Which WebSocket closed is not      *)
(* looked at.                                                              *)
OnClose(s) ==
  /\ sockets[s] \in {"connecting", "closing", "lost"}
  /\ sockets' = [sockets EXCEPT ![s] = "closed"]
  /\ state' = [state EXCEPT !.loggedIn = FALSE, !.pendingUsername = NoName]
  /\ IF state.loggedIn THEN UNCHANGED loginForm ELSE EnableLogin
  /\ UNCHANGED <<requests, responses, session, ended>>

(* The connection breaks; requests under way may be lost.                  *)
Break(s) ==
  /\ sockets[s] = "open"
  /\ sockets' = [sockets EXCEPT ![s] = "lost"]
  /\ UNCHANGED <<state, loginForm, requests, responses, session, ended>>

-----------------------------------------------------------------------------
(* The server.                                                             *)

LoggedInNames == {session[s] : s \in Sockets} \cup TakenNames

(* ChatServer::login: a response names the user, or is an error.           *)
ServeLogin(s) ==
  /\ requests[s] # <<>> /\ s \notin ended
  /\ requests' = [requests EXCEPT ![s] = Tail(@)]
  /\ LET name == Head(requests[s]) IN
       IF name = NoName \/ session[s] # NoName \/ name \in LoggedInNames
       THEN /\ responses' = [responses EXCEPT ![s] = Append(@, NoName)]
            /\ UNCHANGED session
       ELSE /\ responses' = [responses EXCEPT ![s] = Append(@, name)]
            /\ session' = [session EXCEPT ![s] = name]
  /\ UNCHANGED <<state, loginForm, sockets, ended>>

(* The end of a connection reaches the server: logout.                     *)
ServeEnd(s) ==
  /\ sockets[s] \in {"closing", "lost", "closed"} /\ s \notin ended
  /\ ended' = ended \cup {s}
  /\ session' = [session EXCEPT ![s] = NoName]
  /\ UNCHANGED <<state, loginForm, sockets, requests, responses>>

Next ==
  \/ \E name \in Names : ConnectAndLogin(name)
  \/ \E s \in Sockets : \/ OnOpen(s) \/ OnMessage(s) \/ OnClose(s) \/ Break(s)
                        \/ ServeLogin(s) \/ ServeEnd(s)

(* Connections open or fail, what is sent arrives, ends are noticed.       *)
SocketGoesOn(s) ==
  s \in Sockets /\ (OnMessage(s) \/ OnClose(s) \/ ServeLogin(s))

Fairness == \A s \in 1..MaxSockets : WF_sessionVars(SocketGoesOn(s))

Spec == Init /\ [][Next]_sessionVars /\ Fairness

-----------------------------------------------------------------------------
(* app.js:902-985.  A page that shows itself logged in is: the session of  *)
(* its present WebSocket has the name that it shows, unless that           *)
(* connection is broken.  What an earlier WebSocket still has to say,      *)
(* after the user tried again, is not taken for the present one's.         *)
ShownIsSession ==
  state.loggedIn =>
    \/ session[state.ws] = state.username
    \/ sockets[state.ws] # "open"

(* app.js:911-953.  Whatever becomes of a login, the form comes back or    *)
(* the main view appears: the page does not stay at "Connecting...".       *)
LoginAnswered == (loginForm = "disabled") ~> (loginForm # "disabled")
=============================================================================
