------------------------------- MODULE QtLogin -------------------------------
(***************************************************************************)
(* qt-client: the login window (LoginWindow.cpp) and the login state of    *)
(* its connection (ChatClient.cpp).  One QTcpSocket is used over again:    *)
(* what an aborted connection carried is gone.                             *)
(***************************************************************************)
EXTENDS Integers, Sequences

CONSTANTS LoginNames,      \* names the user may type
          RefusedNames,    \* those another user is logged in with
          NoUser,          \* the empty string
          MaxAttempts      \* bound on the connections made

VARIABLES
  socket,         \* QTcpSocket's state
  client,         \* ChatClient: pendingLoginUsername_, currentUsername_,
                  \* loggedIn_
  form,           \* LoginWindow: pendingUsername_, and whether the form is
                  \* enabled and the main window has taken over
  loginRequests, loginReplies,   \* under way
  serverUser,     \* whom the server has logged in on the connection
  attempts

loginVars == <<socket, client, form, loginRequests, loginReplies, serverUser,
               attempts>>

Nobody == [pending |-> NoUser, current |-> NoUser, loggedIn |-> FALSE]

LoginInit ==
  /\ socket = "unconnected" /\ client = Nobody
  /\ form = [pending |-> NoUser, enabled |-> TRUE, replaced |-> FALSE]
  /\ loginRequests = <<>> /\ loginReplies = <<>>
  /\ serverUser = NoUser /\ attempts = 0

(* The server sees the end of a connection, and nothing of it arrives.     *)
DropConnection ==
  loginRequests' = <<>> /\ loginReplies' = <<>> /\ serverUser' = NoUser

(* onLoginClicked and connectToServer.  To abort a connection that is up   *)
(* signals "disconnected", which enables the form again.                   *)
OnLoginClicked(name) ==
  /\ form.enabled /\ ~form.replaced /\ attempts < MaxAttempts
  /\ form' = [form EXCEPT !.pending = name, !.enabled = (socket = "connected")]
  /\ client' = Nobody
  /\ DropConnection
  /\ socket' = "connecting" /\ attempts' = attempts + 1

(* onConnected and onSocketConnected: login.                               *)
OnSocketConnected ==
  /\ socket = "connecting" /\ socket' = "connected"
  /\ client' = [client EXCEPT !.pending = form.pending]
  /\ loginRequests' = Append(loginRequests, form.pending)
  /\ UNCHANGED <<form, loginReplies, serverUser, attempts>>

(* Mutant: the error is shown and the form left as it is.                  *)
FormOnErrorKept(f) == f

FormOnError(f) == [f EXCEPT !.enabled = TRUE]

(* onSocketError when no connection comes about: connectionError.          *)
ConnectFails ==
  /\ socket = "connecting" /\ socket' = "unconnected"
  /\ form' = FormOnError(form)
  /\ UNCHANGED <<client, loginRequests, loginReplies, serverUser, attempts>>

(* onSocketError and onDisconnected.                                       *)
OnDisconnected ==
  /\ socket = "connected" /\ socket' = "unconnected"
  /\ form' = FormOnError(form)
  /\ client' = Nobody
  /\ DropConnection
  /\ UNCHANGED attempts

(* The server's answer to a login.                                         *)
ServeQtLogin ==
  /\ loginRequests # <<>> /\ loginRequests' = Tail(loginRequests)
  /\ LET name == Head(loginRequests)
         good == serverUser = NoUser /\ name \notin RefusedNames
     IN  /\ serverUser' = IF good THEN name ELSE serverUser
         /\ loginReplies' = Append(loginReplies, IF good THEN name ELSE NoUser)
  /\ UNCHANGED <<socket, client, form, attempts>>

(* handleObject: "logged in as" opens the main window, an error fails the  *)
(* login.                                                                  *)
OnLoginReply ==
  /\ socket = "connected" /\ loginReplies # <<>>
  /\ loginReplies' = Tail(loginReplies)
  /\ LET name == Head(loginReplies) IN
       IF name # NoUser
       THEN /\ client' = [pending |-> NoUser, current |-> name, loggedIn |-> TRUE]
            /\ form' = [form EXCEPT !.replaced = TRUE]
       ELSE IF client.pending # NoUser /\ ~client.loggedIn
       THEN client' = [client EXCEPT !.pending = NoUser] /\ form' = FormOnError(form)
       ELSE UNCHANGED <<client, form>>
  /\ UNCHANGED <<socket, loginRequests, serverUser, attempts>>

LoginNext ==
  \/ \E name \in LoginNames : OnLoginClicked(name)
  \/ OnSocketConnected \/ ConnectFails \/ OnDisconnected
  \/ ServeQtLogin \/ OnLoginReply

(* Connections come about or fail, and what is sent arrives.               *)
LoginGoesOn == OnSocketConnected \/ ConnectFails \/ ServeQtLogin \/ OnLoginReply

LoginFairness == WF_loginVars(LoginGoesOn)

LoginSpec == LoginInit /\ [][LoginNext]_loginVars /\ LoginFairness

-----------------------------------------------------------------------------
(* LoginWindow.cpp:72-111.  The main window's user is the one the server   *)
(* has logged in on its connection, whatever was tried before.             *)
WindowIsSession == client.loggedIn => serverUser = client.current

(* Whatever becomes of an attempt, the form comes back or the main window  *)
(* appears.                                                                *)
FormAnswered == ~form.enabled ~> (form.enabled \/ form.replaced)
=============================================================================
