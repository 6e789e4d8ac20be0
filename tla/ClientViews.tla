---------------------------- MODULE ClientViews ----------------------------
(***************************************************************************)
(* What the graphical clients show: the page of WebSession and the windows *)
(* of QtLogin and QtClient, beside the gateway.  They share no state.      *)
(***************************************************************************)
EXTENDS WsGateway

CONSTANTS Names, TakenNames, NoName, MaxSockets,
          LoginNames, RefusedNames, NoUser, MaxAttempts,
          Peers, Rooms, NoRoom, HistoryLimit, MaxTexts, MaxTime,
          MaxRoomRequests, MaxLocal

VARIABLES
  state, loginForm, sockets, requests, responses, session, ended,
  socket, client, form, loginRequests, loginReplies, serverUser, attempts,
  window, qtRequests, qtReplies, store, joined, texts, asked, clock, got

W == INSTANCE WebSession
L == INSTANCE QtLogin
Qt == INSTANCE QtClient

(* The web and the Qt client, app.js:902-985 and LoginWindow.cpp:72-111:   *)
(* the user that is shown as logged in is, for the server and on the       *)
(* connection the client has, whatever was tried before.                   *)
ShownIsSession == W!ShownIsSession /\ L!WindowIsSession

(* The Qt client's conversations, MainWindow.cpp: see QtClient.            *)
ShownOnce == Qt!ShownOnce
=============================================================================
