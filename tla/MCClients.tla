----------------------------- MODULE MCClients -----------------------------
(***************************************************************************)
(* The clients and the gateway of WsGateway, WebSession, QtLogin, QtClient *)
(* and LineProtocol, which share no state: one of them runs, "focus" says  *)
(* which, and the others stay as they start.  The properties of WsGateway  *)
(* and ClientViews are checked as they are.                                *)
(***************************************************************************)
EXTENDS StdMap, ClientViews

CONSTANTS NoRequest, MaxLineLength, MaxLines

VARIABLES
  focus,
  typed, refused, up, down, inbox, outbox, handled, badLines, printed,
    forceClosed

-----------------------------------------------------------------------------
(* What is typed at the command-line client, and what is meant by it.      *)

Fields(type, f) ==
  [k \in {<<"type">>} \cup {<<x>> : x \in DOMAIN f} |->
     IF k = <<"type">> THEN <<type>> ELSE f[k[1]]]

Q(x) == <<"\"", x, "\"">>
Member(value) == <<"{">> \o Q("a") \o <<":">> \o value \o <<"}">>

(* Messages with characters that JSON escapes.                             *)
Messages == {<<"hi", " ", "\"">>, <<"\\", "n">>, <<"CTL">>, <<"a", "TAB", "b">>}

(* Values of a JSON line, and what they are kept as.                       *)
Values ==
  {<<Q("b"), <<"b">>>>,
   <<<<"-", "7", ".", "0", "e", "+", "7">>, <<"-", "7", ".", "0", "e", "+", "7">>>>,
   <<<<"\"", "\\", "n", "\\", "u", "0001", "\"">>, <<"LF", "CTL">>>>,
   <<<<" ", "[", "7", ",", " ", "{", "}", ",", "null", "]">>,
     <<"[", "7", ",", " ", "{", "}", ",", "null", "]">>>>,
   <<Member(Q("}")), Member(Q("}"))>>}

BadLines ==
  {Member(v) : v \in {<<>>, <<"tru">>, <<"-">>, <<"7", ".">>, <<"7", "e", "+">>,
                      <<"[", "7", ",", "]">>, <<"\"", "\\", "q", "\"">>,
                      <<"\"", "TAB", "\"">>, <<"\"", "\\", "u", "00e9", "\"">>,
                      Q("b") \o <<",">>, <<"[", "7">>}}
  \cup {<<"{", "}", "x">>, <<"{">> \o Q("a") \o <<"}">>, <<" ">>, <<"x">>,
        <<"LOGIN">>, <<"LOGIN", " ", "a", " ", "b">>, <<"USERS", " ", "a">>,
        <<"PRIVATE", " ", "bob", " ">>,
        <<"HISTORY_ROOM", " ", "den", " ", "7", " ", "7">>}

Typed ==
  {[line |-> <<" ", "private", " ", "bob", " ">> \o m \o <<" ">>,
    means |-> Fields("private", [target |-> <<"bob">>, message |-> m])] :
     m \in Messages}
  \cup {[line |-> Member(v[1]), means |-> [k \in {<<"a">>} |-> v[2]]] :
          v \in Values}
  \cup {[line |-> bad, means |-> NoRequest] : bad \in BadLines}
  \cup {[line |-> <<"login", "TAB", "bob">>,
         means |-> Fields("login", [username |-> <<"bob">>])],
        [line |-> <<"LOGOUT">>, means |-> Fields("logout", EmptyMap)],
        [line |-> <<"HISTORY_ROOM", " ", "den", " ", "7">>,
         means |-> Fields("history_room", [room |-> <<"den">>,
                                           limit |-> <<"7">>])]}

-----------------------------------------------------------------------------
P == INSTANCE LineProtocol

sessionVars == <<state, loginForm, sockets, requests, responses, session,
                 ended>>
loginVars == <<socket, client, form, loginRequests, loginReplies, serverUser,
               attempts>>
qtVars == <<window, qtRequests, qtReplies, store, joined, texts, asked, clock,
            got>>
lineVars == <<typed, refused, up, down, inbox, outbox, handled, badLines,
              printed, forceClosed>>
vars == <<focus, gatewayVars, sessionVars, loginVars, qtVars, lineVars>>

Init ==
  /\ focus \in {"gateway", "session", "login", "qt", "lines"}
  /\ GatewayInit /\ W!Init /\ L!LoginInit /\ Qt!QtInit /\ P!LineInit

Next ==
  \/ /\ focus = "gateway" /\ GatewayNext
     /\ UNCHANGED <<focus, sessionVars, loginVars, qtVars, lineVars>>
  \/ /\ focus = "session" /\ W!Next
     /\ UNCHANGED <<focus, gatewayVars, loginVars, qtVars, lineVars>>
  \/ /\ focus = "login" /\ L!LoginNext
     /\ UNCHANGED <<focus, gatewayVars, sessionVars, qtVars, lineVars>>
  \/ /\ focus = "qt" /\ Qt!QtNext
     /\ UNCHANGED <<focus, gatewayVars, sessionVars, loginVars, lineVars>>
  \/ /\ focus = "lines" /\ P!LineNext
     /\ UNCHANGED <<focus, gatewayVars, sessionVars, loginVars, qtVars>>

(* The fairness of the modules, each while it runs.                        *)
Fairness ==
  /\ WF_gatewayVars(focus = "gateway" /\ GatewayGoesOn)
  /\ \A s \in 1..MaxSockets :
       WF_sessionVars(focus = "session" /\ W!SocketGoesOn(s))
  /\ WF_loginVars(focus = "login" /\ L!LoginGoesOn)

Spec == Init /\ [][Next]_vars /\ Fairness

-----------------------------------------------------------------------------
(* The web and the Qt client, app.js:911-953 and LoginWindow.cpp:87-105:   *)
(* whatever becomes of a login, the form comes back or the main view       *)
(* appears.                                                                *)
LoginAnswered == W!LoginAnswered /\ L!FormAnswered

(* Requests and events as lines, src/common: see LineProtocol.            *)
LinesRoundTrip == P!LinesRoundTrip
=============================================================================
