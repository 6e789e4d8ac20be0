----------------------------- MODULE WsGateway -----------------------------
(***************************************************************************)
(* ws-gateway/server.js: one bridge between a browser's WebSocket and a    *)
(* TCP connection to the chat server.                                      *)
(*                                                                         *)
(* Every event handler is an action.  A request is a model value, or one   *)
(* of the two the gateway refuses; a response is the number of pieces that *)
(* its line arrives in, and the last of them ends with the newline.        *)
(***************************************************************************)
EXTENDS Integers, Sequences, SequencesExt

CONSTANTS Requests,            \* the requests the browser may send
          MaxQueuedMessages,   \* config.gateway.maxQueuedMessages
          MaxPieces,           \* config.tcp.maxLineBytes, of a response
          MaxRequests, Responses   \* bounds: requests, response lengths

ASSUME GatewayAssumption ==
  MaxQueuedMessages \in Nat /\ Responses \subseteq Nat \ {0}

VARIABLES
  ws,           \* the WebSocket: "open", "closing" (by us) or "closed"
  tcp,          \* the TCP connection to the server: "connecting", "ending"
                \* (end() before connect), "up", "half" (one side has ended
                \* it), "broken" (no close event yet) or "closed"
  tcpReady, queuedLines, tcpBuffer,
  toServer,     \* lines written to the connection and not yet read
  fromServer,   \* pieces the server has written and we have not read
  sent,         \* the requests the bridge took from the browser, in order
  received,     \* what the server has read
  answered,     \* the responses the server has written
  shown,        \* the response lines the browser has got
  errors        \* gateway_errors the browser has got

gatewayVars == <<ws, tcp, tcpReady, queuedLines, tcpBuffer, toServer,
                 fromServer, sent, received, answered, shown, errors>>

GatewayInit ==
  /\ ws = "open" /\ tcp = "connecting" /\ tcpReady = FALSE
  /\ queuedLines = <<>> /\ tcpBuffer = 0
  /\ toServer = <<>> /\ fromServer = <<>>
  /\ sent = <<>> /\ received = <<>> /\ answered = <<>> /\ shown = <<>>
  /\ errors = 0

(* sendGatewayError                                                        *)
TellBrowser == errors' = IF ws = "open" THEN errors + 1 ELSE errors

-----------------------------------------------------------------------------
(* The browser's side.                                                     *)

(* parseBrowserRequest and writeToTcp refuse what is not a request, or too *)
(* long.                                                                   *)
RefuseRequest ==
  /\ ws # "closed" /\ errors < MaxRequests
  /\ TellBrowser
  /\ UNCHANGED <<ws, tcp, tcpReady, queuedLines, tcpBuffer, toServer,
                 fromServer, sent, received, answered, shown>>

(* writeToTcp: queued before the connection is up, up to a limit.  A write *)
(* after the end of the connection fails with an error.                    *)
ForwardRequest ==
  /\ ws # "closed" /\ Len(sent) + errors < MaxRequests
  /\ \E r \in Requests :
       IF ~tcpReady
       THEN IF Len(queuedLines) >= MaxQueuedMessages
            THEN TellBrowser /\ UNCHANGED <<queuedLines, toServer, sent>>
            ELSE /\ queuedLines' = Append(queuedLines, r)
                 /\ sent' = Append(sent, r)
                 /\ UNCHANGED <<toServer, errors>>
       ELSE IF tcp = "up"
       THEN /\ toServer' = Append(toServer, r)
            /\ sent' = Append(sent, r)
            /\ UNCHANGED <<queuedLines, errors>>
       ELSE TellBrowser /\ UNCHANGED <<queuedLines, toServer, sent>>
  /\ UNCHANGED <<ws, tcp, tcpReady, tcpBuffer, fromServer, received,
                 answered, shown>>

(* tcp.end() and tcp.destroy()                                             *)
Ended == CASE tcp = "connecting" -> "ending"
           [] tcp = "up" -> "half"
           [] OTHER -> tcp

Destroyed == IF tcp = "closed" THEN tcp ELSE "broken"

(* Mutant: the TCP connection is left alone.                               *)
WsCloseOnly ==
  /\ ws # "closed" /\ ws' = "closed"
  /\ UNCHANGED <<tcp, tcpReady, queuedLines, tcpBuffer, toServer, fromServer,
                 sent, received, answered, shown, errors>>

(* The WebSocket's close event, and its error event, which close follows.  *)
WsClose ==
  /\ ws # "closed" /\ ws' = "closed"
  /\ tcp' \in {Ended, Destroyed}
  /\ UNCHANGED <<tcpReady, queuedLines, tcpBuffer, toServer, fromServer,
                 sent, received, answered, shown, errors>>

-----------------------------------------------------------------------------
(* The server's side.                                                      *)

(* Mutant: what was queued is written in the order of a stack.             *)
TcpConnectStack ==
  /\ tcp = "connecting" /\ tcp' = "up"
  /\ tcpReady' = TRUE
  /\ toServer' = toServer \o Reverse(queuedLines) /\ queuedLines' = <<>>
  /\ UNCHANGED <<ws, tcpBuffer, fromServer, sent, received, answered, shown,
                 errors>>

(* connect: what was queued is written.  If the browser has gone meanwhile *)
(* the connection has been ended and the writes fail.                      *)
TcpConnect ==
  \/ /\ tcp = "connecting" /\ tcp' = "up"
     /\ tcpReady' = TRUE
     /\ toServer' = toServer \o queuedLines /\ queuedLines' = <<>>
     /\ UNCHANGED <<ws, tcpBuffer, fromServer, sent, received, answered,
                    shown, errors>>
  \/ /\ tcp = "ending" /\ tcp' = IF queuedLines = <<>> THEN "half" ELSE "broken"
     /\ tcpReady' = TRUE /\ queuedLines' = <<>>
     /\ UNCHANGED <<ws, tcpBuffer, toServer, fromServer, sent, received,
                    answered, shown, errors>>

(* error: refused, reset, or a write after the end.                        *)
TcpError ==
  /\ tcp \in {"connecting", "ending", "up", "half"}
  /\ tcp' = "broken"
  /\ TellBrowser
  /\ UNCHANGED <<ws, tcpReady, queuedLines, tcpBuffer, toServer, fromServer,
                 sent, received, answered, shown>>

(* data: handleTcpText cuts off the lines that are complete; an overlong   *)
(* line ends the bridge.                                                   *)
TcpData ==
  /\ tcp \in {"up", "half"} /\ fromServer # <<>>
  /\ fromServer' = Tail(fromServer)
  /\ IF Head(fromServer) = "end"
     THEN /\ shown' = IF ws = "open" THEN Append(shown, tcpBuffer + 1)
                      ELSE shown
          /\ tcpBuffer' = 0
          /\ UNCHANGED <<ws, tcp, errors>>
     ELSE /\ tcpBuffer' = tcpBuffer + 1
          /\ IF tcpBuffer' > MaxPieces
             THEN /\ TellBrowser
                  /\ tcp' = "broken"
                  /\ ws' = IF ws = "open" THEN "closing" ELSE ws
             ELSE UNCHANGED <<ws, tcp, errors>>
          /\ UNCHANGED shown
  /\ UNCHANGED <<tcpReady, queuedLines, toServer, sent, received, answered>>

(* The server has ended the connection, and all it wrote is read: end.     *)
TcpEnd ==
  /\ tcp = "up" /\ fromServer = <<>>
  /\ tcp' = "half"
  /\ UNCHANGED <<ws, tcpReady, queuedLines, tcpBuffer, toServer, fromServer,
                 sent, received, answered, shown, errors>>

(* close                                                                   *)
TcpClose ==
  /\ tcp \in {"half", "broken"} /\ tcp' = "closed"
  /\ tcp = "half" => toServer = <<>> /\ fromServer = <<>>
  /\ tcpReady' = FALSE
  /\ ws' = IF ws = "open" THEN "closing" ELSE ws
  /\ UNCHANGED <<queuedLines, tcpBuffer, toServer, fromServer, sent,
                 received, answered, shown, errors>>

ServerReads ==
  /\ tcp \in {"up", "half"} /\ toServer # <<>>
  /\ received' = Append(received, Head(toServer))
  /\ toServer' = Tail(toServer)
  /\ UNCHANGED <<ws, tcp, tcpReady, queuedLines, tcpBuffer, fromServer, sent,
                 answered, shown, errors>>

(* The pieces a line of length n arrives in.                               *)
Pieces(n) == [i \in 1..n |-> IF i = n THEN "end" ELSE "piece"]

ServerAnswers ==
  /\ tcp = "up" /\ Len(answered) < Len(received)
  /\ \E n \in Responses :
       /\ answered' = Append(answered, n)
       /\ fromServer' = fromServer \o Pieces(n)
  /\ UNCHANGED <<ws, tcp, tcpReady, queuedLines, tcpBuffer, toServer, sent,
                 received, shown, errors>>

-----------------------------------------------------------------------------
GatewayNext ==
  \/ RefuseRequest \/ ForwardRequest \/ WsClose
  \/ TcpConnect \/ TcpError \/ TcpData \/ TcpEnd \/ TcpClose
  \/ ServerReads \/ ServerAnswers

(* A connection attempt ends, data arrives, ended connections close, and   *)
(* the browser answers a close.                                            *)
GatewayGoesOn ==
  \/ TcpConnect \/ TcpData \/ TcpClose \/ ServerReads
  \/ ws = "closing" /\ WsClose

GatewayFairness == WF_gatewayVars(GatewayGoesOn)

GatewaySpec ==
  GatewayInit /\ [][GatewayNext]_gatewayVars /\ GatewayFairness

-----------------------------------------------------------------------------
(* server.js:95-137.  While the TCP connection is being made or up, every  *)
(* request the gateway took without an error has reached the server or     *)
(* waits on the way, in the browser's order; a broken connection loses the *)
(* last ones only, and the queue never outgrows its limit.  The browser    *)
(* gets the server's lines whole and in order.                             *)
RelayedInOrder ==
  /\ tcp \in {"connecting", "up"} => sent = received \o toServer \o queuedLines
  /\ IsPrefix(received, sent)
  /\ Len(queuedLines) <= MaxQueuedMessages
  /\ IsPrefix(shown, answered)

(* server.js:157-209.  A bridge never stays half open: when the browser is *)
(* gone its connection to the server ends, so that the server logs the     *)
(* user out, and when the server is gone the browser is told.              *)
BothSidesEnd ==
  /\ (ws = "closed") ~> (tcp = "closed")
  /\ (tcp = "closed") ~> (ws = "closed")
=============================================================================
