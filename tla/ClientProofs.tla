---------------------------- MODULE ClientProofs ----------------------------
(***************************************************************************)
(* The gateway, the logins of the graphical clients and the reading of a   *)
(* history, for any requests, any queue limit, responses of any length,    *)
(* any names and any number of messages.                                   *)
(*                                                                         *)
(* The gateway relays in order.  The requests: what has been read, what    *)
(* was written and what is queued are the requests taken, one after the    *)
(* other.  The responses: the pieces that are on the way are those of the  *)
(* responses that the browser has not got, less what the line buffer       *)
(* holds; "ends" says where each of them ends.                             *)
(*                                                                         *)
(* The logins: only the newest connection of a client can still bring a    *)
(* response, and what it brings names the user of the server's session.    *)
(*                                                                         *)
(* The history: what a reader has not read is still to come, or lost.      *)
(***************************************************************************)
EXTENDS ClientViews, HistoryPaging, SequenceTheorems, FiniteSetTheorems,
        WellFoundedInduction, TLAPS

TcpStates == {"connecting", "ending", "up", "half", "broken", "closed"}

GatewayTypes ==
  /\ ws \in {"open", "closing", "closed"} /\ tcp \in TcpStates
  /\ tcpReady \in BOOLEAN
  /\ sent \in Seq(Requests) /\ received \in Seq(Requests)
  /\ toServer \in Seq(Requests) /\ queuedLines \in Seq(Requests)
  /\ tcpBuffer \in Nat /\ fromServer \in Seq({"piece", "end"})
  /\ answered \in Seq(Responses) /\ shown \in Seq(Nat)

(* tcpReady is set when the connection comes up, and the queue is empty    *)
(* from then on; it is never set before.                                   *)
ReadyOnce ==
  /\ tcp \in {"connecting", "ending"} => ~tcpReady
  /\ tcp \in {"up", "half"} => tcpReady /\ queuedLines = <<>>

(* What has been read and what was written begin what was taken; as long   *)
(* as the connection is being made or up, the queue is all the rest.       *)
RequestOrder ==
  /\ Len(received) + Len(toServer) <= Len(sent)
  /\ \A i \in 1..Len(received) : received[i] = sent[i]
  /\ \A i \in 1..Len(toServer) : toServer[i] = sent[Len(received) + i]
  /\ tcp \in {"connecting", "up"} =>
       /\ Len(sent) = Len(received) + Len(toServer) + Len(queuedLines)
       /\ \A i \in 1..Len(queuedLines) :
            queuedLines[i] = sent[Len(received) + Len(toServer) + i]

QueueBounded == Len(queuedLines) <= MaxQueuedMessages

ShownFirst ==
  /\ Len(shown) <= Len(answered)
  /\ \A i \in 1..Len(shown) : shown[i] = answered[i]

(* ends[j] is the place in fromServer of the end of response j; the one    *)
(* that was shown last ended as many pieces ago as the buffer holds.       *)
EndsAt(ends) ==
  /\ ends[Len(shown)] + tcpBuffer = 0
  /\ ends[Len(answered)] = Len(fromServer)
  /\ \A j \in Len(shown) + 1 .. Len(answered) :
       /\ ends[j] = ends[j - 1] + answered[j] /\ ends[j] > 0
  /\ \A j, k \in Len(shown)..Len(answered) : j < k => ends[j] < ends[k]
  /\ \A i \in 1..Len(fromServer) :
       fromServer[i] = "end" <=>
         \E j \in Len(shown) + 1 .. Len(answered) : ends[j] = i

Outstanding == Len(shown)..Len(answered)

PiecesLeft ==
  ws = "open" => \E ends \in [Outstanding -> Int] : EndsAt(ends)

GatewayInv ==
  /\ GatewayTypes /\ ReadyOnce /\ RequestOrder /\ QueueBounded
  /\ ShownFirst /\ PiecesLeft

-----------------------------------------------------------------------------
(* At the start nothing is on its way.                                     *)
LEMMA InitInv == GatewayInit => GatewayInv
<1> SUFFICES ASSUME GatewayInit PROVE GatewayInv
  OBVIOUS
<1>5. \A S : <<>> \in Seq(S)
  OBVIOUS
<1>1. GatewayTypes /\ ReadyOnce
  BY <1>5 DEF GatewayInit, GatewayTypes, TcpStates, ReadyOnce
<1>4. RequestOrder /\ ShownFirst
  BY DEF GatewayInit, RequestOrder, ShownFirst
<1>2. QueueBounded
  BY GatewayAssumption DEF GatewayInit, QueueBounded
<1>3. PiecesLeft
  <2> DEFINE ends == [j \in Outstanding |-> 0]
  <2>1. Outstanding = {0} /\ ends \in [Outstanding -> Int]
    BY DEF GatewayInit, Outstanding
  <2>2. Len(shown) = 0 /\ Len(answered) = 0 /\ Len(fromServer) = 0
        /\ tcpBuffer = 0 /\ ends[0] = 0
    BY <2>1 DEF GatewayInit
  <2>3. EndsAt(ends)
    <3> HIDE DEF ends
    <3>1. Len(shown)..Len(answered) = {0} /\ Len(shown) + 1 .. Len(answered) = {}
          /\ 1..Len(fromServer) = {}
      BY <2>2
    <3>4. ends[Len(shown)] = 0 /\ ends[Len(answered)] = 0
      BY <2>2
    <3>2. ends[Len(shown)] + tcpBuffer = 0 /\ ends[Len(answered)] = Len(fromServer)
      BY <2>2, <3>4
    <3>3. \A j, k \in Len(shown)..Len(answered) : j < k => ends[j] < ends[k]
      <4>1. \A j, k \in {0} : ~(j < k)
        OBVIOUS
      <4> QED
        BY <3>1, <4>1
    <3> QED
      BY <3>1, <3>2, <3>3 DEF EndsAt
  <2> QED
    BY <2>1, <2>3 DEF PiecesLeft
<1> QED
  BY <1>1, <1>2, <1>3, <1>4 DEF GatewayInv

(* The types, step by step.                                                *)
LEMMA TypesKept ==
  GatewayTypes /\ [GatewayNext]_gatewayVars => GatewayTypes'
<1> SUFFICES ASSUME GatewayTypes, [GatewayNext]_gatewayVars
             PROVE GatewayTypes'
  OBVIOUS
<1> USE DEF GatewayTypes, TcpStates
<1>1. CASE RefuseRequest
  BY <1>1 DEF RefuseRequest
<1>2. CASE ForwardRequest
  <2>1. PICK r \in Requests :
          /\ queuedLines' \in {queuedLines, Append(queuedLines, r)}
          /\ sent' \in {sent, Append(sent, r)}
          /\ toServer' \in {toServer, Append(toServer, r)}
    BY <1>2 DEF ForwardRequest
  <2>2. /\ Append(queuedLines, r) \in Seq(Requests)
        /\ Append(sent, r) \in Seq(Requests)
        /\ Append(toServer, r) \in Seq(Requests)
    BY AppendProperties
  <2> QED
    BY <1>2, <2>1, <2>2 DEF ForwardRequest
<1>3. CASE WsClose
  BY <1>3 DEF WsClose, Ended, Destroyed
<1>4. CASE TcpConnect
  <2>1. toServer \o queuedLines \in Seq(Requests) /\ <<>> \in Seq(Requests)
    BY ConcatProperties
  <2> QED
    BY <1>4, <2>1 DEF TcpConnect
<1>5. CASE TcpError
  BY <1>5 DEF TcpError
<1>6. CASE TcpData
  <2>1. tcpBuffer + 1 \in Nat /\ Tail(fromServer) \in Seq({"piece", "end"})
    BY <1>6 DEF TcpData
  <2>2. Append(shown, tcpBuffer + 1) \in Seq(Nat)
    BY <2>1, AppendProperties
  <2>3. /\ shown' \in {shown, Append(shown, tcpBuffer + 1)}
        /\ tcpBuffer' \in {0, tcpBuffer + 1}
        /\ ws' \in {ws, "closing"} /\ tcp' \in {tcp, "broken"}
    BY <1>6 DEF TcpData
  <2>4. /\ fromServer' = Tail(fromServer)
        /\ UNCHANGED <<tcpReady, queuedLines, toServer, sent, received, answered>>
    BY <1>6 DEF TcpData
  <2>5. fromServer' \in Seq({"piece", "end"}) /\ shown' \in Seq(Nat)
    BY <2>1, <2>2, <2>3, <2>4
  <2>6. ws' \in {"open", "closing", "closed"} /\ tcp' \in TcpStates
    BY <2>3
  <2>7. tcpBuffer' \in Nat
    BY <2>3
  <2> QED
    BY <2>4, <2>5, <2>6, <2>7
<1>7. CASE TcpEnd
  BY <1>7 DEF TcpEnd
<1>8. CASE TcpClose
  BY <1>8 DEF TcpClose
<1>9. CASE ServerReads
  BY <1>9 DEF ServerReads
<1>10. CASE ServerAnswers
  <2>1. PICK n \in Responses :
          /\ answered' = Append(answered, n)
          /\ fromServer' = fromServer \o Pieces(n)
    BY <1>10 DEF ServerAnswers
  <2>2. Pieces(n) \in Seq({"piece", "end"})
    BY GatewayAssumption DEF Pieces
  <2>3. fromServer \o Pieces(n) \in Seq({"piece", "end"})
    BY <2>2, ConcatProperties
  <2>4. Append(answered, n) \in Seq(Responses)
    BY AppendProperties
  <2> QED
    BY <1>10, <2>1, <2>3, <2>4 DEF ServerAnswers
<1>11. CASE UNCHANGED gatewayVars
  BY <1>11 DEF gatewayVars
<1> QED
  BY <1>1, <1>2, <1>3, <1>4, <1>5, <1>6, <1>7, <1>8, <1>9, <1>10, <1>11
     DEF GatewayNext

(* The flag and the queue follow the gateway's connection.                 *)
LEMMA ReadyKept ==
  GatewayTypes /\ ReadyOnce /\ [GatewayNext]_gatewayVars => ReadyOnce'
<1> SUFFICES ASSUME GatewayTypes, ReadyOnce, [GatewayNext]_gatewayVars
             PROVE ReadyOnce'
  OBVIOUS
<1> USE DEF GatewayTypes, TcpStates, ReadyOnce
<1>1. CASE ForwardRequest
  <2>1. UNCHANGED <<tcp, tcpReady>> /\ (tcpReady => UNCHANGED queuedLines)
    BY <1>1 DEF ForwardRequest
  <2> QED
    BY <2>1
<1>2. CASE WsClose
  BY <1>2 DEF WsClose, Ended, Destroyed
<1>3. CASE TcpConnect
  BY <1>3 DEF TcpConnect
<1>4. CASE TcpError \/ TcpEnd \/ TcpClose
  BY <1>4 DEF TcpError, TcpEnd, TcpClose
<1>5. CASE TcpData
  <2>1. tcp' \in {tcp, "broken"} /\ UNCHANGED <<tcpReady, queuedLines>>
    BY <1>5 DEF TcpData
  <2> QED
    BY <2>1
<1>6. CASE RefuseRequest \/ ServerReads \/ ServerAnswers
           \/ UNCHANGED gatewayVars
  <2>1. UNCHANGED <<tcp, tcpReady, queuedLines>>
    BY <1>6 DEF RefuseRequest, ServerReads, ServerAnswers, gatewayVars
  <2> QED
    BY <2>1
<1> QED
  BY <1>1, <1>2, <1>3, <1>4, <1>5, <1>6 DEF GatewayNext

(* A request is taken into the queue or onto the wire, and the queue only  *)
(* grows below its limit.                                                  *)
LEMMA OrderKept ==
  /\ GatewayTypes /\ ReadyOnce /\ RequestOrder /\ QueueBounded
  /\ [GatewayNext]_gatewayVars
  => RequestOrder' /\ QueueBounded'
<1> SUFFICES ASSUME GatewayTypes, ReadyOnce, RequestOrder, QueueBounded,
                    [GatewayNext]_gatewayVars
             PROVE RequestOrder' /\ QueueBounded'
  OBVIOUS
<1> USE DEF GatewayTypes, TcpStates
<1> DEFINE flow == <<sent, received, toServer, queuedLines>>
<1>0. ASSUME UNCHANGED flow, tcp' \in {"connecting", "up"} => tcp' = tcp
      PROVE RequestOrder' /\ QueueBounded'
  BY <1>0 DEF RequestOrder, QueueBounded
<1>1. CASE ForwardRequest
  <2>1. PICK r \in Requests :
          /\ \/ UNCHANGED flow
             \/ /\ ~tcpReady /\ Len(queuedLines) < MaxQueuedMessages
                /\ queuedLines' = Append(queuedLines, r)
                /\ sent' = Append(sent, r)
                /\ UNCHANGED <<toServer, received>>
             \/ /\ tcp = "up" /\ tcpReady
                /\ toServer' = Append(toServer, r)
                /\ sent' = Append(sent, r)
                /\ UNCHANGED <<queuedLines, received>>
          /\ tcp' = tcp
    <3>1. tcp' = tcp /\ UNCHANGED received
      BY <1>1 DEF ForwardRequest
    <3>2. CASE ~tcpReady /\ Len(queuedLines) >= MaxQueuedMessages
      BY <1>1, <3>1, <3>2 DEF ForwardRequest
    <3>3. CASE ~tcpReady /\ ~(Len(queuedLines) >= MaxQueuedMessages)
      <4>1. Len(queuedLines) < MaxQueuedMessages
        BY <3>3, GatewayAssumption
      <4> QED
        BY <1>1, <3>1, <3>3, <4>1 DEF ForwardRequest
    <3>4. CASE tcpReady /\ tcp = "up"
      BY <1>1, <3>1, <3>4 DEF ForwardRequest
    <3>5. CASE tcpReady /\ tcp # "up"
      BY <1>1, <3>1, <3>5 DEF ForwardRequest
    <3> QED
      BY <3>2, <3>3, <3>4, <3>5
  <2>2. CASE UNCHANGED flow
    BY <1>0, <2>1, <2>2
  <2>3. CASE /\ ~tcpReady /\ Len(queuedLines) < MaxQueuedMessages
             /\ queuedLines' = Append(queuedLines, r)
             /\ sent' = Append(sent, r)
             /\ UNCHANGED <<toServer, received>>
    <3>1. Len(sent') = Len(sent) + 1
          /\ Len(queuedLines') = Len(queuedLines) + 1
      BY <2>3, AppendProperties
    <3>2. \A i \in 1..Len(sent) : sent'[i] = sent[i]
      BY <2>3, AppendProperties
    <3>3. sent'[Len(sent) + 1] = r
      BY <2>3, AppendProperties
    <3>4. \A i \in 1..Len(queuedLines) + 1 :
            queuedLines'[i] = IF i = Len(queuedLines) + 1 THEN r
                              ELSE queuedLines[i]
      BY <2>3, AppendProperties, SMTT(20)
    <3>5. QueueBounded'
      BY <2>3, <3>1, GatewayAssumption DEF QueueBounded
    <3>6. RequestOrder'
      <4>0. /\ received' = received /\ toServer' = toServer
            /\ Len(received) + Len(toServer) <= Len(sent)
            /\ \A i \in 1..Len(received) : received[i] = sent[i]
            /\ Len(received) \in Nat /\ Len(toServer) \in Nat
        BY <2>3, LenProperties DEF RequestOrder
      <4>1. /\ Len(received') + Len(toServer') <= Len(sent')
            /\ \A i \in 1..Len(received') : received'[i] = sent'[i]
        BY <4>0, <3>1, <3>2
      <4>2. \A i \in 1..Len(toServer') :
              toServer'[i] = sent'[Len(received') + i]
        <5> SUFFICES ASSUME NEW i \in 1..Len(toServer)
                     PROVE  toServer[i] = sent'[Len(received) + i]
          BY <2>3
        <5>1. Len(received) + i \in 1..Len(sent)
          BY DEF RequestOrder
        <5> QED
          BY <3>2, <5>1 DEF RequestOrder
      <4>3. ASSUME tcp \in {"connecting", "up"}
            PROVE  /\ Len(sent) = Len(received) + Len(toServer)
                                    + Len(queuedLines)
                   /\ \A i \in 1..Len(queuedLines) :
                        queuedLines[i] = sent[Len(received) + Len(toServer) + i]
        BY <4>3 DEF RequestOrder
      <4>6. tcp \in {"connecting", "up"} =>
              Len(sent) = Len(received) + Len(toServer) + Len(queuedLines)
        BY <4>3
      <4>7. Len(toServer') = Len(toServer) /\ Len(received') = Len(received)
        BY <2>3
      <4>4. ASSUME tcp \in {"connecting", "up"},
                   NEW i \in 1..Len(queuedLines')
            PROVE  queuedLines'[i]
                     = sent'[Len(received') + Len(toServer') + i]
        <5>1. CASE i = Len(queuedLines) + 1
          BY <3>1, <3>3, <3>4, <4>4, <4>6, <4>7, <5>1
        <5>2. CASE i # Len(queuedLines) + 1
          <6>1. i \in 1..Len(queuedLines) /\ queuedLines'[i] = queuedLines[i]
            BY <3>1, <3>4, <5>2
          <6>2. Len(received) + Len(toServer) + i \in 1..Len(sent)
            BY <4>3, <4>4, <6>1
          <6> QED
            BY <2>3, <3>2, <4>3, <4>4, <6>1, <6>2
        <5> QED
          BY <5>1, <5>2
      <4>5. tcp \in {"connecting", "up"} =>
              Len(sent') = Len(received') + Len(toServer') + Len(queuedLines')
        <5>1. /\ Len(sent) \in Nat /\ Len(received) \in Nat
              /\ Len(toServer) \in Nat /\ Len(queuedLines) \in Nat
          BY LenProperties
        <5> HIDE DEF GatewayTypes
        <5> QED
          BY <3>1, <4>6, <4>7, <5>1
      <4> QED
        BY <2>1, <4>1, <4>2, <4>4, <4>5 DEF RequestOrder
    <3> QED
      BY <3>5, <3>6
  <2>4. CASE /\ tcp = "up" /\ tcpReady
             /\ toServer' = Append(toServer, r)
             /\ sent' = Append(sent, r)
             /\ UNCHANGED <<queuedLines, received>>
    <3>1. Len(sent') = Len(sent) + 1 /\ Len(toServer') = Len(toServer) + 1
      BY <2>4, AppendProperties
    <3>2. \A i \in 1..Len(sent) : sent'[i] = sent[i]
      BY <2>4, AppendProperties
    <3>3. sent'[Len(sent) + 1] = r
      BY <2>4, AppendProperties
    <3>4. \A i \in 1..Len(toServer) + 1 :
            toServer'[i] = IF i = Len(toServer) + 1 THEN r ELSE toServer[i]
      BY <2>4, AppendProperties
    <3>5. Len(queuedLines) = 0
      BY <2>4 DEF ReadyOnce
    <3>6. RequestOrder'
      <4>1. Len(sent) = Len(received) + Len(toServer)
        BY <2>4, <3>5 DEF RequestOrder
      <4>2. \A i \in 1..Len(received') : received'[i] = sent'[i]
        BY <2>4, <3>2, <4>1 DEF RequestOrder
      <4>3. ASSUME NEW i \in 1..Len(toServer')
            PROVE  toServer'[i] = sent'[Len(received') + i]
        <5>1. CASE i = Len(toServer) + 1
          BY <2>4, <3>1, <3>3, <3>4, <4>1, <5>1
        <5>2. CASE i # Len(toServer) + 1
          <6>1. i \in 1..Len(toServer) /\ toServer'[i] = toServer[i]
            BY <3>1, <3>4, <5>2
          <6>2. Len(received) + i \in 1..Len(sent)
            BY <4>1, <6>1
          <6> QED
            BY <2>4, <3>2, <6>1, <6>2 DEF RequestOrder
        <5> QED
          BY <5>1, <5>2
      <4>4. 1..Len(queuedLines') = {} /\ Len(queuedLines') = 0
        BY <2>4, <3>5
      <4> QED
        BY <2>4, <3>1, <4>1, <4>2, <4>3, <4>4, SMTT(20) DEF RequestOrder
    <3> QED
      BY <2>4, <3>6 DEF QueueBounded
  <2> QED
    BY <2>1, <2>2, <2>3, <2>4
<1>2. CASE TcpConnect
  <2>1. CASE /\ tcp = "connecting" /\ tcp' = "up"
             /\ toServer' = toServer \o queuedLines /\ queuedLines' = <<>>
             /\ UNCHANGED <<sent, received>>
    <3>1. /\ Len(toServer') = Len(toServer) + Len(queuedLines)
          /\ Len(queuedLines') = 0
      BY <2>1, ConcatProperties
    <3>2. \A i \in 1..Len(toServer) + Len(queuedLines) :
            toServer'[i] = IF i <= Len(toServer) THEN toServer[i]
                           ELSE queuedLines[i - Len(toServer)]
      BY <2>1, ConcatProperties
    <3>3. \A i \in 1..Len(queuedLines) :
            queuedLines[i] = sent[Len(received) + Len(toServer) + i]
      BY <2>1 DEF RequestOrder
    <3>4. \A i \in 1..Len(toServer') : toServer'[i] = sent[Len(received) + i]
      <4> SUFFICES ASSUME NEW i \in 1..Len(toServer')
                   PROVE toServer'[i] = sent[Len(received) + i]
        OBVIOUS
      <4>1. CASE i <= Len(toServer)
        BY <3>1, <3>2, <4>1 DEF RequestOrder
      <4>2. CASE i > Len(toServer)
        <5>1. i - Len(toServer) \in 1..Len(queuedLines)
          BY <3>1, <4>2
        <5>2. toServer'[i] = queuedLines[i - Len(toServer)]
          <6>1. i \in 1..Len(toServer) + Len(queuedLines)
            BY <3>1
          <6>2. ~(i <= Len(toServer))
            BY <4>2, LenProperties
          <6> QED
            BY ONLY <6>1, <6>2, <3>2, Zenon
        <5>3. Len(received) + Len(toServer) + (i - Len(toServer))
                = Len(received) + i
          OBVIOUS
        <5> QED
          BY <3>3, <5>1, <5>2, <5>3
      <4> QED
        BY <4>1, <4>2
    <3>5. Len(sent) = Len(received) + Len(toServer')
      BY <2>1, <3>1 DEF RequestOrder
    <3>6. RequestOrder'
      <4>1. 1..Len(queuedLines') = {}
        BY <3>1
      <4>2. \A i \in 1..Len(received') : received'[i] = sent'[i]
        BY <2>1 DEF RequestOrder
      <4> QED
        BY <2>1, <3>1, <3>4, <3>5, <4>1, <4>2 DEF RequestOrder
    <3> QED
      BY <3>1, <3>6, GatewayAssumption DEF QueueBounded
  <2>2. CASE /\ tcp' \in {"half", "broken"} /\ queuedLines' = <<>>
             /\ UNCHANGED <<sent, received, toServer>>
    BY <2>2, GatewayAssumption DEF RequestOrder, QueueBounded
  <2> QED
    BY <1>2, <2>1, <2>2 DEF TcpConnect
<1>3. CASE ServerReads
  <2>1. /\ received' = Append(received, Head(toServer))
        /\ toServer' = Tail(toServer) /\ toServer # <<>>
        /\ UNCHANGED <<sent, queuedLines, tcp>>
    BY <1>3 DEF ServerReads
  <2>2. Len(toServer) > 0 /\ Len(toServer') = Len(toServer) - 1
        /\ Len(received') = Len(received) + 1
    BY <2>1
  <2>3. \A i \in 1..Len(toServer) - 1 : toServer'[i] = toServer[i + 1]
    BY <2>1, <2>2
  <2>4. \A i \in 1..Len(received) + 1 :
          received'[i] = IF i = Len(received) + 1 THEN toServer[1]
                         ELSE received[i]
    BY <2>1, <2>2
  <2>5. RequestOrder'
    <3>1. /\ Len(received') + Len(toServer') = Len(received) + Len(toServer)
          /\ Len(received) + Len(toServer) <= Len(sent)
      BY <2>2 DEF RequestOrder
    <3>2. ASSUME NEW i \in 1..Len(received') PROVE received'[i] = sent'[i]
      <4>1. toServer[1] = sent[Len(received) + 1]
        BY <2>2 DEF RequestOrder
      <4> QED
        BY <2>1, <2>2, <2>4, <4>1 DEF RequestOrder
    <3>3. ASSUME NEW i \in 1..Len(toServer')
          PROVE  toServer'[i] = sent'[Len(received') + i]
      <4>1. toServer[i + 1] = sent[Len(received) + (i + 1)]
        BY <2>2 DEF RequestOrder
      <4> QED
        BY <2>1, <2>2, <2>3, <4>1
    <3>4. ASSUME tcp' \in {"connecting", "up"}
          PROVE  /\ Len(sent') = Len(received') + Len(toServer')
                                   + Len(queuedLines')
                 /\ \A i \in 1..Len(queuedLines') :
                      queuedLines'[i]
                        = sent'[Len(received') + Len(toServer') + i]
      <4>1. /\ Len(sent) = Len(received) + Len(toServer) + Len(queuedLines)
            /\ \A i \in 1..Len(queuedLines) :
                 queuedLines[i] = sent[Len(received) + Len(toServer) + i]
        BY <2>1, <3>4 DEF RequestOrder
      <4> QED
        BY <2>1, <3>1, <4>1
    <3> QED
      BY <2>1, <3>1, <3>2, <3>3, <3>4 DEF RequestOrder
  <2> QED
    BY <2>1, <2>5 DEF QueueBounded
<1>4. CASE RefuseRequest \/ TcpError \/ TcpEnd \/ TcpClose \/ ServerAnswers
           \/ UNCHANGED gatewayVars
  BY <1>0, <1>4
     DEF RefuseRequest, TcpError, TcpEnd, TcpClose, ServerAnswers, gatewayVars
<1>5. CASE TcpData
  BY <1>0, <1>5 DEF TcpData
<1>6. CASE WsClose
  BY <1>0, <1>6 DEF WsClose, Ended, Destroyed
<1> QED
  BY <1>1, <1>2, <1>3, <1>4, <1>5, <1>6 DEF GatewayNext

(* The server writes the pieces of one more response behind the others.    *)
LEMMA AnswerKeepsEnds ==
  ASSUME GatewayTypes, ShownFirst, PiecesLeft, ServerAnswers
  PROVE  PiecesLeft'
<1> USE DEF GatewayTypes
<1> SUFFICES ASSUME ws = "open"
             PROVE  \E ends \in [Outstanding' -> Int] : EndsAt(ends)'
  BY DEF ServerAnswers, PiecesLeft
<1>1. PICK ends \in [Outstanding -> Int] : EndsAt(ends)
  BY DEF PiecesLeft
<1>2. PICK n \in Responses :
        answered' = Append(answered, n) /\ fromServer' = fromServer \o Pieces(n)
  BY DEF ServerAnswers
<1>3. n \in Nat \ {0}
  BY GatewayAssumption
<1> DEFINE k == Len(shown)
           last == Len(answered)
<1>4. /\ k \in Nat /\ last \in Nat /\ k <= last /\ Len(fromServer) \in Nat
      /\ tcpBuffer \in Nat
  BY DEF ShownFirst
<1>5. shown' = shown /\ tcpBuffer' = tcpBuffer
  BY DEF ServerAnswers
<1>6. /\ Len(answered') = last + 1
      /\ \A j \in 1..last + 1 :
           answered'[j] = IF j = last + 1 THEN n ELSE answered[j]
  BY <1>2, AppendProperties
<1>7. Pieces(n) \in Seq({"piece", "end"}) /\ Len(Pieces(n)) = n
  BY <1>3 DEF Pieces
<1>8. /\ Len(fromServer') = Len(fromServer) + n
      /\ \A i \in 1..Len(fromServer) + n :
           fromServer'[i] = IF i <= Len(fromServer) THEN fromServer[i]
                            ELSE Pieces(n)[i - Len(fromServer)]
  <2>1. /\ fromServer \in Seq({"piece", "end"})
        /\ fromServer' = fromServer \o Pieces(n)
    BY <1>2
  <2>2. LET all == fromServer \o Pieces(n) IN
          /\ Len(all) = Len(fromServer) + Len(Pieces(n))
          /\ \A i \in 1..Len(fromServer) + Len(Pieces(n)) :
               all[i] = IF i <= Len(fromServer) THEN fromServer[i]
                        ELSE Pieces(n)[i - Len(fromServer)]
    BY <1>7, <2>1, ConcatProperties
  <2> QED
    BY <1>7, <2>1, <2>2
<1>9. \A j \in k..last : ends[j] \in Int
  BY <1>1 DEF Outstanding
<1>16. PICK more :
         more = [j \in k..last + 1 |->
                   IF j = last + 1 THEN Len(fromServer) + n ELSE ends[j]]
  OBVIOUS
<1>10. /\ \A j \in k..last : more[j] = ends[j]
       /\ more[last + 1] = Len(fromServer) + n
  BY <1>4, <1>16
<1>11. more \in [Outstanding' -> Int]
  BY <1>3, <1>4, <1>5, <1>6, <1>9, <1>16 DEF Outstanding
<1>12. ends[k] + tcpBuffer = 0 /\ ends[last] = Len(fromServer)
  BY <1>1 DEF EndsAt
<1>13. \A j \in k + 1..last :
         ends[j] = ends[j - 1] + answered[j] /\ ends[j] > 0
  BY <1>1 DEF EndsAt
<1>14. \A j, l \in k..last : j < l => ends[j] < ends[l]
  BY <1>1 DEF EndsAt
<1>15. \A i \in 1..Len(fromServer) :
         fromServer[i] = "end" <=> \E j \in k + 1..last : ends[j] = i
  BY <1>1 DEF EndsAt
<1> HIDE DEF GatewayTypes
<1>20. more[k] + tcpBuffer = 0 /\ more[last + 1] = Len(fromServer')
  BY <1>4, <1>8, <1>10, <1>12
<1>21. ASSUME NEW j \in k + 1..last + 1
       PROVE  more[j] = more[j - 1] + answered'[j] /\ more[j] > 0
  <2>1. CASE j = last + 1
    <3>1. more[j - 1] = Len(fromServer) /\ answered'[j] = n
      BY <1>4, <1>6, <1>10, <1>12, <2>1
    <3> QED
      BY <1>3, <1>4, <1>10, <2>1, <3>1
  <2>2. CASE j # last + 1
    <3>1. j \in k + 1..last /\ j - 1 \in k..last /\ j \in k..last
      BY <1>4, <2>2
    <3>2. more[j] = ends[j] /\ more[j - 1] = ends[j - 1]
      BY <1>10, <3>1
    <3>3. answered'[j] = answered[j]
      BY <1>4, <1>6, <3>1
    <3> QED
      BY <1>13, <3>1, <3>2, <3>3
  <2> QED
    BY <2>1, <2>2
<1>22. ASSUME NEW j \in k..last + 1, NEW l \in k..last + 1, j < l
       PROVE  more[j] < more[l]
  <2>1. j \in k..last /\ more[j] = ends[j]
    BY <1>4, <1>10, <1>22
  <2>2. CASE l = last + 1
    <3>1. ends[j] <= ends[last]
      BY <1>4, <1>9, <1>14, <2>1
    <3> QED
      BY <1>3, <1>4, <1>9, <1>10, <1>12, <2>1, <2>2, <3>1
  <2>3. CASE l # last + 1
    <3>1. l \in k..last /\ more[l] = ends[l]
      BY <1>4, <1>10, <2>3
    <3> QED
      BY <1>14, <1>22, <2>1, <3>1
  <2> QED
    BY <2>2, <2>3
<1>23. ASSUME NEW i \in 1..Len(fromServer')
       PROVE  fromServer'[i] = "end" <=>
                \E j \in k + 1..last + 1 : more[j] = i
  <2>1. CASE i <= Len(fromServer)
    <3>1. i \in 1..Len(fromServer) /\ fromServer'[i] = fromServer[i]
      BY <1>4, <1>8, <2>1
    <3>2. (\E j \in k + 1..last + 1 : more[j] = i)
            <=> \E j \in k + 1..last : ends[j] = i
      <4>1. more[last + 1] # i
        BY <1>3, <1>4, <1>10, <2>1
      <4>2. \A j \in k + 1..last : more[j] = ends[j]
        BY <1>4, <1>10
      <4>3. \A j : j \in k + 1..last + 1 <=> j \in k + 1..last \/ j = last + 1
        BY <1>4
      <4> QED
        BY <4>1, <4>2, <4>3
    <3> QED
      BY <1>15, <3>1, <3>2
  <2>2. CASE i > Len(fromServer)
    <3>1. i \in 1..Len(fromServer) + n /\ i - Len(fromServer) \in 1..n
      BY <1>3, <1>4, <1>8, <2>2
    <3>2. fromServer'[i] = Pieces(n)[i - Len(fromServer)]
      BY <1>8, <2>2, <3>1, <1>4
    <3>3. fromServer'[i] = "end" <=> i - Len(fromServer) = n
      BY <3>1, <3>2 DEF Pieces
    <3>4. \A j \in k + 1..last : more[j] # i
      <4>1. \A j \in k + 1..last : more[j] = ends[j] /\ ends[j] <= ends[last]
        BY <1>4, <1>9, <1>10, <1>14
      <4> QED
        BY <1>4, <1>12, <2>2, <4>1
    <3>5. (\E j \in k + 1..last + 1 : more[j] = i) <=> i = Len(fromServer) + n
      <4>1. \A j : j \in k + 1..last + 1 <=> j \in k + 1..last \/ j = last + 1
        BY <1>4
      <4> QED
        BY <1>10, <3>4, <4>1
    <3> QED
      BY <1>3, <1>4, <3>1, <3>3, <3>5
  <2> QED
    BY <1>4, <1>8, <2>1, <2>2
<1>24. EndsAt(more)'
  BY <1>5, <1>6, <1>20, <1>21, <1>22, <1>23 DEF EndsAt
<1> QED
  BY <1>11, <1>24

(* A piece is taken off: every end comes one place nearer, and the one at  *)
(* the first place is that of the response after the last one shown.       *)
LEMMA DataKeepsEnds ==
  ASSUME GatewayTypes, ShownFirst, PiecesLeft, TcpData, ws = "open"
  PROVE  ShownFirst' /\ PiecesLeft'
<1> USE DEF GatewayTypes
<1>1. PICK ends \in [Outstanding -> Int] : EndsAt(ends)
  BY DEF PiecesLeft
<1> DEFINE k == Len(shown)
           last == Len(answered)
<1>2. /\ k \in Nat /\ last \in Nat /\ k <= last /\ Len(fromServer) \in Nat
      /\ tcpBuffer \in Nat
  BY DEF ShownFirst
<1>3. answered' = answered /\ fromServer' = Tail(fromServer)
      /\ fromServer # <<>>
  BY DEF TcpData
<1>4. /\ Len(fromServer) > 0 /\ Len(fromServer') = Len(fromServer) - 1
      /\ \A i \in 1..Len(fromServer) - 1 : fromServer'[i] = fromServer[i + 1]
      /\ Head(fromServer) = fromServer[1]
  BY <1>3
<1>5. \A j \in k..last : ends[j] \in Int
  BY <1>1 DEF Outstanding
<1>6. ends[k] + tcpBuffer = 0 /\ ends[last] = Len(fromServer)
  BY <1>1 DEF EndsAt
<1>7. \A j \in k + 1..last :
        ends[j] = ends[j - 1] + answered[j] /\ ends[j] > 0
  BY <1>1 DEF EndsAt
<1>8. \A j, l \in k..last : j < l => ends[j] < ends[l]
  BY <1>1 DEF EndsAt
<1>9. \A i \in 1..Len(fromServer) :
        fromServer[i] = "end" <=> \E j \in k + 1..last : ends[j] = i
  BY <1>1 DEF EndsAt
<1>13. \A j \in 1..last : answered[j] \in Nat
  <2>1. \A j \in 1..last : answered[j] \in Responses
    BY LenProperties
  <2> QED
    BY <2>1, GatewayAssumption
<1>14. tcpBuffer + 1 \in Nat /\ shown \in Seq(Nat)
  OBVIOUS
<1> HIDE DEF GatewayTypes
<1>10. k < last
  BY <1>2, <1>4, <1>5, <1>6
<1>11. CASE fromServer[1] = "end"
  <2>1. shown' = Append(shown, tcpBuffer + 1) /\ tcpBuffer' = 0
    BY <1>4, <1>11 DEF TcpData
  <2>3. /\ Len(shown') = k + 1 /\ shown'[k + 1] = tcpBuffer + 1
        /\ \A i \in 1..k : shown'[i] = shown[i]
    BY <1>14, <2>1, AppendProperties
  <2>4. PICK j \in k + 1..last : ends[j] = 1
    BY <1>2, <1>4, <1>9, <1>11
  <2>5. j = k + 1
    <3>1. k + 1 \in k + 1..last /\ k + 1 \in k..last /\ j \in k..last
      BY <1>2, <1>10
    <3>2. ends[k + 1] > 0
      BY <1>7, <3>1
    <3>3. k + 1 < j => ends[k + 1] < 1
      BY <1>8, <2>4, <3>1
    <3> QED
      BY <1>2, <1>5, <3>1, <3>2, <3>3
  <2>6. answered[k + 1] = tcpBuffer + 1
    <3>1. ends[k + 1] = ends[(k + 1) - 1] + answered[k + 1]
      BY <1>2, <1>7, <1>10
    <3>2. answered[k + 1] \in Nat
      BY <1>2, <1>10, <1>13
    <3>3. (k + 1) - 1 = k
      BY <1>2
    <3>4. 1 = ends[k] + answered[k + 1] /\ ends[k] \in Int
      BY <1>2, <1>5, <2>4, <2>5, <3>1, <3>3
    <3> QED
      BY <1>2, <1>6, <3>2, <3>4
  <2>7. ShownFirst'
    BY <1>2, <1>3, <1>10, <2>3, <2>6 DEF ShownFirst
  <2>8. PICK next : next = [i \in k + 1..last |-> ends[i] - 1]
    OBVIOUS
  <2>9. \A i \in k + 1..last : next[i] = ends[i] - 1 /\ ends[i] \in Int
    BY <1>2, <1>5, <2>8
  <2>10. next \in [Outstanding' -> Int]
    BY <1>2, <1>3, <1>5, <2>3, <2>8 DEF Outstanding
  <2>11. next[k + 1] + 0 = 0 /\ next[last] = Len(fromServer')
    <3>1. k + 1 \in k + 1..last /\ last \in k + 1..last
      BY <1>2, <1>10
    <3>2. next[k + 1] = ends[k + 1] - 1 /\ next[last] = ends[last] - 1
      BY <2>9, <3>1
    <3> QED
      BY <1>2, <1>4, <1>6, <2>4, <2>5, <3>2
  <2>12. ASSUME NEW i \in (k + 1) + 1..last
         PROVE  next[i] = next[i - 1] + answered[i] /\ next[i] > 0
    <3>1. /\ i \in k + 1..last /\ i - 1 \in k + 1..last
          /\ i \in k..last /\ k + 1 \in k..last /\ k + 1 < i
      BY <1>2
    <3>2. ends[i] = ends[i - 1] + answered[i] /\ ends[k + 1] < ends[i]
      BY <1>7, <1>8, <3>1
    <3>3. answered[i] \in Nat
      BY <1>2, <1>13
    <3>4. /\ next[i] = ends[i] - 1 /\ next[i - 1] = ends[i - 1] - 1
          /\ ends[i] \in Int /\ ends[i - 1] \in Int
      BY <2>9, <3>1
    <3>5. ends[k + 1] = 1
      BY <2>4, <2>5
    <3> QED
      BY <3>2, <3>3, <3>4, <3>5
  <2>13. ASSUME NEW i \in k + 1..last, NEW l \in k + 1..last, i < l
         PROVE  next[i] < next[l]
    <3>1. ends[i] < ends[l]
      BY <1>2, <1>8, <2>13
    <3> QED
      BY <2>9, <3>1
  <2>14. ASSUME NEW i \in 1..Len(fromServer')
         PROVE  fromServer'[i] = "end" <=>
                  \E l \in (k + 1) + 1..last : next[l] = i
    <3>1. i + 1 \in 1..Len(fromServer) /\ fromServer'[i] = fromServer[i + 1]
          /\ i \in Nat /\ i > 0
      BY <1>2, <1>4
    <3>2. \A l \in k + 1..last : ends[l] = i + 1 => l # k + 1
      BY <2>4, <2>5, <3>1
    <3>3. \A l : l \in k + 1..last /\ l # k + 1 <=> l \in (k + 1) + 1..last
      BY <1>2
    <3>4. \A l \in k + 1..last : next[l] = i <=> ends[l] = i + 1
      BY <2>9, <3>1
    <3> QED
      BY <1>9, <3>1, <3>2, <3>3, <3>4
  <2>15. EndsAt(next)'
    BY <1>3, <2>1, <2>3, <2>11, <2>12, <2>13, <2>14 DEF EndsAt
  <2> QED
    BY <2>7, <2>10, <2>15 DEF PiecesLeft
<1>12. CASE fromServer[1] # "end"
  <2>1. shown' = shown /\ tcpBuffer' = tcpBuffer + 1
    BY <1>4, <1>12 DEF TcpData
  <2>2. ShownFirst'
    BY <1>3, <2>1 DEF ShownFirst
  <2>3. PICK next : next = [i \in k..last |-> ends[i] - 1]
    OBVIOUS
  <2>4. \A i \in k..last : next[i] = ends[i] - 1 /\ ends[i] \in Int
    BY <1>5, <2>3
  <2>5. next \in [Outstanding' -> Int]
    BY <1>3, <1>5, <2>1, <2>3 DEF Outstanding
  <2>6. next[k] + (tcpBuffer + 1) = 0 /\ next[last] = Len(fromServer')
    BY <1>2, <1>4, <1>6, <2>4
  <2>7. ASSUME NEW i \in k + 1..last
        PROVE  next[i] = next[i - 1] + answered[i] /\ next[i] > 0
    <3>1. i \in k..last /\ i - 1 \in k..last
      BY <1>2
    <3>2. ends[i] = ends[i - 1] + answered[i] /\ ends[i] > 0
      BY <1>7
    <3>3. ends[i] # 1
      BY <1>2, <1>4, <1>9, <1>12
    <3>4. answered[i] \in Nat
      BY <1>2, <1>13
    <3>5. /\ next[i] = ends[i] - 1 /\ next[i - 1] = ends[i - 1] - 1
          /\ ends[i] \in Int /\ ends[i - 1] \in Int
      BY <2>4, <3>1
    <3> QED
      BY <3>2, <3>3, <3>4, <3>5
  <2>8. ASSUME NEW i \in k..last, NEW l \in k..last, i < l
        PROVE  next[i] < next[l]
    BY <1>8, <2>4, <2>8
  <2>9. ASSUME NEW i \in 1..Len(fromServer')
        PROVE  fromServer'[i] = "end" <=> \E l \in k + 1..last : next[l] = i
    <3>1. i + 1 \in 1..Len(fromServer) /\ fromServer'[i] = fromServer[i + 1]
          /\ i \in Nat
      BY <1>2, <1>4
    <3>2. \A l \in k + 1..last : next[l] = i <=> ends[l] = i + 1
      BY <1>2, <2>4, <3>1
    <3> QED
      BY <1>9, <3>1, <3>2
  <2>10. EndsAt(next)'
    BY <1>3, <2>1, <2>6, <2>7, <2>8, <2>9 DEF EndsAt
  <2> QED
    BY <2>2, <2>5, <2>10 DEF PiecesLeft
<1> QED
  BY <1>11, <1>12

(* The pieces on their way stay those of the responses not yet shown.      *)
LEMMA PiecesKept ==
  GatewayTypes /\ ShownFirst /\ PiecesLeft /\ [GatewayNext]_gatewayVars
    => ShownFirst' /\ PiecesLeft'
<1> SUFFICES ASSUME GatewayTypes, ShownFirst, PiecesLeft,
                    [GatewayNext]_gatewayVars
             PROVE  ShownFirst' /\ PiecesLeft'
  OBVIOUS
<1>1. ASSUME UNCHANGED <<shown, answered, fromServer, tcpBuffer>>,
             ws' = "open" => ws = "open"
      PROVE  ShownFirst' /\ PiecesLeft'
  <2>1. ShownFirst' /\ Outstanding' = Outstanding
    BY <1>1 DEF ShownFirst, Outstanding
  <2>2. \A ends : EndsAt(ends) => EndsAt(ends)'
    BY <1>1 DEF EndsAt
  <2> QED
    BY <1>1, <2>1, <2>2 DEF PiecesLeft
<1>2. CASE RefuseRequest \/ ForwardRequest \/ WsClose \/ TcpError \/ TcpEnd
           \/ TcpClose \/ ServerReads \/ UNCHANGED gatewayVars
  BY <1>1, <1>2
     DEF RefuseRequest, ForwardRequest, WsClose, TcpError, TcpEnd, TcpClose,
         ServerReads, gatewayVars
<1>3. CASE TcpConnect
  BY <1>1, <1>3 DEF TcpConnect
<1>4. CASE ServerAnswers
  <2>1. PICK n \in Responses : answered' = Append(answered, n)
    BY <1>4 DEF ServerAnswers
  <2>2. shown' = shown
    BY <1>4 DEF ServerAnswers
  <2>3. /\ Len(answered') = Len(answered) + 1
        /\ \A i \in 1..Len(answered) : answered'[i] = answered[i]
    BY <2>1, AppendProperties DEF GatewayTypes
  <2>4. Len(shown) \in Nat /\ Len(answered) \in Nat
    BY DEF GatewayTypes
  <2>5. ShownFirst'
    BY <2>2, <2>3, <2>4 DEF ShownFirst
  <2> QED
    BY <1>4, <2>5, AnswerKeepsEnds
<1>5. CASE TcpData /\ ws = "open"
  BY <1>5, DataKeepsEnds
<1>6. CASE TcpData /\ ws # "open"
  <2>1. shown' = shown /\ answered' = answered /\ ws' # "open"
    BY <1>6 DEF TcpData
  <2> QED
    BY <2>1 DEF ShownFirst, PiecesLeft
<1> QED
  BY <1>2, <1>3, <1>4, <1>5, <1>6 DEF GatewayNext

-----------------------------------------------------------------------------
(* The invariant holds in every state of the specification.                *)
THEOREM AlwaysGatewayInv == GatewaySpec => []GatewayInv
<1>1. GatewayInv /\ [GatewayNext]_gatewayVars => GatewayInv'
  BY TypesKept, ReadyKept, OrderKept, PiecesKept DEF GatewayInv
<1> QED
  BY InitInv, <1>1, PTL DEF GatewaySpec

(* server.js:95-144: the requests reach the server, and the responses the  *)
(* browser, whole and in order, and the queue keeps its limit.             *)
THEOREM RelayedAlwaysInOrder == GatewaySpec => []RelayedInOrder
<1>1. GatewayInv => RelayedInOrder
  <2> SUFFICES ASSUME GatewayInv PROVE RelayedInOrder
    OBVIOUS
  <2> USE DEF GatewayInv, GatewayTypes
  <2> DEFINE flow == received \o toServer
  <2>1. /\ flow \in Seq(Requests) /\ Len(flow) = Len(received) + Len(toServer)
        /\ \A i \in 1..Len(flow) :
             flow[i] = IF i <= Len(received) THEN received[i]
                       ELSE toServer[i - Len(received)]
    BY ConcatProperties
  <2>2. ASSUME tcp \in {"connecting", "up"}
        PROVE  sent = received \o toServer \o queuedLines
    <3> DEFINE all == flow \o queuedLines
    <3>1. /\ all \in Seq(Requests) /\ Len(all) = Len(flow) + Len(queuedLines)
          /\ \A i \in 1..Len(all) :
               all[i] = IF i <= Len(flow) THEN flow[i]
                        ELSE queuedLines[i - Len(flow)]
      BY <2>1, ConcatProperties
    <3>2. Len(sent) = Len(received) + Len(toServer) + Len(queuedLines)
      BY <2>2 DEF RequestOrder
    <3>3. \A i \in 1..Len(queuedLines) :
            queuedLines[i] = sent[Len(received) + Len(toServer) + i]
      BY <2>2 DEF RequestOrder
    <3>4. ASSUME NEW i \in 1..Len(sent) PROVE sent[i] = all[i]
      <4> HIDE DEF flow, all
      <4>1. CASE i <= Len(received)
        <5>1. all[i] = flow[i] /\ flow[i] = received[i]
          BY <2>1, <3>1, <3>2, <4>1
        <5>2. received[i] = sent[i]
          BY <4>1 DEF RequestOrder
        <5> QED
          BY <5>1, <5>2
      <4>2. CASE i > Len(received) /\ i <= Len(flow)
        <5>1. i - Len(received) \in 1..Len(toServer)
          BY <2>1, <4>2
        <5>2. all[i] = toServer[i - Len(received)]
          BY <2>1, <3>1, <3>2, <4>2
        <5>3. toServer[i - Len(received)]
                = sent[Len(received) + (i - Len(received))]
          BY <5>1 DEF RequestOrder
        <5>4. Len(received) + (i - Len(received)) = i
          OBVIOUS
        <5> QED
          BY <5>2, <5>3, <5>4
      <4>3. CASE i > Len(flow)
        <5>1. i - Len(flow) \in 1..Len(queuedLines)
          BY <2>1, <3>2, <4>3
        <5>2. all[i] = queuedLines[i - Len(flow)]
          BY <2>1, <3>1, <3>2, <4>3
        <5>3. Len(received) + Len(toServer) + (i - Len(flow)) = i
          BY <2>1
        <5> QED
          BY <3>3, <5>1, <5>2, <5>3
      <4> QED
        BY <2>1, <4>1, <4>2, <4>3
    <3>5. Len(sent) = Len(all)
      BY <2>1, <3>1, <3>2
    <3> HIDE DEF all
    <3>6. sent = all
      BY <3>1, <3>4, <3>5, SeqEqual
    <3> QED
      BY <3>6 DEF all
  <2>3. IsPrefix(received, sent)
    BY DEF RequestOrder, IsPrefix
  <2>4. IsPrefix(shown, answered)
    BY DEF ShownFirst, IsPrefix
  <2> QED
    BY <2>2, <2>3, <2>4 DEF RelayedInOrder, QueueBounded
<1> QED
  BY <1>1, AlwaysGatewayInv, PTL

-----------------------------------------------------------------------------
(* The logins.  First those of the web page.                               *)

ReadyStates == {"connecting", "open", "closing", "lost", "closed"}

Texts == Names \cup {NoName}

PageTypes ==
  /\ state \in [ws : Nat, loggedIn : BOOLEAN, username : Texts,
                pendingUsername : Texts]
  /\ sockets \in [1 .. state.ws -> ReadyStates]
  /\ requests \in [1 .. state.ws -> Seq(Texts)]
  /\ responses \in [1 .. state.ws -> Seq(Texts)]
  /\ session \in [1 .. state.ws -> Texts]

(* A WebSocket that the page has forgotten delivers nothing more.          *)
OthersSilent ==
  \A s \in 1 .. state.ws :
    s # state.ws => sockets[s] \notin {"connecting", "open"}

(* The server hears of an end after the page has or will.                  *)
EndsReal ==
  \A s \in ended :
    s \in 1 .. state.ws /\ sockets[s] \in {"closing", "lost", "closed"}

(* What a session's responses name is its user.                            *)
ResponsesTrue ==
  \A s \in 1 .. state.ws : s \notin ended =>
    \A k \in DOMAIN responses[s] : responses[s][k] \in {NoName, session[s]}

(* The page that shows a user has no login form any more, and so makes no  *)
(* other WebSocket.                                                        *)
HiddenForGood ==
  /\ state.loggedIn => loginForm = "hidden" /\ state.username # NoName
  /\ loginForm = "hidden" =>
       state.ws \in 1 .. state.ws /\ sockets[state.ws] # "connecting"

PageInv ==
  /\ PageTypes /\ OthersSilent /\ EndsReal /\ ResponsesTrue /\ HiddenForGood
  /\ W!ShownIsSession

(* A function on 1..n is a sequence, and what appending to it makes.       *)
LEMMA VectorIs ==
  ASSUME NEW D, NEW n \in Nat, NEW v \in [1 .. n -> D]
  PROVE  v \in Seq(D) /\ Len(v) = n
OBVIOUS

IsGrown(u, D, n, v, e) ==
  /\ u \in [1 .. n + 1 -> D]
  /\ \A i \in 1 .. n : u[i] = v[i]
  /\ u[n + 1] = e

(* A vector of numbered entries, and one more.                             *)
LEMMA VectorGrows ==
  ASSUME NEW D, NEW n \in Nat, NEW v \in [1 .. n -> D], NEW e \in D
  PROVE  IsGrown(Append(v, e), D, n, v, e)
<1>1. v \in Seq(D) /\ Len(v) = n
  BY VectorIs
<1>2. PICK u : u = Append(v, e)
  OBVIOUS
<1>3. /\ u \in Seq(D) /\ Len(u) = n + 1
      /\ \A i \in 1 .. n : u[i] = v[i]
      /\ u[n + 1] = e
  BY <1>1, <1>2, AppendProperties
<1>4. u \in [1 .. n + 1 -> D]
  BY <1>3, LenProperties
<1> QED
  BY <1>2, <1>3, <1>4 DEF IsGrown

(* What is left of a queue, and what is in one that grew.                  *)
LEMMA QueueShrinks ==
  ASSUME NEW D, NEW s \in Seq(D), s # <<>>
  PROVE  /\ Head(s) \in D /\ Tail(s) \in Seq(D) /\ 1 \in DOMAIN s
         /\ Head(s) = s[1]
         /\ \A k \in DOMAIN Tail(s) : k + 1 \in DOMAIN s /\ Tail(s)[k] = s[k + 1]
<1>1. /\ Head(s) \in D /\ Tail(s) \in Seq(D)
      /\ Len(Tail(s)) = Len(s) - 1
      /\ \A i \in 1 .. Len(Tail(s)) : Tail(s)[i] = s[i + 1]
  BY HeadTailProperties
<1>2. Len(s) \in Nat \ {0} /\ DOMAIN s = 1 .. Len(s)
  BY EmptySeq, LenProperties
<1>3. DOMAIN Tail(s) = 1 .. Len(s) - 1
  BY <1>1, LenProperties
<1>4. Head(s) = s[1]
  BY <1>2
<1> QED
  BY <1>1, <1>2, <1>3, <1>4

(* A queue with one more behind.                                           *)
LEMMA QueueGrows ==
  ASSUME NEW D, NEW s \in Seq(D), NEW e \in D
  PROVE  /\ Append(s, e) \in Seq(D)
         /\ \A k \in DOMAIN Append(s, e) :
              \/ k \in DOMAIN s /\ Append(s, e)[k] = s[k]
              \/ Append(s, e)[k] = e
<1>1. /\ Append(s, e) \in Seq(D) /\ Len(Append(s, e)) = Len(s) + 1
      /\ \A i \in 1 .. Len(s) : Append(s, e)[i] = s[i]
      /\ Append(s, e)[Len(s) + 1] = e
  BY AppendProperties
<1>2. /\ Len(s) \in Nat /\ DOMAIN s = 1 .. Len(s)
      /\ DOMAIN Append(s, e) = 1 .. Len(s) + 1
  BY <1>1, LenProperties
<1>3. \A k \in 1 .. Len(s) + 1 : k \in 1 .. Len(s) \/ k = Len(s) + 1
  BY <1>2
<1> QED
  BY <1>1, <1>2, <1>3

(* A name is typed, and a WebSocket made.                                  *)
LEMMA ConnectStep ==
  ASSUME PageInv, NEW name \in Names, W!ConnectAndLogin(name)
  PROVE  PageInv'
<1>1. PICK n \in Nat : n = state.ws
  BY DEF PageInv, PageTypes
<1>2. /\ sockets \in [1 .. n -> ReadyStates]
      /\ requests \in [1 .. n -> Seq(Texts)]
      /\ responses \in [1 .. n -> Seq(Texts)]
      /\ session \in [1 .. n -> Texts]
  BY <1>1 DEF PageInv, PageTypes
<1>3. Len(sockets) = n /\ DOMAIN sockets = 1 .. n
  BY <1>2, VectorIs
<1>4. PICK old : old = [s \in W!Sockets |->
                         IF s = state.ws /\ sockets[s] \in {"connecting", "open"}
                         THEN "closing" ELSE sockets[s]]
  OBVIOUS
<1>5. /\ old \in [1 .. n -> ReadyStates]
      /\ \A s \in 1 .. n : /\ old[s] \notin {"connecting", "open"}
                           /\ old[s] = sockets[s] \/ old[s] = "closing"
  BY <1>1, <1>2, <1>3, <1>4 DEF PageInv, OthersSilent, ReadyStates, W!Sockets
<1>6. /\ loginForm = "enabled" /\ loginForm' = "disabled"
      /\ state' = [state EXCEPT !.ws = n + 1, !.pendingUsername = name]
      /\ sockets' = Append(old, "connecting")
      /\ requests' = Append(requests, <<>>)
      /\ responses' = Append(responses, <<>>)
      /\ session' = Append(session, NoName)
      /\ ended' = ended
  BY <1>1, <1>3, <1>4 DEF W!ConnectAndLogin
<1>7. /\ state'.ws = n + 1 /\ state'.loggedIn = state.loggedIn
      /\ state' \in [ws : Nat, loggedIn : BOOLEAN, username : Texts,
                     pendingUsername : Texts]
  <2>1. /\ state \in [ws : Nat, loggedIn : BOOLEAN, username : Texts,
                      pendingUsername : Texts]
        /\ name \in Texts /\ n + 1 \in Nat
    BY DEF PageInv, PageTypes, Texts
  <2> QED
    BY <1>6, <2>1
<1>8. <<>> \in Seq(Texts) /\ NoName \in Texts /\ "connecting" \in ReadyStates
  BY EmptySeq DEF Texts, ReadyStates
<1>9. /\ sockets' \in [1 .. n + 1 -> ReadyStates]
      /\ \A s \in 1 .. n : sockets'[s] = old[s]
      /\ sockets'[n + 1] = "connecting"
  <2>1. IsGrown(Append(old, "connecting"), ReadyStates, n, old, "connecting")
    BY <1>5, <1>8, VectorGrows
  <2> QED
    BY <1>6, <2>1 DEF IsGrown
<1>10. requests' \in [1 .. n + 1 -> Seq(Texts)]
  <2>1. IsGrown(Append(requests, <<>>), Seq(Texts), n, requests, <<>>)
    BY <1>2, <1>8, VectorGrows
  <2> QED
    BY <1>6, <2>1 DEF IsGrown
<1>11. /\ responses' \in [1 .. n + 1 -> Seq(Texts)]
       /\ \A s \in 1 .. n : responses'[s] = responses[s]
       /\ responses'[n + 1] = <<>>
  <2>1. IsGrown(Append(responses, <<>>), Seq(Texts), n, responses, <<>>)
    BY <1>2, <1>8, VectorGrows
  <2> QED
    BY <1>6, <2>1 DEF IsGrown
<1>12. /\ session' \in [1 .. n + 1 -> Texts]
       /\ \A s \in 1 .. n : session'[s] = session[s]
  <2>1. IsGrown(Append(session, NoName), Texts, n, session, NoName)
    BY <1>2, <1>8, VectorGrows
  <2> QED
    BY <1>6, <2>1 DEF IsGrown
<1>13. \A s \in 1 .. n + 1 : s \in 1 .. n \/ s = n + 1
  OBVIOUS
<1>14. PageTypes'
  BY <1>7, <1>9, <1>10, <1>11, <1>12 DEF PageTypes
<1>15. OthersSilent'
  BY <1>5, <1>7, <1>9, <1>13 DEF OthersSilent
<1>16. EndsReal'
  <2> SUFFICES ASSUME NEW s \in ended
               PROVE  /\ s \in 1 .. n + 1
                      /\ sockets'[s] \in {"closing", "lost", "closed"}
    BY <1>6, <1>7 DEF EndsReal
  <2>1. s \in 1 .. n /\ sockets[s] \in {"closing", "lost", "closed"}
    BY <1>1 DEF PageInv, EndsReal
  <2> QED
    BY <1>5, <1>9, <2>1
<1>17. ResponsesTrue'
  <2> SUFFICES ASSUME NEW s \in 1 .. n + 1, s \notin ended,
                      NEW k \in DOMAIN responses'[s]
               PROVE  responses'[s][k] \in {NoName, session'[s]}
    BY <1>6, <1>7 DEF ResponsesTrue
  <2>1. s # n + 1
    BY <1>11, EmptySeq, LenProperties
  <2> QED
    BY <1>1, <1>11, <1>12, <1>13, <2>1 DEF PageInv, ResponsesTrue
<1>18. ~ state'.loggedIn /\ loginForm' # "hidden"
  BY <1>6, <1>7 DEF PageInv, HiddenForGood
<1> QED
  BY <1>14, <1>15, <1>16, <1>17, <1>18
     DEF PageInv, HiddenForGood, W!ShownIsSession

(* The events of a WebSocket.                                              *)
LEMMA OpenStep ==
  ASSUME PageInv, NEW s \in 1 .. state.ws, W!OnOpen(s)
  PROVE  PageInv'
<1>1. /\ sockets[s] = "connecting"
      /\ sockets' = [sockets EXCEPT ![s] = "open"]
      /\ requests' = IF sockets'[state.ws] = "open"
                     THEN [requests EXCEPT ![state.ws] =
                                             Append(@, state.pendingUsername)]
                     ELSE requests
      /\ state' = state /\ loginForm' = loginForm /\ responses' = responses
      /\ session' = session /\ ended' = ended
  BY DEF W!OnOpen
<1>2. s = state.ws
  BY <1>1 DEF PageInv, OthersSilent
<1>3. PageTypes'
  <2>1. sockets' \in [1 .. state.ws -> ReadyStates]
    BY <1>1 DEF PageInv, PageTypes, ReadyStates
  <2>2. Append(requests[state.ws], state.pendingUsername) \in Seq(Texts)
    BY <1>2, AppendProperties DEF PageInv, PageTypes
  <2>3. requests' \in [1 .. state.ws -> Seq(Texts)]
    BY <1>1, <2>2 DEF PageInv, PageTypes
  <2> QED
    BY <1>1, <2>1, <2>3 DEF PageInv, PageTypes
<1>4. \A t \in 1 .. state.ws : t # s => sockets'[t] = sockets[t]
  BY <1>1 DEF PageInv, PageTypes
<1>5. OthersSilent'
  BY <1>1, <1>2, <1>4 DEF PageInv, OthersSilent
<1>6. EndsReal'
  BY <1>1, <1>4 DEF PageInv, EndsReal
<1>7. ~ state.loggedIn /\ loginForm # "hidden"
  BY <1>1, <1>2 DEF PageInv, HiddenForGood
<1> QED
  BY <1>1, <1>3, <1>5, <1>6, <1>7
     DEF PageInv, ResponsesTrue, HiddenForGood, W!ShownIsSession

(* The page reads a response.                                              *)
LEMMA MessageStep ==
  ASSUME PageInv, NEW s \in 1 .. state.ws, W!OnMessage(s)
  PROVE  PageInv'
<1>1. /\ sockets[s] = "open" /\ responses[s] # <<>>
      /\ responses' = [responses EXCEPT ![s] = Tail(@)]
      /\ sockets' = sockets /\ requests' = requests /\ session' = session
      /\ ended' = ended
  BY DEF W!OnMessage
<1>2. s = state.ws
  BY <1>1 DEF PageInv, OthersSilent
<1>3. PICK queue \in Seq(Texts) : queue = responses[s] /\ queue # <<>>
  BY <1>1 DEF PageInv, PageTypes
<1>4. /\ Head(queue) \in Texts /\ Tail(queue) \in Seq(Texts)
      /\ 1 \in DOMAIN queue /\ Head(queue) = queue[1]
      /\ \A k \in DOMAIN Tail(queue) :
           k + 1 \in DOMAIN queue /\ Tail(queue)[k] = queue[k + 1]
  BY <1>3, QueueShrinks
<1>5. \/ /\ Head(queue) # NoName /\ loginForm' = "hidden"
         /\ state' = [state EXCEPT !.username = Head(queue), !.loggedIn = TRUE,
                                   !.pendingUsername = NoName]
      \/ /\ state' = state
         /\ (loginForm' = "hidden") <=> (loginForm = "hidden")
  BY <1>3 DEF W!OnMessage, W!EnableLogin
<1>6. /\ state'.ws = state.ws
      /\ state' \in [ws : Nat, loggedIn : BOOLEAN, username : Texts,
                     pendingUsername : Texts]
  BY <1>4, <1>5 DEF PageInv, PageTypes, Texts
<1>7. /\ responses' \in [1 .. state.ws -> Seq(Texts)]
      /\ responses'[s] = Tail(queue)
      /\ \A t \in 1 .. state.ws : t # s => responses'[t] = responses[t]
  BY <1>1, <1>3, <1>4 DEF PageInv, PageTypes
<1>8. PageTypes' /\ OthersSilent' /\ EndsReal'
  BY <1>1, <1>6, <1>7 DEF PageInv, PageTypes, OthersSilent, EndsReal
<1>9. ResponsesTrue'
  <2> SUFFICES ASSUME NEW t \in 1 .. state.ws, t \notin ended,
                      NEW k \in DOMAIN responses'[t]
               PROVE  responses'[t][k] \in {NoName, session[t]}
    BY <1>1, <1>6 DEF ResponsesTrue
  <2>1. CASE t = s
    <3>1. k \in DOMAIN Tail(queue) /\ responses'[t][k] = Tail(queue)[k]
      BY <1>7, <2>1
    <3>2. k + 1 \in DOMAIN responses[t] /\ responses'[t][k] = responses[t][k + 1]
      BY <1>3, <1>4, <2>1, <3>1
    <3> QED
      BY <3>2 DEF PageInv, ResponsesTrue
  <2>2. CASE t # s
    BY <1>7, <2>2 DEF PageInv, ResponsesTrue
  <2> QED
    BY <2>1, <2>2
<1>10. s \notin ended
  BY <1>1 DEF PageInv, EndsReal
<1>11. Head(queue) \in {NoName, session[s]}
  BY <1>3, <1>4, <1>10 DEF PageInv, ResponsesTrue
<1>12. CASE /\ state' = state
            /\ (loginForm' = "hidden") <=> (loginForm = "hidden")
  BY <1>1, <1>8, <1>9, <1>12 DEF PageInv, HiddenForGood, W!ShownIsSession
<1>13. CASE /\ Head(queue) # NoName /\ loginForm' = "hidden"
            /\ state' = [state EXCEPT !.username = Head(queue),
                           !.loggedIn = TRUE, !.pendingUsername = NoName]
  <2>1. state'.username = Head(queue) /\ state'.loggedIn
    BY <1>13 DEF PageInv, PageTypes
  <2>2. HiddenForGood'
    BY <1>1, <1>2, <1>6, <1>13, <2>1 DEF HiddenForGood
  <2>3. W!ShownIsSession'
    BY <1>1, <1>2, <1>6, <1>11, <1>13, <2>1 DEF W!ShownIsSession
  <2> QED
    BY <1>8, <1>9, <2>2, <2>3 DEF PageInv
<1> QED
  BY <1>5, <1>12, <1>13

(* A socket of the page closes, or breaks.                                 *)
LEMMA CloseStep ==
  ASSUME PageInv, NEW s \in 1 .. state.ws, W!OnClose(s) \/ W!Break(s)
  PROVE  PageInv'
<1>1. /\ \/ sockets' = [sockets EXCEPT ![s] = "closed"]
         \/ sockets[s] = "open" /\ sockets' = [sockets EXCEPT ![s] = "lost"]
      /\ \/ state' = state
         \/ state' = [state EXCEPT !.loggedIn = FALSE,
                                   !.pendingUsername = NoName]
      /\ loginForm' = "hidden" <=> loginForm = "hidden"
      /\ requests' = requests /\ responses' = responses /\ session' = session
      /\ ended' = ended
  BY DEF W!OnClose, W!Break, W!EnableLogin
<1>2. /\ state'.ws = state.ws /\ state'.username = state.username
      /\ state'.loggedIn => state.loggedIn
      /\ state' \in [ws : Nat, loggedIn : BOOLEAN, username : Texts,
                     pendingUsername : Texts]
  BY <1>1 DEF PageInv, PageTypes, Texts
<1>3. /\ sockets' \in [1 .. state.ws -> ReadyStates]
      /\ sockets'[s] = "closed" \/ sockets'[s] = "lost"
      /\ \A t \in 1 .. state.ws : t # s => sockets'[t] = sockets[t]
  BY <1>1 DEF PageInv, PageTypes, ReadyStates
<1>4. PageTypes' /\ OthersSilent' /\ EndsReal'
  BY <1>1, <1>2, <1>3 DEF PageInv, PageTypes, OthersSilent, EndsReal
<1>5. ResponsesTrue' /\ HiddenForGood'
  BY <1>1, <1>2, <1>3 DEF PageInv, ResponsesTrue, HiddenForGood
<1>6. W!ShownIsSession'
  BY <1>1, <1>2, <1>3 DEF PageInv, HiddenForGood, W!ShownIsSession
<1> QED
  BY <1>4, <1>5, <1>6 DEF PageInv

(* The server's steps.                                                     *)
LEMMA ServeStep ==
  ASSUME PageInv, NEW s \in 1 .. state.ws, W!ServeLogin(s)
  PROVE  PageInv'
<1>1. /\ requests[s] # <<>> /\ s \notin ended
      /\ requests' = [requests EXCEPT ![s] = Tail(@)]
      /\ state' = state /\ loginForm' = loginForm /\ sockets' = sockets
      /\ ended' = ended
  BY DEF W!ServeLogin
<1>2. PICK queue \in Seq(Texts) : queue = requests[s] /\ queue # <<>>
  BY <1>1 DEF PageInv, PageTypes
<1>3. Head(queue) \in Texts /\ Tail(queue) \in Seq(Texts)
  BY <1>2, HeadTailProperties
<1>4. PICK name \in Texts :
        /\ responses' = [responses EXCEPT ![s] = Append(@, name)]
        /\ \/ name = NoName /\ session' = session
           \/ session[s] = NoName /\ session' = [session EXCEPT ![s] = name]
  BY <1>2, <1>3 DEF W!ServeLogin, Texts
<1>5. PICK before \in Seq(Texts) : before = responses[s]
  BY DEF PageInv, PageTypes
<1>6. /\ Append(before, name) \in Seq(Texts)
      /\ \A k \in DOMAIN Append(before, name) :
           \/ k \in DOMAIN before /\ Append(before, name)[k] = before[k]
           \/ Append(before, name)[k] = name
  BY QueueGrows
<1>7. /\ responses' \in [1 .. state.ws -> Seq(Texts)]
      /\ responses'[s] = Append(before, name)
      /\ \A t \in 1 .. state.ws : t # s => responses'[t] = responses[t]
  BY <1>4, <1>5, <1>6 DEF PageInv, PageTypes
<1>8. /\ session' \in [1 .. state.ws -> Texts]
      /\ \/ session'[s] = session[s] /\ name = NoName
         \/ session[s] = NoName /\ session'[s] = name
      /\ \A t \in 1 .. state.ws : t # s => session'[t] = session[t]
  BY <1>4 DEF PageInv, PageTypes
<1>9. requests' \in [1 .. state.ws -> Seq(Texts)]
  BY <1>1, <1>2, <1>3 DEF PageInv, PageTypes
<1>10. PageTypes' /\ OthersSilent' /\ EndsReal' /\ HiddenForGood'
  BY <1>1, <1>7, <1>8, <1>9
     DEF PageInv, PageTypes, OthersSilent, EndsReal, HiddenForGood
<1>11. ResponsesTrue'
  <2> SUFFICES ASSUME NEW t \in 1 .. state.ws, t \notin ended,
                      NEW k \in DOMAIN responses'[t]
               PROVE  responses'[t][k] \in {NoName, session'[t]}
    BY <1>1 DEF ResponsesTrue
  <2>1. \A m \in DOMAIN responses[t] : responses[t][m] \in {NoName, session[t]}
    BY DEF PageInv, ResponsesTrue
  <2> QED
    BY <1>5, <1>6, <1>7, <1>8, <2>1
<1>12. W!ShownIsSession'
  BY <1>1, <1>8 DEF PageInv, HiddenForGood, W!ShownIsSession, PageTypes
<1> QED
  BY <1>10, <1>11, <1>12 DEF PageInv

(* The server notices that a connection has ended.                         *)
LEMMA EndStep ==
  ASSUME PageInv, NEW s \in 1 .. state.ws, W!ServeEnd(s)
  PROVE  PageInv'
<1>1. /\ sockets[s] \in {"closing", "lost", "closed"}
      /\ ended' = ended \cup {s} /\ session' = [session EXCEPT ![s] = NoName]
      /\ state' = state /\ loginForm' = loginForm /\ sockets' = sockets
      /\ requests' = requests /\ responses' = responses
  BY DEF W!ServeEnd
<1>2. /\ session' \in [1 .. state.ws -> Texts]
      /\ \A t \in 1 .. state.ws : t # s => session'[t] = session[t]
  BY <1>1 DEF PageInv, PageTypes, Texts
<1>3. PageTypes' /\ OthersSilent' /\ EndsReal' /\ HiddenForGood'
  BY <1>1, <1>2
     DEF PageInv, PageTypes, OthersSilent, EndsReal, HiddenForGood
<1>4. ResponsesTrue'
  BY <1>1, <1>2 DEF PageInv, ResponsesTrue
<1>5. W!ShownIsSession'
  BY <1>1, <1>2 DEF PageInv, W!ShownIsSession, HiddenForGood
<1> QED
  BY <1>3, <1>4, <1>5 DEF PageInv

(* Every step of the page and its sessions.                                *)
LEMMA PageStep ==
  ASSUME PageInv, [W!Next]_(W!sessionVars)
  PROVE  PageInv'
<1>1. DOMAIN sockets = 1 .. state.ws
  BY DEF PageInv, PageTypes
<1>2. CASE W!Next
  <2>1. \/ \E name \in Names : W!ConnectAndLogin(name)
        \/ \E s \in 1 .. state.ws :
             \/ W!OnOpen(s) \/ W!OnMessage(s) \/ W!OnClose(s) \/ W!Break(s)
             \/ W!ServeLogin(s) \/ W!ServeEnd(s)
    BY <1>1, <1>2 DEF W!Next, W!Sockets
  <2> QED
    BY <2>1, ConnectStep, OpenStep, MessageStep, CloseStep, ServeStep, EndStep
<1>3. CASE UNCHANGED W!sessionVars
  BY <1>3 DEF W!sessionVars, PageInv, PageTypes, OthersSilent, EndsReal,
              ResponsesTrue, HiddenForGood, W!ShownIsSession
<1> QED
  BY <1>2, <1>3

-----------------------------------------------------------------------------
(* The login window.                                                       *)

WindowInv ==
  /\ socket \in {"unconnected", "connecting", "connected"}
  /\ client \in [pending : LoginNames \cup {NoUser},
                 current : LoginNames \cup {NoUser}, loggedIn : BOOLEAN]
  /\ form \in [pending : LoginNames \cup {NoUser}, enabled : BOOLEAN,
               replaced : BOOLEAN]
  /\ loginRequests \in Seq(LoginNames \cup {NoUser})
  /\ loginReplies \in Seq(LoginNames \cup {NoUser})
  /\ serverUser \in LoginNames \cup {NoUser}
     \* a connection that is not up has no user and nothing under way
  /\ socket # "connected" => /\ loginRequests = <<>> /\ loginReplies = <<>>
                             /\ serverUser = NoUser /\ ~client.loggedIn
  /\ \A k \in DOMAIN loginReplies : loginReplies[k] \in {NoUser, serverUser}
  /\ client.loggedIn => client.current # NoUser
  /\ L!WindowIsSession

(* Every step of the window, its connection and the server.                *)
LEMMA WindowStep ==
  ASSUME WindowInv, [L!LoginNext]_(L!loginVars)
  PROVE  WindowInv'
<1> USE DEF WindowInv, L!WindowIsSession
<1>0. PICK D : D = LoginNames \cup {NoUser}
  OBVIOUS
<1>1. /\ <<>> \in Seq(LoginNames \cup {NoUser})
      /\ \A k : k \notin DOMAIN <<>>
  BY EmptySeq
<1>2. ASSUME NEW name \in LoginNames, L!OnLoginClicked(name)
      PROVE  WindowInv'
  BY <1>1, <1>2 DEF L!OnLoginClicked, L!DropConnection, L!Nobody
<1>3. CASE L!OnSocketConnected
  <2>1. /\ Append(loginRequests, form.pending) \in
             Seq(LoginNames \cup {NoUser})
    BY AppendProperties
  <2>2. /\ socket = "connecting" /\ socket' = "connected"
        /\ client' = [client EXCEPT !.pending = form.pending]
        /\ loginRequests' = Append(loginRequests, form.pending)
        /\ form' = form /\ loginReplies' = loginReplies
        /\ serverUser' = serverUser
    BY <1>3 DEF L!OnSocketConnected
  <2> QED
    BY <2>1, <2>2
<1>4. CASE L!ConnectFails
  BY <1>4 DEF L!ConnectFails, L!FormOnError
<1>5. CASE L!OnDisconnected
  BY <1>1, <1>5 DEF L!OnDisconnected, L!DropConnection, L!Nobody,
                    L!FormOnError
<1>6. CASE L!ServeQtLogin
  <2>1. /\ loginRequests # <<>> /\ loginRequests' = Tail(loginRequests)
        /\ socket' = socket /\ client' = client /\ form' = form
    BY <1>6 DEF L!ServeQtLogin
  <2>2. /\ Head(loginRequests) \in LoginNames \cup {NoUser}
        /\ Tail(loginRequests) \in Seq(LoginNames \cup {NoUser})
    BY <2>1, HeadTailProperties
  <2>3. PICK name \in LoginNames \cup {NoUser} :
          /\ loginReplies' = Append(loginReplies, name)
          /\ \/ name = NoUser /\ serverUser' = serverUser
             \/ serverUser = NoUser /\ serverUser' = name
    BY <1>6, <2>2 DEF L!ServeQtLogin
  <2>4. /\ Append(loginReplies, name) \in Seq(LoginNames \cup {NoUser})
        /\ \A k \in DOMAIN Append(loginReplies, name) :
             \/ /\ k \in DOMAIN loginReplies
                /\ Append(loginReplies, name)[k] = loginReplies[k]
             \/ Append(loginReplies, name)[k] = name
    BY QueueGrows
  <2>5. socket = "connected"
    BY <2>1
  <2>6. \A k \in DOMAIN loginReplies' : loginReplies'[k] \in {NoUser, serverUser'}
    BY <2>3, <2>4
  <2>7. client.loggedIn => serverUser' = client.current
    BY <2>3
  <2> QED
    BY <2>1, <2>2, <2>3, <2>4, <2>5, <2>6, <2>7
<1>7. CASE L!OnLoginReply
  <2>1. /\ socket = "connected" /\ loginReplies # <<>>
        /\ loginReplies' = Tail(loginReplies)
        /\ socket' = socket /\ loginRequests' = loginRequests
        /\ serverUser' = serverUser
    BY <1>7 DEF L!OnLoginReply
  <2>2. /\ Head(loginReplies) \in LoginNames \cup {NoUser}
        /\ Tail(loginReplies) \in Seq(LoginNames \cup {NoUser})
        /\ 1 \in DOMAIN loginReplies /\ Head(loginReplies) = loginReplies[1]
        /\ \A k \in DOMAIN Tail(loginReplies) :
             /\ k + 1 \in DOMAIN loginReplies
             /\ Tail(loginReplies)[k] = loginReplies[k + 1]
    BY <2>1, QueueShrinks
  <2>3. Head(loginReplies) \in {NoUser, serverUser}
    BY <2>2
  <2>4. \A k \in DOMAIN loginReplies' : loginReplies'[k] \in {NoUser, serverUser'}
    BY <2>1, <2>2
  <2>5. \/ /\ Head(loginReplies) # NoUser
           /\ client' = [pending |-> NoUser, current |-> Head(loginReplies),
                         loggedIn |-> TRUE]
           /\ form' = [form EXCEPT !.replaced = TRUE]
        \/ /\ client' = client \/ client' = [client EXCEPT !.pending = NoUser]
           /\ form' = form \/ form' = [form EXCEPT !.enabled = TRUE]
    BY <1>7 DEF L!OnLoginReply, L!FormOnError
  <2>6. /\ form' \in [pending : LoginNames \cup {NoUser}, enabled : BOOLEAN,
                      replaced : BOOLEAN]
        /\ client' \in [pending : LoginNames \cup {NoUser},
                        current : LoginNames \cup {NoUser}, loggedIn : BOOLEAN]
        /\ \/ /\ client'.current = client.current
              /\ client'.loggedIn = client.loggedIn
           \/ /\ client'.current = serverUser /\ client'.loggedIn
              /\ serverUser # NoUser
    <3>1. /\ form \in [pending : LoginNames \cup {NoUser}, enabled : BOOLEAN,
                       replaced : BOOLEAN]
          /\ client \in [pending : LoginNames \cup {NoUser},
                         current : LoginNames \cup {NoUser},
                         loggedIn : BOOLEAN]
          /\ NoUser \in LoginNames \cup {NoUser}
      OBVIOUS
    <3>2. PICK name \in LoginNames \cup {NoUser} : name = Head(loginReplies)
      BY <2>2
    <3>3. form' \in [pending : LoginNames \cup {NoUser}, enabled : BOOLEAN,
                     replaced : BOOLEAN]
      BY <2>5, <3>1
    <3>4. CASE /\ name # NoUser
               /\ client' = [pending |-> NoUser, current |-> name,
                             loggedIn |-> TRUE]
      BY <2>3, <3>1, <3>2, <3>3, <3>4
    <3>5. CASE client' = client \/ client' = [client EXCEPT !.pending = NoUser]
      BY <3>1, <3>3, <3>5
    <3> QED
      BY <2>5, <3>2, <3>4, <3>5
  <2> QED
    BY <2>1, <2>2, <2>4, <2>6
<1>8. CASE UNCHANGED L!loginVars
  BY <1>8 DEF L!loginVars
<1> QED
  BY <1>2, <1>3, <1>4, <1>5, <1>6, <1>7, <1>8 DEF L!LoginNext

(* app.js:902-985, LoginWindow.cpp:72-111: for any names, tried any number *)
(* of times over any number of connections, whom the web page or the Qt    *)
(* client shows as logged in the server has logged in on the connection    *)
(* the client has.                                                         *)
THEOREM ShownAlwaysSession == W!Spec /\ L!LoginSpec => []ShownIsSession
<1>1. W!Init => PageInv
  <2> SUFFICES ASSUME W!Init
               PROVE  PageInv
    OBVIOUS
  <2>1. 1 .. 0 = {}
    OBVIOUS
  <2>2. \A D : <<>> \in [1 .. 0 -> D]
    BY <2>1
  <2> QED
    BY <2>1, <2>2
       DEF W!Init, PageInv, PageTypes, OthersSilent, EndsReal, ResponsesTrue,
           HiddenForGood, W!ShownIsSession, Texts
<1>2. L!LoginInit => WindowInv
  BY EmptySeq DEF L!LoginInit, L!Nobody, WindowInv, L!WindowIsSession
<1>3. W!Spec => []PageInv
  BY <1>1, PageStep, PTL DEF W!Spec
<1>4. L!LoginSpec => []WindowInv
  BY <1>2, WindowStep, PTL DEF L!LoginSpec
<1>5. PageInv /\ WindowInv => ShownIsSession
  BY DEF PageInv, WindowInv, ShownIsSession
<1> QED
  BY <1>3, <1>4, <1>5, PTL

-----------------------------------------------------------------------------
(* Pages of a history.                                                     *)

(* A set of natural numbers that is not empty has a least element.         *)
LEMMA LeastOfNat ==
  ASSUME NEW D, D \subseteq Nat, D # {}
  PROVE  \E x \in D : \A y \in D : x <= y
<1>1. \E R : /\ IsWellFoundedOn(R, Nat)
             /\ \A x, y \in Nat : x < y => <<x, y>> \in R
  <2>1. \A x, y \in Nat : x < y => <<x, y>> \in OpToRel(<, Nat)
    BY DEF OpToRel
  <2> QED
    BY <2>1, NatLessThanWellFounded
<1>2. PICK R : /\ IsWellFoundedOn(R, Nat)
              /\ \A x, y \in Nat : x < y => <<x, y>> \in R
  BY <1>1
<1>3. IsWellFoundedOn(R, Nat)
  BY <1>2
<1>4. PICK x \in D : \A y \in D : ~ (<<y, x>> \in R)
  <2> HIDE DEF IsWellFoundedOn
  <2> QED
    BY <1>3, WFMin
<1>5. ASSUME NEW y \in D
      PROVE  x <= y
  <2>1. x \in Nat /\ y \in Nat /\ ~ (<<y, x>> \in R)
    BY <1>4
  <2>2. ~ (y < x)
    BY <1>2, <2>1
  <2> QED
    BY <2>1, <2>2
<1> QED
  BY <1>4, <1>5

(* A row has the time of a clock that began at 1.                          *)
Row == [conversation : Conversations, sender : Writers,
        createdAt : Nat \ {0}]

Ids == DOMAIN messages

(* The rows that come after, or before, a row in the order of the          *)
(* statement.                                                              *)
After(rows, i) == {j \in rows : Earlier(i, j)}

Sooner(rows, i) == {j \in rows : Earlier(j, i)}

(* The rows are a finite set, in a strict order.                           *)
LEMMA EarlierOrders ==
  ASSUME messages \in Seq(Row)
  PROVE  /\ IsFiniteSet(Ids) /\ Ids \subseteq Nat
         /\ \A i \in Ids : messages[i].createdAt \in Nat \ {0}
         /\ \A i \in Ids : ~ Earlier(i, i)
         /\ \A i, j \in Ids : i = j \/ Earlier(i, j) \/ Earlier(j, i)
         /\ \A i, j, k \in Ids :
              Earlier(i, j) /\ Earlier(j, k) => Earlier(i, k)
<1>1. Ids = 1 .. Len(messages) /\ Len(messages) \in Nat
  BY LenProperties DEF Ids
<1>2. Ids \subseteq Nat
  BY <1>1
<1>3. IsFiniteSet(Ids)
  BY <1>1, FS_Interval
<1>4. \A i \in Ids : messages[i].createdAt \in Nat \ {0}
  <2>1. \A i \in Ids : messages[i] \in Row
    BY <1>1, ElementOfSeq
  <2> QED
    BY <2>1 DEF Row
<1>5. \A i, j \in Ids : i = j \/ Earlier(i, j) \/ Earlier(j, i)
  BY <1>2, <1>4 DEF Earlier
<1>6. ASSUME NEW i \in Ids, NEW j \in Ids, NEW k \in Ids,
             Earlier(i, j), Earlier(j, k)
      PROVE  Earlier(i, k)
  <2>1. /\ messages[i].createdAt \in Nat /\ messages[j].createdAt \in Nat
        /\ messages[k].createdAt \in Nat
        /\ i \in Nat /\ j \in Nat /\ k \in Nat
    BY <1>2, <1>4
  <2> QED
    BY <1>6, <2>1 DEF Earlier
<1>7. \A i \in Ids : ~ Earlier(i, i)
  BY <1>2, <1>4 DEF Earlier
<1> QED
  BY <1>2, <1>3, <1>4, <1>5, <1>6, <1>7

(* The later a row, the fewer come after it and the more before it.        *)
LEMMA RowsRank ==
  ASSUME messages \in Seq(Row), NEW rows, rows \subseteq Ids
  PROVE  /\ IsFiniteSet(rows)
         /\ \A i \in rows : /\ IsFiniteSet(After(rows, i))
                            /\ Cardinality(After(rows, i)) \in Nat
                            /\ Cardinality(Sooner(rows, i)) \in Nat
                            /\ Cardinality(Sooner(rows, i)) < Cardinality(rows)
         /\ \A i, j \in rows : Earlier(i, j) =>
              /\ Cardinality(After(rows, j)) < Cardinality(After(rows, i))
              /\ Cardinality(Sooner(rows, i)) < Cardinality(Sooner(rows, j))
<1>1. IsFiniteSet(rows)
  BY EarlierOrders, FS_Subset
<1>2. \A S : S \subseteq rows => IsFiniteSet(S) /\ Cardinality(S) \in Nat
  BY <1>1, FS_Subset, FS_CardinalityType
<1>3. \A S, T : S \subseteq rows /\ T \subseteq S /\ S # T =>
        Cardinality(T) < Cardinality(S)
  <2> SUFFICES ASSUME NEW S, NEW T, S \subseteq rows, T \subseteq S, S # T
               PROVE  Cardinality(T) < Cardinality(S)
    OBVIOUS
  <2>1. IsFiniteSet(S) /\ Cardinality(S) \in Nat /\ Cardinality(T) \in Nat
    BY <1>2
  <2>2. Cardinality(T) <= Cardinality(S) /\ Cardinality(S) # Cardinality(T)
    BY <2>1, FS_Subset
  <2> QED
    BY <2>1, <2>2
<1>4. \A i \in rows : /\ After(rows, i) \subseteq rows
                      /\ Sooner(rows, i) \subseteq rows
                      /\ i \notin Sooner(rows, i)
                      /\ i \notin After(rows, i)
  BY EarlierOrders DEF After, Sooner
<1>5. ASSUME NEW i \in rows, NEW j \in rows, Earlier(i, j)
      PROVE  /\ After(rows, j) \subseteq After(rows, i)
             /\ Sooner(rows, i) \subseteq Sooner(rows, j)
             /\ j \in After(rows, i) /\ i \in Sooner(rows, j)
  BY <1>5, EarlierOrders DEF After, Sooner
<1>6. ASSUME NEW i \in rows, NEW j \in rows, Earlier(i, j)
      PROVE  /\ Cardinality(After(rows, j)) < Cardinality(After(rows, i))
             /\ Cardinality(Sooner(rows, i)) < Cardinality(Sooner(rows, j))
  BY <1>3, <1>4, <1>5, <1>6
<1>7. \A i \in rows : Cardinality(Sooner(rows, i)) < Cardinality(rows)
  BY <1>3, <1>4
<1> QED
  BY <1>1, <1>2, <1>4, <1>6, <1>7

(* Among rows, one is the last.                                            *)
LEMMA LastRow ==
  ASSUME messages \in Seq(Row), NEW rows, rows \subseteq Ids, rows # {}
  PROVE  \E i \in rows : Cardinality(After(rows, i)) = 0
<1> DEFINE counts == {Cardinality(After(rows, i)) : i \in rows}
<1>1. counts \subseteq Nat /\ counts # {}
  BY RowsRank
<1>2. PICK n \in counts : \A m \in counts : n <= m
  BY <1>1, LeastOfNat
<1>3. PICK i \in rows : n = Cardinality(After(rows, i))
  BY <1>2
<1>4. ASSUME NEW j \in After(rows, i)
      PROVE  FALSE
  <2>1. j \in rows /\ Earlier(i, j)
    BY DEF After
  <2>2. /\ Cardinality(After(rows, j)) < Cardinality(After(rows, i))
        /\ Cardinality(After(rows, j)) \in counts
        /\ Cardinality(After(rows, j)) \in Nat
        /\ Cardinality(After(rows, i)) \in Nat
    BY <2>1, RowsRank
  <2>3. n <= Cardinality(After(rows, j))
    BY ONLY <1>2, <2>2, Zenon
  <2> QED
    BY <1>3, <2>2, <2>3
<1>5. After(rows, i) = {}
  BY <1>4
<1> QED
  BY <1>5, FS_EmptySet

(* No limit asks for no rows.                                              *)
LEMMA LimitPositive ==
  ASSUME NEW limit \in Int
  PROVE  SanitizeLimit(limit) \in Nat /\ SanitizeLimit(limit) >= 1
BY LimitAssumption DEF SanitizeLimit

(* What is found of a conversation before a time: if anything, then its    *)
(* last, and nothing later is left out.                                    *)
LEMMA LatestFound ==
  ASSUME messages \in Seq(Row), NEW conversation, NEW limit \in Int,
         NEW before
  PROVE  /\ HistoryIds(conversation, limit, before)
              \subseteq Matching(conversation, before)
         /\ Matching(conversation, before) \subseteq Ids
         /\ HistoryIds(conversation, limit, before) = {} =>
              Matching(conversation, before) = {}
         /\ \A i \in Matching(conversation, before) :
            \A j \in HistoryIds(conversation, limit, before) :
              i \notin HistoryIds(conversation, limit, before) => Earlier(i, j)
<1>1. PICK rows, ids : /\ rows = Matching(conversation, before)
                       /\ ids = HistoryIds(conversation, limit, before)
  OBVIOUS
<1>2. PICK n \in Nat : n = SanitizeLimit(limit) /\ n >= 1
  BY LimitPositive
<1>3. rows \subseteq Ids
  BY <1>1 DEF Matching, Ids
<1>4. ids = {i \in rows : Cardinality(After(rows, i)) < n}
  BY <1>1, <1>2, Zenon DEF HistoryIds, After
<1>5. ids = {} => rows = {}
  BY <1>2, <1>3, <1>4, LastRow
<1>6. ASSUME NEW i \in rows, NEW j \in ids, i \notin ids
      PROVE  Earlier(i, j)
  <2>1. j \in rows /\ Cardinality(After(rows, j)) < n
        /\ ~ (Cardinality(After(rows, i)) < n)
    BY <1>4, <1>6
  <2>2. /\ Cardinality(After(rows, i)) \in Nat
        /\ Cardinality(After(rows, j)) \in Nat
        /\ Earlier(j, i) => Cardinality(After(rows, i))
                              < Cardinality(After(rows, j))
    BY <1>3, <2>1, RowsRank
  <2>3. ~ Earlier(j, i)
    BY <1>2, <2>1, <2>2
  <2>4. i # j
    BY <1>6
  <2> QED
    BY <1>3, <2>1, <2>3, <2>4, EarlierOrders
<1> QED
  BY <1>1, <1>3, <1>4, <1>5, <1>6

(* What a page is.                                                         *)
IsPage(page, ids) ==
  /\ Range(page) = ids
  /\ page = <<>> => ids = {}
  /\ page # <<>> => /\ Head(page) \in ids
                    /\ \A j \in ids : j = Head(page) \/ Earlier(Head(page), j)

(* Each place of a page is taken by a row, and each row takes one.         *)
LEMMA PlacesTaken ==
  ASSUME messages \in Seq(Row), NEW ids, ids \subseteq Ids,
         NEW n \in Nat, n = Cardinality(ids)
  PROVE  /\ \A i \in ids : Cardinality(Sooner(ids, i)) + 1 \in 1 .. n
         /\ \A i, j \in ids :
              Cardinality(Sooner(ids, i)) + 1 = Cardinality(Sooner(ids, j)) + 1
                => i = j
         /\ \A k \in 1 .. n :
              \E i \in ids : Cardinality(Sooner(ids, i)) + 1 = k
<1> DEFINE place == [i \in ids |-> Cardinality(Sooner(ids, i)) + 1]
<1>1. \A i \in ids : Cardinality(Sooner(ids, i)) \in Nat
                     /\ Cardinality(Sooner(ids, i)) < n
  BY RowsRank
<1>2. \A i \in ids : place[i] \in 1 .. n
  BY <1>1
<1>3. \A i, j \in ids : place[i] = place[j] => i = j
  <2> SUFFICES ASSUME NEW i \in ids, NEW j \in ids, place[i] = place[j]
               PROVE  i = j
    OBVIOUS
  <2>1. Cardinality(Sooner(ids, i)) = Cardinality(Sooner(ids, j))
    BY <1>1
  <2>2. ~ Earlier(i, j) /\ ~ Earlier(j, i)
    BY <1>1, <2>1, RowsRank
  <2> QED
    BY <2>2, EarlierOrders
<1>4. IsFiniteSet(ids)
  BY RowsRank
<1>5. ASSUME NEW k \in 1 .. n, \A i \in ids : place[i] # k
      PROVE  FALSE
  <2>1. IsFiniteSet(1 .. n) /\ Cardinality(1 .. n) = n
    BY FS_Interval
  <2>2. /\ IsFiniteSet((1 .. n) \ {k})
        /\ Cardinality((1 .. n) \ {k}) = n - 1
    BY <2>1, FS_RemoveElement
  <2>3. place \in [ids -> (1 .. n) \ {k}]
    BY <1>2, <1>5
  <2>4. Cardinality((1 .. n) \ {k}) < Cardinality(ids)
    BY <2>2
  <2> HIDE DEF place
  <2>5. \E x, y \in ids : x # y /\ place[x] = place[y]
    BY <1>4, <2>2, <2>3, <2>4, FS_PigeonHole
  <2> QED
    BY <1>3, <2>5
<1> QED
  BY <1>2, <1>3, <1>5

(* History gives the rows that are found, the first one first.             *)
LEMMA HistoryIsPage ==
  ASSUME messages \in Seq(Row), NEW conversation, NEW limit \in Int,
         NEW before
  PROVE  IsPage(History(conversation, limit, before),
                HistoryIds(conversation, limit, before))
<1>1. PICK ids : ids = HistoryIds(conversation, limit, before)
  OBVIOUS
<1>2. ids \subseteq Ids
  BY <1>1, LatestFound
<1>3. IsFiniteSet(ids) /\ Cardinality(ids) \in Nat
  BY <1>2, RowsRank, FS_CardinalityType
<1>4. PICK n \in Nat : n = Cardinality(ids)
  BY <1>3
<1>5. PICK page :
        page = [k \in 1 .. n |-> CHOOSE i \in ids :
                                   Cardinality(Sooner(ids, i)) + 1 = k]
  OBVIOUS
<1>6. page = History(conversation, limit, before)
  BY <1>1, <1>4, <1>5 DEF History, Sooner
<1>7. DOMAIN page = 1 .. n
  BY <1>5
<1>8. \A k \in 1 .. n : /\ page[k] \in ids
                        /\ Cardinality(Sooner(ids, page[k])) + 1 = k
  <2>1. \A k \in 1 .. n : \E i \in ids : Cardinality(Sooner(ids, i)) + 1 = k
    BY <1>2, <1>4, PlacesTaken
  <2> SUFFICES ASSUME NEW k \in 1 .. n
               PROVE  /\ page[k] \in ids
                      /\ Cardinality(Sooner(ids, page[k])) + 1 = k
    OBVIOUS
  <2>2. page[k] = CHOOSE i \in ids : Cardinality(Sooner(ids, i)) + 1 = k
    BY <1>5
  <2> QED
    BY ONLY <2>1, <2>2, Zenon
<1>9. \A i \in ids : \E k \in 1 .. n : page[k] = i
  <2> SUFFICES ASSUME NEW i \in ids
               PROVE  \E k \in 1 .. n : page[k] = i
    OBVIOUS
  <2>1. PICK k : k = Cardinality(Sooner(ids, i)) + 1
    OBVIOUS
  <2>2. k \in 1 .. n
    BY <1>2, <1>4, <2>1, PlacesTaken
  <2>3. page[k] = i
    BY <1>2, <1>4, <1>8, <2>1, <2>2, PlacesTaken
  <2> QED
    BY <2>2, <2>3
<1>10. Range(page) = ids
  BY <1>7, <1>8, <1>9 DEF Range
<1>11. n = 0 <=> ids = {}
  BY <1>3, <1>4, FS_EmptySet
<1>12. page = <<>> => ids = {}
  BY <1>7, <1>11
<1>13. ASSUME page # <<>>
       PROVE  /\ Head(page) \in ids
              /\ \A j \in ids : j = Head(page) \/ Earlier(Head(page), j)
  <2>1. n # 0
    BY <1>5, <1>13
  <2>2. Head(page) = page[1] /\ 1 \in 1 .. n
    <3>1. page \in Seq(ids)
      BY <1>5, <1>8
    <3>2. 1 \in 1 .. n
      BY <2>1
    <3> QED
      BY <1>13, <3>1, <3>2
  <2>3. /\ page[1] \in ids /\ Cardinality(Sooner(ids, page[1])) = 0
    <3>1. /\ page[1] \in ids /\ Cardinality(Sooner(ids, page[1])) + 1 = 1
      BY <1>8, <2>2
    <3>2. Cardinality(Sooner(ids, page[1])) \in Nat
      BY <1>2, <3>1, RowsRank
    <3> QED
      BY <3>1, <3>2
  <2>4. Sooner(ids, page[1]) = {}
    <3>1. Sooner(ids, page[1]) \subseteq ids
      BY DEF Sooner
    <3> QED
      BY <1>3, <2>3, <3>1, FS_Subset, FS_EmptySet
  <2>5. \A j \in ids : ~ Earlier(j, page[1])
    BY <2>4 DEF Sooner
  <2> QED
    BY <1>2, <2>2, <2>3, <2>5, EarlierOrders
<1> QED
  BY <1>1, <1>6, <1>10, <1>12, <1>13 DEF IsPage

(* The invariant of a reader.                                              *)
PagingTypes ==
  /\ messages \in Seq(Row)
  /\ now \in Nat \ {0}
  /\ stamp \in [Writers -> Nat]
  /\ reader \in [reading : BOOLEAN, done : BOOLEAN,
                 conversation : Conversations \cup {"none"}, limit : Int,
                 before : Nat, got : SUBSET Nat, known : SUBSET Nat]
  /\ reader.got \subseteq Ids /\ reader.known \subseteq Ids

(* The next page is asked for from the oldest time read; 0 is none yet.    *)
BeforeOldest ==
  /\ reader.got = {} => reader.before = 0
  /\ \A j \in reader.got : reader.before <= messages[j].createdAt
  /\ reader.got # {} =>
       \E j \in reader.got : messages[j].createdAt = reader.before

(* What the next pages can still bring.                                    *)
Coming(i) == reader.before = 0 \/ messages[i].createdAt < reader.before

(* A row that the reader knew of, and has not read, is still to come, or   *)
(* a page has ended between it and a later row of its second.              *)
ComingOrSkipped ==
  /\ \A i \in reader.known :
       messages[i].conversation = reader.conversation
  /\ \A i \in reader.known \ reader.got :
       \/ Coming(i)
       \/ \E j \in reader.got :
            messages[i].createdAt = messages[j].createdAt /\ i < j

(* An empty page says that nothing is to come.                             *)
DoneMeansAll ==
  reader.done => \A i \in reader.known \ reader.got : ~ Coming(i)

PagingInv == PagingTypes /\ BeforeOldest /\ ComingOrSkipped /\ DoneMeansAll

(* Storing a row, or only time passing, changes nothing for the reader.    *)
LEMMA RowsOnlyAdded ==
  ASSUME PagingInv, messages' \in Seq(Row), now' \in Nat \ {0},
         stamp' \in [Writers -> Nat], reader' = reader,
         Ids \subseteq Ids', \A i \in Ids : messages'[i] = messages[i]
  PROVE  PagingInv'
<1>1. PagingTypes'
  BY DEF PagingInv, PagingTypes
<1>2. reader.got \subseteq Ids /\ reader.known \subseteq Ids
  BY DEF PagingInv, PagingTypes
<1>3. BeforeOldest'
  BY <1>2 DEF PagingInv, BeforeOldest
<1>4. ComingOrSkipped'
  BY <1>2 DEF PagingInv, ComingOrSkipped, Coming
<1>5. DoneMeansAll'
  BY <1>2 DEF PagingInv, DoneMeansAll, Coming
<1> QED
  BY <1>1, <1>3, <1>4, <1>5 DEF PagingInv

(* A row is stored.                                                        *)
LEMMA SaveRowStep ==
  ASSUME PagingInv, NEW w \in Writers, SaveMessage(w)
  PROVE  PagingInv'
<1>1. PICK conversation \in Conversations, ok \in BOOLEAN :
        Save(conversation, w, stamp[w], ok)
  BY DEF SaveMessage
<1>2. /\ messages \in Seq(Row) /\ stamp[w] \in Nat \ {0}
      /\ stamp' = [stamp EXCEPT ![w] = 0] /\ now' = now /\ reader' = reader
  BY DEF SaveMessage, PagingInv, PagingTypes
<1>3. stamp' \in [Writers -> Nat] /\ now' \in Nat \ {0}
  BY <1>2 DEF PagingInv, PagingTypes
<1>4. CASE messages' = messages
  BY <1>2, <1>3, <1>4, RowsOnlyAdded DEF Ids
<1>5. CASE messages' # messages
  <2>1. PICK row : row = [conversation |-> conversation, sender |-> w,
                          createdAt |-> stamp[w]]
    OBVIOUS
  <2>2. row \in Row
    BY <1>2, <2>1 DEF Row
  <2>3. messages' = Append(messages, row)
    BY <1>1, <1>5, <2>1 DEF Save
  <2>4. /\ messages' \in Seq(Row) /\ Len(messages') = Len(messages) + 1
        /\ \A i \in 1 .. Len(messages) : messages'[i] = messages[i]
    BY <1>2, <2>2, <2>3, AppendProperties
  <2>5. Ids = 1 .. Len(messages) /\ Len(messages) \in Nat
        /\ Ids' = 1 .. Len(messages')
    BY <1>2, <2>4, LenProperties DEF Ids
  <2>6. Ids \subseteq Ids'
    BY <2>4, <2>5
  <2> QED
    BY <1>2, <1>3, <2>4, <2>5, <2>6, RowsOnlyAdded
<1> QED
  BY <1>4, <1>5

(* Reading begins with what is there, and nothing read.                    *)
LEMMA StartStep ==
  ASSUME PagingInv, NEW conversation \in Conversations, NEW limit \in Limits,
         StartReading(conversation, limit)
  PROVE  PagingInv'
<1>1. PICK rows : rows = Matching(conversation, 0)
  OBVIOUS
<1>2. rows \subseteq Ids
      /\ \A i \in rows : messages[i].conversation = conversation
  BY <1>1 DEF Matching, Ids
<1>3. Ids \subseteq Nat
  BY EarlierOrders DEF PagingInv, PagingTypes
<1>4. /\ reader' = [reading |-> TRUE, done |-> FALSE,
                    conversation |-> conversation, limit |-> limit,
                    before |-> 0, got |-> {}, known |-> rows]
      /\ messages' = messages /\ now' = now /\ stamp' = stamp
  BY <1>1 DEF StartReading, NotReading
<1>5. PagingTypes'
  BY <1>2, <1>3, <1>4, LimitsAssumption DEF PagingInv, PagingTypes, Ids
<1>6. BeforeOldest' /\ ComingOrSkipped' /\ DoneMeansAll'
  BY <1>2, <1>4 DEF BeforeOldest, ComingOrSkipped, DoneMeansAll, Coming
<1> QED
  BY <1>5, <1>6 DEF PagingInv

(* The last page is empty because nothing matches any more.                *)
LEMMA EmptyPageStep ==
  ASSUME PagingInv, ReadPage,
         History(reader.conversation, reader.limit, reader.before) = <<>>
  PROVE  PagingInv' /\ reader'.got = reader.got
<1>1. /\ reader' = [reader EXCEPT !.done = TRUE]
      /\ messages' = messages /\ now' = now /\ stamp' = stamp
  BY DEF ReadPage
<1>2. messages \in Seq(Row) /\ reader.limit \in Int /\ reader.before \in Nat
  BY DEF PagingInv, PagingTypes
<1>3. HistoryIds(reader.conversation, reader.limit, reader.before) = {}
  BY <1>2, HistoryIsPage DEF IsPage
<1>4. Matching(reader.conversation, reader.before) = {}
  BY <1>2, <1>3, LatestFound
<1>5. \A i \in reader.known : ~ Coming(i)
  BY <1>2, <1>4
     DEF Matching, Coming, Ids, PagingInv, PagingTypes, ComingOrSkipped
<1>6. /\ reader'.got = reader.got /\ reader'.known = reader.known
      /\ reader'.before = reader.before
      /\ reader'.conversation = reader.conversation
  BY <1>1 DEF PagingInv, PagingTypes
<1>7. PagingTypes'
  BY <1>1 DEF PagingInv, PagingTypes, Ids
<1>8. BeforeOldest' /\ ComingOrSkipped' /\ DoneMeansAll'
  BY <1>1, <1>5, <1>6
     DEF PagingInv, BeforeOldest, ComingOrSkipped, DoneMeansAll, Coming
<1> QED
  BY <1>6, <1>7, <1>8 DEF PagingInv

(* A page goes in front of what has been read.                             *)
LEMMA PageInFront ==
  ASSUME PagingInv, ReadPage,
         History(reader.conversation, reader.limit, reader.before) # <<>>
  PROVE  /\ PagingInv'
         /\ \A i \in reader'.got \ reader.got, j \in reader.got : Earlier(i, j)
<1>1. PICK ids, page :
        /\ ids = HistoryIds(reader.conversation, reader.limit, reader.before)
        /\ page = History(reader.conversation, reader.limit, reader.before)
  OBVIOUS
<1>2. messages \in Seq(Row) /\ reader.limit \in Int /\ reader.before \in Nat
  BY DEF PagingInv, PagingTypes
<1>3. Range(page) = ids /\ Head(page) \in ids
      /\ \A j \in ids : j = Head(page) \/ Earlier(Head(page), j)
  BY <1>1, <1>2, HistoryIsPage DEF IsPage
<1>4. PICK h : h = Head(page)
  OBVIOUS
<1>5. /\ reader' = [reader EXCEPT !.got = @ \cup ids,
                                  !.before = messages[h].createdAt]
      /\ messages' = messages /\ now' = now /\ stamp' = stamp
      /\ ~ reader.done
  BY <1>1, <1>3, <1>4 DEF ReadPage
<1>6. PICK rows : rows = Matching(reader.conversation, reader.before)
  OBVIOUS
<1>7. /\ ids \subseteq rows /\ rows \subseteq Ids
      /\ \A i \in rows : \A j \in ids : i \notin ids => Earlier(i, j)
  BY <1>1, <1>2, <1>6, LatestFound
<1>8. h \in ids /\ \A j \in ids : j = h \/ Earlier(h, j)
  BY <1>3, <1>4
<1>9. /\ Ids \subseteq Nat /\ reader.got \subseteq Ids
      /\ reader.known \subseteq Ids
      /\ \A i \in Ids : messages[i].createdAt \in Nat \ {0}
  BY <1>2, EarlierOrders DEF PagingInv, PagingTypes
<1>10. /\ reader'.got = reader.got \cup ids /\ reader'.known = reader.known
       /\ reader'.before = messages[h].createdAt
       /\ reader'.conversation = reader.conversation
       /\ reader'.done = reader.done
  BY <1>5 DEF PagingInv, PagingTypes
<1>11. \A i \in rows : /\ messages[i].conversation = reader.conversation
                       /\ Coming(i)
  BY <1>2, <1>6 DEF Matching, Coming
<1>12. PagingTypes'
  <2>1. ids \subseteq Ids /\ messages[h].createdAt \in Nat
    BY <1>7, <1>8, <1>9
  <2> QED
    BY <1>5, <1>9, <1>10, <2>1 DEF PagingInv, PagingTypes, Ids
<1>13. \A j \in ids : messages[h].createdAt <= messages[j].createdAt
  <2> SUFFICES ASSUME NEW j \in ids
               PROVE  messages[h].createdAt <= messages[j].createdAt
    OBVIOUS
  <2>1. /\ messages[h].createdAt \in Nat /\ messages[j].createdAt \in Nat
        /\ j = h \/ Earlier(h, j)
    BY <1>7, <1>8, <1>9
  <2> QED
    BY <2>1 DEF Earlier
<1>14. \A j \in reader.got : /\ reader.before # 0
                             /\ reader.before <= messages[j].createdAt
  <2>1. \A j \in reader.got : reader.before <= messages[j].createdAt
    BY DEF PagingInv, BeforeOldest
  <2>2. reader.got # {} => reader.before # 0
    BY <1>9 DEF PagingInv, BeforeOldest
  <2> QED
    BY <2>1, <2>2
<1>15. \A i \in ids, j \in reader.got : Earlier(i, j)
  <2> SUFFICES ASSUME NEW i \in ids, NEW j \in reader.got
               PROVE  Earlier(i, j)
    OBVIOUS
  <2>1. /\ messages[i].createdAt \in Nat /\ messages[j].createdAt \in Nat
        /\ Coming(i)
    BY <1>7, <1>9, <1>11
  <2>2. messages[i].createdAt < reader.before
    BY <1>14, <2>1 DEF Coming
  <2>3. messages[i].createdAt < messages[j].createdAt
    BY <1>2, <1>14, <2>1, <2>2
  <2> QED
    BY <2>3 DEF Earlier
<1>16. BeforeOldest'
  <2>1. \A j \in reader.got :
          messages[h].createdAt <= messages[j].createdAt
    <3> SUFFICES ASSUME NEW j \in reader.got
                 PROVE  messages[h].createdAt <= messages[j].createdAt
      OBVIOUS
    <3>1. /\ messages[h].createdAt \in Nat /\ messages[j].createdAt \in Nat
          /\ Earlier(h, j)
      BY <1>7, <1>8, <1>9, <1>15
    <3> QED
      BY <3>1 DEF Earlier
  <2> QED
    BY <1>5, <1>8, <1>10, <1>13, <2>1 DEF BeforeOldest
<1>17. ComingOrSkipped'
  <2>1. \A i \in reader'.known :
          messages'[i].conversation = reader'.conversation
    BY <1>5, <1>10 DEF PagingInv, ComingOrSkipped
  <2>2. ASSUME NEW i \in reader.known \ (reader.got \cup ids)
        PROVE  \/ messages[i].createdAt < messages[h].createdAt
               \/ \E j \in reader.got \cup ids :
                    messages[i].createdAt = messages[j].createdAt /\ i < j
    <3>1. CASE Coming(i)
      <4>1. i \in rows /\ i \notin ids
        BY <1>6, <1>9, <3>1
           DEF Matching, Coming, Ids, PagingInv, ComingOrSkipped
      <4>2. Earlier(i, h)
        BY <1>7, <1>8, <4>1
      <4> QED
        BY <1>8, <4>2 DEF Earlier
    <3>2. CASE ~ Coming(i)
      BY <3>2 DEF PagingInv, ComingOrSkipped
    <3> QED
      BY <3>1, <3>2
  <2> QED
    BY <1>5, <1>10, <2>1, <2>2 DEF ComingOrSkipped, Coming
<1>18. DoneMeansAll'
  BY <1>5, <1>10 DEF DoneMeansAll
<1> QED
  BY <1>10, <1>12, <1>15, <1>16, <1>17, <1>18 DEF PagingInv

(* Each step keeps the invariant, and a page comes before what was read.   *)
LEMMA PagingStep ==
  ASSUME PagingInv, [Next]_vars
  PROVE  /\ PagingInv'
         /\ \A i \in reader'.got \ reader.got, j \in reader.got : Earlier(i, j)
<1>0. messages \in Seq(Row) /\ now \in Nat \ {0} /\ stamp \in [Writers -> Nat]
  BY DEF PagingInv, PagingTypes
<1>1. CASE Tick \/ UNCHANGED vars
  <2>1. /\ now' \in Nat \ {0} /\ messages' = messages /\ stamp' = stamp
        /\ reader' = reader
    BY <1>0, <1>1 DEF Tick, vars
  <2> QED
    BY <1>0, <2>1, RowsOnlyAdded DEF Ids
<1>2. ASSUME NEW w \in Writers, ReadClock(w)
      PROVE  PagingInv' /\ reader' = reader
  <2>1. /\ stamp' \in [Writers -> Nat] /\ messages' = messages /\ now' = now
        /\ reader' = reader
    BY <1>0, <1>2 DEF ReadClock
  <2> QED
    BY <1>0, <2>1, RowsOnlyAdded DEF Ids
<1>3. ASSUME NEW w \in Writers, SaveMessage(w)
      PROVE  PagingInv' /\ reader' = reader
  BY <1>3, SaveRowStep DEF SaveMessage
<1>4. ASSUME NEW conversation \in Conversations, NEW limit \in Limits,
             StartReading(conversation, limit)
      PROVE  PagingInv' /\ reader'.got = {}
  BY <1>4, StartStep DEF StartReading, NotReading
<1>5. CASE ReadPage
  BY <1>5, EmptyPageStep, PageInFront
<1> QED
  BY <1>1, <1>2, <1>3, <1>4, <1>5 DEF Next, Tick, vars

(* ChatStorage.cc:16-30, 217-297: for any writers, conversations and       *)
(* limits, and any number of rows stored meanwhile, in any order of their  *)
(* times, reading back page by page repeats nothing, and loses messages    *)
(* only within a second.                                                   *)
THEOREM PagingAlwaysSound == Spec => PagingSound
<1>1. PagingInit => PagingInv
  <2> SUFFICES ASSUME PagingInit
               PROVE  PagingInv
    OBVIOUS
  <2>1. messages = <<>> /\ now = 1 /\ stamp = [w \in Writers |-> 0]
        /\ reader = NotReading
    BY DEF PagingInit, Init
  <2>2. messages \in Seq(Row)
    BY <2>1
  <2> QED
    BY <2>1, <2>2 DEF NotReading, PagingInv, PagingTypes, BeforeOldest,
                      ComingOrSkipped, DoneMeansAll
<1>2. PagingInv => LostOnlyWithinASecond
  BY DEF PagingInv, ComingOrSkipped, DoneMeansAll, LostOnlyWithinASecond
<1>3. PagingInv /\ [Next]_vars => PagingInv'
  BY PagingStep
<1>4. PagingInv /\ [Next]_vars =>
        [\A i \in reader'.got \ reader.got, j \in reader.got :
           Earlier(i, j)]_vars
  BY PagingStep
<1> QED
  BY <1>1, <1>2, <1>3, <1>4, PTL DEF Spec, PagingSound, PagesGoBack
=============================================================================
