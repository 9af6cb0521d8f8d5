-------------------------- MODULE TeachBoxComProofs --------------------------
(***************************************************************************)
(* Proofs about TeachBoxCom for any number of connections, messages and    *)
(* descriptors.                                                            *)
(***************************************************************************)
EXTENDS TeachBoxCom, TLAPS

USE TeachBoxComAssumption DEF TeachBoxComAssumption

NoText == [head |-> Nothing, rest |-> Nothing]

\* The place of a piece in all that its connection sends, and how many pieces
\* of a connection have been read or lost.
Place(piece) == 2 * piece.message[2] - (IF piece.part = "head" THEN 1 ELSE 0)
Gone(c) == 2 * sent[c] - Len(stream[c])

\* A stream holds the last pieces sent, in order.
Places(s, c, gone) ==
  \A j \in 1..Len(s) : s[j].message[1] = c /\ Place(s[j]) = gone + j

StreamInv == \A c \in Connections : Gone(c) >= 0 /\ Places(stream[c], c, Gone(c))

\* The buffer is clear or holds what the last recv read.
TextInv ==
  \/ text = NoText
  \/ /\ pc = "parse" /\ cfd \in Connections
     /\ text.head \in Pieces /\ commandNum = Number(text.head)
     /\ text.head.message[1] = cfd
     /\ \/ text.rest = Nothing
        \/ /\ text.rest \in Pieces /\ text.rest.message[1] = cfd
           /\ Place(text.rest) = Place(text.head) + 1

\* Boxes are served in the order they connected.
Before(n) ==
  /\ \A c \in Connections : peer[c] = "unused" => n < c
  /\ \A j \in 1..Len(backlog) : n < backlog[j]

QueueInv ==
  /\ \A j, k \in 1..Len(backlog) : j < k => backlog[j] < backlog[k]
  /\ \A c \in Connections, j \in 1..Len(backlog) : peer[c] = "unused" => backlog[j] < c
  /\ cfd \in Connections => Before(cfd)

\* A message that was handled comes before all that may still be read.
Past(m) ==
  /\ Before(m[1])
  /\ cfd \in Connections => m[1] <= cfd
  /\ m[1] \in Connections => Gone(m[1]) >= 2 * m[2] - 1

PastInv ==
  /\ Past(latest)
  /\ commandNum # Nothing => Past(commandNum)
  /\ text.head # Nothing /\ latest[1] = cfd => Place(text.head) > 2 * latest[2] - 1

\* What recv leaves in a stream from which it has taken n pieces.
LEMMA TakeType ==
  ASSUME NEW S, NEW s \in Seq(S), NEW n \in {1, 2}, Len(s) >= n
  PROVE  /\ s[1] \in S /\ (n = 2 => s[2] \in S)
         /\ SubSeq(s, n + 1, Len(s)) \in Seq(S)
         /\ Len(SubSeq(s, n + 1, Len(s))) = Len(s) - n
         /\ \A j \in 1..(Len(s) - n) : SubSeq(s, n + 1, Len(s))[j] = s[j + n]
  OBVIOUS

\* Reading from a stream keeps the places of its pieces.
LEMMA PlacesTaken ==
  ASSUME NEW s \in Seq(Pieces), NEW n \in {1, 2}, Len(s) >= n,
         NEW c, NEW gone \in Int, Places(s, c, gone)
  PROVE  Places(SubSeq(s, n + 1, Len(s)), c, gone + n)
<1> DEFINE r == SubSeq(s, n + 1, Len(s))
<1>1. Len(r) = Len(s) - n /\ \A j \in 1..(Len(s) - n) : r[j] = s[j + n]
  BY TakeType
<1> HIDE DEF r
<1>2. ASSUME NEW j \in 1..Len(r) PROVE r[j].message[1] = c /\ Place(r[j]) = (gone + n) + j
  <2>1. j + n \in 1..Len(s) /\ r[j] = s[j + n]
    BY <1>1
  <2>2. s[j + n].message[1] = c /\ Place(s[j + n]) = gone + (j + n)
    BY <2>1 DEF Places
  <2>q. QED
    BY <2>1, <2>2
<1>q. QED
  BY <1>2 DEF Places, r

\* So does sending on it.
LEMMA PlacesSent ==
  ASSUME NEW s \in Seq(Pieces), NEW c, NEW gone \in Int, Places(s, c, gone),
         NEW head \in Pieces, head.message[1] = c, Place(head) = gone + Len(s) + 1,
         NEW rest \in Pieces, rest.message[1] = c, Place(rest) = gone + Len(s) + 2
  PROVE  Places(s \o <<head, rest>>, c, gone)
<1> DEFINE r == s \o <<head, rest>>
<1>1. /\ Len(s) \in Nat /\ Len(r) = Len(s) + 2
      /\ \A j \in 1..Len(s) : r[j] = s[j]
      /\ r[Len(s) + 1] = head /\ r[Len(s) + 2] = rest
  OBVIOUS
<1> HIDE DEF r
<1>2. ASSUME NEW j \in 1..Len(r) PROVE r[j].message[1] = c /\ Place(r[j]) = gone + j
  <2>1. CASE j \in 1..Len(s)
    BY <2>1, <1>1 DEF Places
  <2>2. CASE j = Len(s) + 1
    BY <2>2, <1>1
  <2>3. CASE j = Len(s) + 2
    BY <2>3, <1>1
  <2>q. QED
    BY <1>1, <2>1, <2>2, <2>3
<1>q. QED
  BY <1>2 DEF Places, r

\* Every variable keeps its type.
LEMMA TypeInvariant == Spec => []TypeOK
<1>1. Init => TypeOK
  BY DEF Init, TypeOK
<1>2. TypeOK /\ [Next]_vars => TypeOK'
  <2> SUFFICES ASSUME TypeOK, [Next]_vars PROVE TypeOK'
    OBVIOUS
  <2> USE DEF TypeOK, Running, threadVars, bufferVars, netVars
  <2>1. ASSUME Accept PROVE TypeOK'
    <3>1. backlog \in Seq(Connections) /\ backlog # <<>>
      BY <2>1 DEF Accept
    <3>2. Head(backlog) \in Connections /\ Tail(backlog) \in Seq(Connections)
      BY <3>1
    <3>q. QED
      BY <2>1, <3>2 DEF Accept
  <2>2. ASSUME AcceptNone PROVE TypeOK'
    BY <2>2 DEF AcceptNone
  <2>3. ASSUME AcceptFails PROVE TypeOK'
    <3>1. backlog \in Seq(Connections)
      OBVIOUS
    <3>2. backlog' \in Seq(Connections)
      BY <2>3, <3>1 DEF AcceptFails
    <3>q. QED
      BY <2>3, <3>2 DEF AcceptFails
  <2>4. ASSUME KeepConnection PROVE TypeOK'
    BY <2>4 DEF KeepConnection
  <2>5. ASSUME NEW n \in {1, 2}, RecvPieces(n) PROVE TypeOK'
    <3>1. stream[cfd] \in Seq(Pieces)
      BY <2>5 DEF RecvPieces
    <3>2. /\ stream[cfd][1] \in Pieces /\ (n = 2 => stream[cfd][2] \in Pieces)
          /\ SubSeq(stream[cfd], n + 1, Len(stream[cfd])) \in Seq(Pieces)
      BY <2>5, <3>1, TakeType DEF RecvPieces
    <3>3. Number(stream[cfd][1]) \in Messages \cup {Nothing}
      BY <3>2 DEF Number, Pieces
    <3>q. QED
      BY <2>5, <3>2, <3>3 DEF RecvPieces
  <2>6. ASSUME RecvNone PROVE TypeOK'
    BY <2>6 DEF RecvNone
  <2>7. ASSUME RecvEnd PROVE TypeOK'
    BY <2>7 DEF RecvEnd
  <2>8. ASSUME RecvError PROVE TypeOK'
    BY <2>8 DEF RecvError
  <2>9. ASSUME RecvBadFd PROVE TypeOK'
    BY <2>9 DEF RecvBadFd
  <2>10. ASSUME Parse PROVE TypeOK'
    <3>1. stream' \in [Connections -> Seq(Pieces)]
      <4>1. <<>> \in Seq(Pieces)
        OBVIOUS
      <4>2. stream' = stream \/ stream' = [stream EXCEPT ![cfd] = <<>>]
        BY <2>10 DEF Parse
      <4>q. QED
        BY <4>1, <4>2
    <3>2. peer' \in [Connections -> {"unused", "open", "closed", "reset", "broken"}]
      BY <2>10 DEF Parse
    <3>3. text' \in [head : Pieces \cup {Nothing}, rest : Pieces \cup {Nothing}]
      BY <2>10 DEF Parse, Handled
    <3>4. latest' \in Messages \cup {<<0, 0>>}
      BY <2>10 DEF Parse, Handled, HandlesKnown
    <3>q. QED
      BY <2>10, <3>1, <3>2, <3>3, <3>4 DEF Parse, Handled
  <2>11. ASSUME ParseKilled PROVE TypeOK'
    <3>1. alive' \in BOOLEAN
      BY <2>11, Zenon DEF ParseKilled
    <3>2. latest' \in Messages \cup {<<0, 0>>}
      BY <2>11 DEF ParseKilled, Handled, HandlesKnown
    <3>q. QED
      BY <2>11, <3>1, <3>2 DEF ParseKilled, Handled
  <2>12. ASSUME NEW c \in Connections, BoxConnect(c) PROVE TypeOK'
    BY <2>12 DEF BoxConnect
  <2>13. ASSUME NEW c \in Connections, BoxSend(c) PROVE TypeOK'
    <3> DEFINE head == [message |-> <<c, sent'[c]>>, part |-> "head"]
    <3> DEFINE rest == [message |-> <<c, sent'[c]>>, part |-> "rest"]
    <3>1. sent' = [sent EXCEPT ![c] = sent[c] + 1] /\ sent[c] \in Nat /\ sent[c] < MaxMessages
      BY <2>13 DEF BoxSend
    <3>2. <<c, sent'[c]>> \in Messages
      <4>1. sent'[c] \in 1..MaxMessages
        BY <3>1
      <4>q. QED
        BY <4>1 DEF Messages
    <3>3. head \in Pieces /\ rest \in Pieces
      BY <3>2 DEF Pieces
    <3>4. stream' = [stream EXCEPT ![c] = stream[c] \o <<head, rest>>]
      BY <2>13 DEF BoxSend
    <3> HIDE DEF head, rest
    <3>5. <<head, rest>> \in Seq(Pieces) /\ stream[c] \in Seq(Pieces)
      BY <3>3
    <3>6. stream[c] \o <<head, rest>> \in Seq(Pieces)
      BY <3>5
    <3>7. stream' \in [Connections -> Seq(Pieces)]
      BY <3>4, <3>6
    <3>q. QED
      BY <2>13, <3>1, <3>7 DEF BoxSend
  <2>14. ASSUME NEW c \in Connections, BoxClose(c) PROVE TypeOK'
    BY <2>14 DEF BoxClose
  <2>15. ASSUME NEW c \in Connections, BoxReset(c) PROVE TypeOK'
    BY <2>15 DEF BoxReset
  <2>16. ASSUME UNCHANGED vars PROVE TypeOK'
    BY <2>16 DEF vars
  <2>q. QED
    BY <2>1, <2>2, <2>3, <2>4, <2>5, <2>6, <2>7, <2>8, <2>9, <2>10, <2>11,
       <2>12, <2>13, <2>14, <2>15, <2>16 DEF Next, teachBoxCommunication, Box
<1>q. QED
  BY <1>1, <1>2, PTL DEF Spec

\* Type correctness of the teach-box thread: Spec => []TypeOK.
THEOREM TypeCorrect == Spec => []TypeOK
  BY TypeInvariant

\* What is lost or read leaves the last pieces, in order.
LEMMA StreamInvariant == Spec => []StreamInv
<1>1. Init => StreamInv
  BY DEF Init, StreamInv, Gone, Places
<1>2. TypeOK /\ StreamInv /\ [Next]_vars => StreamInv'
  <2> SUFFICES ASSUME TypeOK, StreamInv, [Next]_vars PROVE StreamInv'
    OBVIOUS
  <2> USE DEF Running, threadVars, bufferVars, netVars, StreamInv
  <2>1. ASSUME Accept PROVE StreamInv'
    BY <2>1 DEF Accept, TypeOK, Gone
  <2>2. ASSUME AcceptNone PROVE StreamInv'
    BY <2>2 DEF AcceptNone, TypeOK, Gone
  <2>3. ASSUME AcceptFails PROVE StreamInv'
    BY <2>3 DEF AcceptFails, TypeOK, Gone
  <2>4. ASSUME KeepConnection PROVE StreamInv'
    BY <2>4 DEF KeepConnection, TypeOK, Gone
  <2>5. ASSUME NEW n \in {1, 2}, RecvPieces(n) PROVE StreamInv'
    <3>1. /\ cfd \in Connections /\ stream[cfd] \in Seq(Pieces) /\ Len(stream[cfd]) >= n
          /\ stream' = [stream EXCEPT ![cfd] = SubSeq(stream[cfd], n + 1, Len(stream[cfd]))]
          /\ sent' = sent /\ cfd' = cfd
      BY <2>5 DEF RecvPieces, TypeOK
    <3>2. /\ stream'[cfd] = SubSeq(stream[cfd], n + 1, Len(stream[cfd]))
          /\ \A d \in Connections \ {cfd} : stream'[d] = stream[d]
      BY <3>1 DEF TypeOK
    <3>3. Gone(cfd)' = Gone(cfd) + n /\ Gone(cfd) \in Int /\ n \in Int /\ n > 0
      <4>1. Len(stream'[cfd]) = Len(stream[cfd]) - n /\ Len(stream[cfd]) \in Int
        BY <3>1, <3>2, TakeType
      <4>2. sent[cfd] \in Int
        BY <3>1 DEF TypeOK
      <4>3. n \in Int /\ n > 0
        OBVIOUS
      <4>4. Gone(cfd)' = 2 * sent[cfd] - Len(stream'[cfd])
        BY <3>1 DEF Gone
      <4>q. QED
        BY <4>1, <4>2, <4>3, <4>4 DEF Gone
    <3>4. \A d \in Connections \ {cfd} : Gone(d)' = Gone(d)
      BY <3>1, <3>2 DEF Gone
    <3>5. Places(stream'[cfd], cfd, Gone(cfd)')
      BY <3>1, <3>2, <3>3, PlacesTaken
    <3>6. ASSUME NEW c \in Connections PROVE (Gone(c) >= 0 /\ Places(stream[c], c, Gone(c)))'
      <4>1. CASE c = cfd
        <5>1. Gone(c) >= 0
          BY DEF StreamInv
        <5>q. QED
          BY <4>1, <5>1, <3>1, <3>3, <3>5
      <4>2. CASE c # cfd
        BY <4>2, <3>2, <3>4
      <4>q. QED
        BY <4>1, <4>2
    <3>q. QED
      BY <3>6
  <2>6. ASSUME RecvNone PROVE StreamInv'
    BY <2>6 DEF RecvNone, TypeOK, Gone
  <2>7. ASSUME RecvEnd PROVE StreamInv'
    BY <2>7 DEF RecvEnd, TypeOK, Gone
  <2>8. ASSUME RecvError PROVE StreamInv'
    BY <2>8 DEF RecvError, TypeOK, Gone
  <2>9. ASSUME RecvBadFd PROVE StreamInv'
    BY <2>9 DEF RecvBadFd, TypeOK, Gone
  <2>10. ASSUME Parse PROVE StreamInv'
    <3>1. sent' = sent /\ \A d \in Connections : stream'[d] = stream[d] \/ stream'[d] = <<>>
      BY <2>10 DEF Parse, Handled, TypeOK
    <3>2. \A d \in Connections : Len(stream[d]) \in Nat /\ sent[d] \in Nat
      BY DEF TypeOK
    <3>q. QED
      BY <3>1, <3>2 DEF Gone, Places
  <2>11. ASSUME ParseKilled PROVE StreamInv'
    BY <2>11 DEF ParseKilled, Handled, TypeOK, Gone
  <2>12. ASSUME NEW c \in Connections, BoxConnect(c) PROVE StreamInv'
    BY <2>12 DEF BoxConnect, TypeOK, Gone
  <2>13. ASSUME NEW c \in Connections, BoxSend(c) PROVE StreamInv'
    <3> DEFINE head == [message |-> <<c, sent'[c]>>, part |-> "head"]
    <3> DEFINE rest == [message |-> <<c, sent'[c]>>, part |-> "rest"]
    <3>1. /\ sent' = [sent EXCEPT ![c] = sent[c] + 1] /\ sent[c] \in Nat
          /\ sent[c] < MaxMessages
          /\ stream' = [stream EXCEPT ![c] = stream[c] \o <<head, rest>>]
          /\ stream[c] \in Seq(Pieces)
      BY <2>13 DEF BoxSend, TypeOK
    <3>2. sent'[c] = sent[c] + 1 /\ sent'[c] \in 1..MaxMessages
      BY <3>1 DEF TypeOK
    <3>3. /\ head.message[1] = c /\ Place(head) = 2 * sent[c] + 1 /\ head \in Pieces
          /\ rest.message[1] = c /\ Place(rest) = 2 * sent[c] + 2 /\ rest \in Pieces
      <4>1. <<c, sent'[c]>> \in Messages
        BY <3>2 DEF Messages
      <4>2. head \in Pieces /\ rest \in Pieces
        BY <4>1 DEF Pieces
      <4>3. head.message[1] = c /\ rest.message[1] = c
        OBVIOUS
      <4>4. Place(head) = 2 * sent'[c] - 1 /\ Place(rest) = 2 * sent'[c] - 0
        BY DEF Place
      <4>q. QED
        BY <3>1, <3>2, <4>2, <4>3, <4>4
    <3> HIDE DEF head, rest
    <3>4. /\ stream'[c] = stream[c] \o <<head, rest>>
          /\ \A d \in Connections \ {c} : stream'[d] = stream[d] /\ sent'[d] = sent[d]
      BY <3>1 DEF TypeOK
    <3>5. Len(stream'[c]) = Len(stream[c]) + 2 /\ Len(stream[c]) \in Nat
      BY <3>1, <3>3, <3>4
    <3>6. Gone(c)' = Gone(c) /\ Gone(c) \in Int /\ Gone(c) + Len(stream[c]) = 2 * sent[c]
      BY <3>1, <3>2, <3>5 DEF Gone
    <3>7. \A d \in Connections \ {c} : Gone(d)' = Gone(d)
      BY <3>4 DEF Gone
    <3>8. Places(stream'[c], c, Gone(c)')
      BY <3>1, <3>3, <3>4, <3>6, PlacesSent
    <3>q. QED
      BY <3>4, <3>6, <3>7, <3>8
  <2>14. ASSUME NEW c \in Connections, BoxClose(c) PROVE StreamInv'
    BY <2>14 DEF BoxClose, TypeOK, Gone
  <2>15. ASSUME NEW c \in Connections, BoxReset(c) PROVE StreamInv'
    <3>1. sent' = sent /\ \A d \in Connections : stream'[d] = stream[d] \/ stream'[d] = <<>>
      BY <2>15 DEF BoxReset, TypeOK
    <3>2. \A d \in Connections : Len(stream[d]) \in Nat /\ sent[d] \in Nat
      BY DEF TypeOK
    <3>q. QED
      BY <3>1, <3>2 DEF Gone, Places
  <2>16. ASSUME UNCHANGED vars PROVE StreamInv'
    BY <2>16 DEF vars, TypeOK, Gone
  <2>q. QED
    BY <2>1, <2>2, <2>3, <2>4, <2>5, <2>6, <2>7, <2>8, <2>9, <2>10, <2>11,
       <2>12, <2>13, <2>14, <2>15, <2>16 DEF Next, teachBoxCommunication, Box
<1>q. QED
  BY <1>1, <1>2, TypeInvariant, PTL DEF Spec

\* The buffer is clear whenever recv is called.
LEMMA TextInvariant == Spec => []TextInv
<1>1. Init => TextInv
  BY DEF Init, TextInv, NoText
<1>2. TypeOK /\ StreamInv /\ TextInv /\ [Next]_vars => TextInv'
  <2> SUFFICES ASSUME TypeOK, StreamInv, TextInv, [Next]_vars PROVE TextInv'
    OBVIOUS
  <2> USE DEF Running, threadVars, bufferVars, netVars, TextInv, NoText, TypeOK
  <2>1. ASSUME Accept PROVE TextInv'
    BY <2>1 DEF Accept, TypeOK
  <2>2. ASSUME AcceptNone PROVE TextInv'
    BY <2>2 DEF AcceptNone, TypeOK
  <2>3. ASSUME AcceptFails PROVE TextInv'
    BY <2>3 DEF AcceptFails, TypeOK
  <2>4. ASSUME KeepConnection PROVE TextInv'
    BY <2>4 DEF KeepConnection, TypeOK
  <2>5. ASSUME NEW n \in {1, 2}, RecvPieces(n) PROVE TextInv'
    <3>1. cfd \in Connections /\ stream[cfd] \in Seq(Pieces) /\ Len(stream[cfd]) >= n
      BY <2>5 DEF RecvPieces
    <3>2. stream[cfd][1] \in Pieces /\ (n = 2 => stream[cfd][2] \in Pieces)
      BY <3>1, TakeType
    <3>3. /\ stream[cfd][1].message[1] = cfd /\ Place(stream[cfd][1]) = Gone(cfd) + 1
          /\ n = 2 => /\ stream[cfd][2].message[1] = cfd
                      /\ Place(stream[cfd][2]) = Gone(cfd) + 2
      BY <3>1 DEF StreamInv, Places
    <3>4. /\ text'.head = stream[cfd][1]
          /\ text'.rest = IF n = 2 THEN stream[cfd][2] ELSE Nothing
          /\ pc' = "parse" /\ cfd' = cfd /\ commandNum' = Number(stream[cfd][1])
      BY <2>5 DEF RecvPieces
    <3>5. Gone(cfd) \in Int
      BY <3>1 DEF Gone
    <3>q. QED
      BY <3>1, <3>2, <3>3, <3>4, <3>5
  <2>6. ASSUME RecvNone PROVE TextInv'
    BY <2>6 DEF RecvNone, TypeOK
  <2>7. ASSUME RecvEnd PROVE TextInv'
    BY <2>7 DEF RecvEnd, TypeOK
  <2>8. ASSUME RecvError PROVE TextInv'
    BY <2>8 DEF RecvError, TypeOK
  <2>9. ASSUME RecvBadFd PROVE TextInv'
    BY <2>9 DEF RecvBadFd, TypeOK
  <2>10. ASSUME Parse PROVE TextInv'
    BY <2>10 DEF Parse, Handled, TypeOK
  <2>11. ASSUME ParseKilled PROVE TextInv'
    BY <2>11 DEF ParseKilled, Handled, TypeOK
  <2>12. ASSUME NEW c \in Connections, BoxConnect(c) PROVE TextInv'
    BY <2>12 DEF BoxConnect, TypeOK
  <2>13. ASSUME NEW c \in Connections, BoxSend(c) PROVE TextInv'
    BY <2>13 DEF BoxSend, TypeOK
  <2>14. ASSUME NEW c \in Connections, BoxClose(c) PROVE TextInv'
    BY <2>14 DEF BoxClose, TypeOK
  <2>15. ASSUME NEW c \in Connections, BoxReset(c) PROVE TextInv'
    BY <2>15 DEF BoxReset, TypeOK
  <2>16. ASSUME UNCHANGED vars PROVE TextInv'
    BY <2>16 DEF vars, TypeOK
  <2>q. QED
    BY <2>1, <2>2, <2>3, <2>4, <2>5, <2>6, <2>7, <2>8, <2>9, <2>10, <2>11,
       <2>12, <2>13, <2>14, <2>15, <2>16 DEF Next, teachBoxCommunication, Box
<1>q. QED
  BY <1>1, <1>2, TypeInvariant, StreamInvariant, PTL DEF Spec

\* Connections are accepted in the order they were made.
LEMMA QueueInvariant == Spec => []QueueInv
<1>1. Init => QueueInv
  BY DEF Init, QueueInv, Connections
<1>2. TypeOK /\ QueueInv /\ [Next]_vars => QueueInv'
  <2> SUFFICES ASSUME TypeOK, QueueInv, [Next]_vars PROVE QueueInv'
    OBVIOUS
  <2> USE DEF Running, threadVars, bufferVars, netVars
  <2>1. ASSUME Accept PROVE QueueInv'
    <3>1. backlog \in Seq(Connections) /\ backlog # <<>> /\ peer' = peer
      BY <2>1 DEF Accept, TypeOK
    <3>2. /\ Len(backlog') = Len(backlog) - 1 /\ cfd' = backlog[1] /\ Len(backlog) \in Nat \ {0}
          /\ \A j \in 1..Len(backlog') : backlog'[j] = backlog[j + 1] /\ j + 1 \in 1..Len(backlog)
      BY <2>1, <3>1 DEF Accept
    <3>3. /\ \A j, k \in 1..Len(backlog) : j < k => backlog[j] < backlog[k]
          /\ \A d \in Connections, j \in 1..Len(backlog) : peer[d] = "unused" => backlog[j] < d
      BY DEF QueueInv
    <3>4. Before(cfd)'
      BY <3>1, <3>2, <3>3 DEF Before
    <3>5. \A j, k \in 1..Len(backlog') : j < k => backlog'[j] < backlog'[k]
      BY <3>2, <3>3
    <3>6. \A d \in Connections, j \in 1..Len(backlog') :
            peer'[d] = "unused" => backlog'[j] < d
      BY <3>1, <3>2, <3>3
    <3>q. QED
      BY <3>4, <3>5, <3>6 DEF QueueInv
  <2>2. ASSUME AcceptNone PROVE QueueInv'
    BY <2>2 DEF AcceptNone, TypeOK, QueueInv, Before, Connections
  <2>3. ASSUME AcceptFails PROVE QueueInv'
    <3>1. backlog \in Seq(Connections) /\ peer' = peer
      BY <2>3 DEF AcceptFails, TypeOK
    <3>2. CASE backlog' = backlog
      BY <2>3, <3>2 DEF AcceptFails, TypeOK, QueueInv, Before, Connections
    <3>3. CASE backlog # <<>> /\ backlog' = Tail(backlog)
      <4>1. /\ Len(backlog') = Len(backlog) - 1 /\ Len(backlog) \in Nat
            /\ \A j \in 1..Len(backlog') :
                 backlog'[j] = backlog[j + 1] /\ j + 1 \in 1..Len(backlog)
        BY <3>1, <3>3
      <4>2. /\ \A j, k \in 1..Len(backlog) : j < k => backlog[j] < backlog[k]
            /\ \A d \in Connections, j \in 1..Len(backlog) :
                 peer[d] = "unused" => backlog[j] < d
        BY DEF QueueInv
      <4>3. \A j, k \in 1..Len(backlog') : j < k => backlog'[j] < backlog'[k]
        BY <4>1, <4>2
      <4>4. \A d \in Connections, j \in 1..Len(backlog') :
              peer'[d] = "unused" => backlog'[j] < d
        BY <3>1, <4>1, <4>2
      <4>5. cfd' \notin Connections
        BY <2>3 DEF AcceptFails, Connections
      <4>q. QED
        BY <4>3, <4>4, <4>5 DEF QueueInv
    <3>q. QED
      BY <2>3, <3>2, <3>3 DEF AcceptFails
  <2>4. ASSUME KeepConnection PROVE QueueInv'
    BY <2>4 DEF KeepConnection, TypeOK, QueueInv, Before, Connections
  <2>5. ASSUME NEW n \in {1, 2}, RecvPieces(n) PROVE QueueInv'
    BY <2>5 DEF RecvPieces, TypeOK, QueueInv, Before, Connections
  <2>6. ASSUME RecvNone PROVE QueueInv'
    BY <2>6 DEF RecvNone, TypeOK, QueueInv, Before, Connections
  <2>7. ASSUME RecvEnd PROVE QueueInv'
    BY <2>7 DEF RecvEnd, TypeOK, QueueInv, Before, Connections
  <2>8. ASSUME RecvError PROVE QueueInv'
    BY <2>8 DEF RecvError, TypeOK, QueueInv, Before, Connections
  <2>9. ASSUME RecvBadFd PROVE QueueInv'
    BY <2>9 DEF RecvBadFd, TypeOK, QueueInv, Before, Connections
  <2>10. ASSUME Parse PROVE QueueInv'
    BY <2>10 DEF Parse, Handled, TypeOK, QueueInv, Before, Connections
  <2>11. ASSUME ParseKilled PROVE QueueInv'
    BY <2>11 DEF ParseKilled, Handled, TypeOK, QueueInv, Before, Connections
  <2>12. ASSUME NEW c \in Connections, BoxConnect(c) PROVE QueueInv'
    <3>1. backlog \in Seq(Connections) /\ backlog' = Append(backlog, c)
      BY <2>12 DEF BoxConnect, TypeOK
    <3>2. /\ Len(backlog') = Len(backlog) + 1 /\ Len(backlog) \in Nat
          /\ \A j \in 1..Len(backlog) : backlog'[j] = backlog[j]
          /\ backlog'[Len(backlog) + 1] = c
      BY <3>1
    <3>3. \A d \in Connections : peer'[d] = "unused" => peer[d] = "unused" /\ c < d
      BY <2>12 DEF BoxConnect, Connections, TypeOK
    <3>4. peer[c] = "unused" /\ cfd' = cfd
      BY <2>12 DEF BoxConnect
    <3>q. QED
      BY <3>2, <3>3, <3>4 DEF QueueInv, Before
  <2>13. ASSUME NEW c \in Connections, BoxSend(c) PROVE QueueInv'
    BY <2>13 DEF BoxSend, TypeOK, QueueInv, Before, Connections
  <2>14. ASSUME NEW c \in Connections, BoxClose(c) PROVE QueueInv'
    BY <2>14 DEF BoxClose, TypeOK, QueueInv, Before, Connections
  <2>15. ASSUME NEW c \in Connections, BoxReset(c) PROVE QueueInv'
    BY <2>15 DEF BoxReset, TypeOK, QueueInv, Before, Connections
  <2>16. ASSUME UNCHANGED vars PROVE QueueInv'
    BY <2>16 DEF vars, TypeOK, QueueInv, Before, Connections
  <2>q. QED
    BY <2>1, <2>2, <2>3, <2>4, <2>5, <2>6, <2>7, <2>8, <2>9, <2>10, <2>11,
       <2>12, <2>13, <2>14, <2>15, <2>16 DEF Next, teachBoxCommunication, Box
<1>q. QED
  BY <1>1, <1>2, TypeInvariant, PTL DEF Spec

\* A step only adds to what is gone of a connection, and does not bring a
\* connection back to the queue.
LEMMA Advance ==
  ASSUME TypeOK, StreamInv, QueueInv, [Next]_vars
  PROVE  /\ \A c \in Connections : Gone(c)' >= Gone(c) /\ Gone(c) \in Int /\ Gone(c)' \in Int
         /\ \A m \in Nat : Before(m) => Before(m)'
<1> USE DEF Running, threadVars, bufferVars, netVars
<1>1. \A c \in Connections : Len(stream[c]) \in Nat /\ sent[c] \in Nat
  BY DEF TypeOK
<1>2. \A c \in Connections : Gone(c)' >= Gone(c) /\ Gone(c)' \in Int
  <2>1. ASSUME Accept PROVE \A d \in Connections : Gone(d)' >= Gone(d) /\
     Gone(d)' \in Int
    BY <2>1, <1>1 DEF Accept, Gone
  <2>2. ASSUME AcceptNone PROVE \A d \in Connections : Gone(d)' >= Gone(d) /\
     Gone(d)' \in Int
    BY <2>2, <1>1 DEF AcceptNone, Gone
  <2>3. ASSUME AcceptFails PROVE \A d \in Connections : Gone(d)' >= Gone(d) /\
     Gone(d)' \in Int
    BY <2>3, <1>1 DEF AcceptFails, Gone
  <2>4. ASSUME KeepConnection PROVE \A d \in Connections : Gone(d)' >= Gone(d)
     /\ Gone(d)' \in Int
    BY <2>4, <1>1 DEF KeepConnection, Gone
  <2>5. ASSUME NEW n \in {1, 2}, RecvPieces(n) PROVE \A d \in Connections :
     Gone(d)' >= Gone(d) /\ Gone(d)' \in Int
    <3>1. /\ cfd \in Connections /\ stream[cfd] \in Seq(Pieces) /\ Len(stream[cfd]) >= n
          /\ stream' = [stream EXCEPT ![cfd] = SubSeq(stream[cfd], n + 1, Len(stream[cfd]))]
          /\ sent' = sent /\ cfd' = cfd
      BY <2>5 DEF RecvPieces, TypeOK
    <3>2. /\ stream'[cfd] = SubSeq(stream[cfd], n + 1, Len(stream[cfd]))
          /\ \A d \in Connections \ {cfd} : stream'[d] = stream[d]
      BY <3>1 DEF TypeOK
    <3>3. Gone(cfd)' = Gone(cfd) + n /\ Gone(cfd) \in Int /\ n \in Int /\ n > 0
      <4>1. Len(stream'[cfd]) = Len(stream[cfd]) - n /\ Len(stream[cfd]) \in Int
        BY <3>1, <3>2, TakeType
      <4>2. sent[cfd] \in Int
        BY <3>1 DEF TypeOK
      <4>3. n \in Int /\ n > 0
        OBVIOUS
      <4>4. Gone(cfd)' = 2 * sent[cfd] - Len(stream'[cfd])
        BY <3>1 DEF Gone
      <4>q. QED
        BY <4>1, <4>2, <4>3, <4>4 DEF Gone
    <3>4. \A d \in Connections \ {cfd} : Gone(d)' = Gone(d)
      BY <3>1, <3>2 DEF Gone
    <3>5. \A d \in Connections : Gone(d) \in Int
      BY <1>1 DEF Gone
    <3>q. QED
      <4>1. ASSUME NEW d \in Connections PROVE Gone(d)' >= Gone(d) /\ Gone(d)' \in Int
        <5>1. CASE d = cfd
          BY <5>1, <3>1, <3>3
        <5>2. CASE d # cfd
          BY <5>2, <3>4, <3>5
        <5>q. QED
          BY <5>1, <5>2
      <4>q. QED
        BY <4>1
  <2>6. ASSUME RecvNone PROVE \A d \in Connections : Gone(d)' >= Gone(d) /\
     Gone(d)' \in Int
    BY <2>6, <1>1 DEF RecvNone, Gone
  <2>7. ASSUME RecvEnd PROVE \A d \in Connections : Gone(d)' >= Gone(d) /\
     Gone(d)' \in Int
    BY <2>7, <1>1 DEF RecvEnd, Gone
  <2>8. ASSUME RecvError PROVE \A d \in Connections : Gone(d)' >= Gone(d) /\
     Gone(d)' \in Int
    BY <2>8, <1>1 DEF RecvError, Gone
  <2>9. ASSUME RecvBadFd PROVE \A d \in Connections : Gone(d)' >= Gone(d) /\
     Gone(d)' \in Int
    BY <2>9, <1>1 DEF RecvBadFd, Gone
  <2>10. ASSUME Parse PROVE \A d \in Connections : Gone(d)' >= Gone(d) /\
     Gone(d)' \in Int
    <3>1. sent' = sent /\ \A d \in Connections : stream'[d] = stream[d] \/ stream'[d] = <<>>
      BY <2>10 DEF Parse, Handled, TypeOK
    <3>2. \A d \in Connections : Len(stream[d]) \in Nat /\ sent[d] \in Nat
      BY DEF TypeOK
    <3>q. QED
      BY <3>1, <3>2 DEF Gone
  <2>11. ASSUME ParseKilled PROVE \A d \in Connections : Gone(d)' >= Gone(d) /\
     Gone(d)' \in Int
    BY <2>11, <1>1 DEF ParseKilled, Handled, Gone
  <2>12. ASSUME NEW c \in Connections, BoxConnect(c) PROVE \A d \in Connections
     : Gone(d)' >= Gone(d) /\ Gone(d)' \in Int
    BY <2>12, <1>1 DEF BoxConnect, Gone
  <2>13. ASSUME NEW c \in Connections, BoxSend(c) PROVE \A d \in Connections :
     Gone(d)' >= Gone(d) /\ Gone(d)' \in Int
    <3> DEFINE head == [message |-> <<c, sent'[c]>>, part |-> "head"]
    <3> DEFINE rest == [message |-> <<c, sent'[c]>>, part |-> "rest"]
    <3>1. /\ sent' = [sent EXCEPT ![c] = sent[c] + 1] /\ sent[c] \in Nat
          /\ sent[c] < MaxMessages
          /\ stream' = [stream EXCEPT ![c] = stream[c] \o <<head, rest>>]
          /\ stream[c] \in Seq(Pieces)
      BY <2>13 DEF BoxSend, TypeOK
    <3>2. sent'[c] = sent[c] + 1 /\ sent'[c] \in 1..MaxMessages
      BY <3>1 DEF TypeOK
    <3>3. /\ head.message[1] = c /\ Place(head) = 2 * sent[c] + 1 /\ head \in Pieces
          /\ rest.message[1] = c /\ Place(rest) = 2 * sent[c] + 2 /\ rest \in Pieces
      <4>1. <<c, sent'[c]>> \in Messages
        BY <3>2 DEF Messages
      <4>2. head \in Pieces /\ rest \in Pieces
        BY <4>1 DEF Pieces
      <4>3. head.message[1] = c /\ rest.message[1] = c
        OBVIOUS
      <4>4. Place(head) = 2 * sent'[c] - 1 /\ Place(rest) = 2 * sent'[c] - 0
        BY DEF Place
      <4>q. QED
        BY <3>1, <3>2, <4>2, <4>3, <4>4
    <3> HIDE DEF head, rest
    <3>4. /\ stream'[c] = stream[c] \o <<head, rest>>
          /\ \A d \in Connections \ {c} : stream'[d] = stream[d] /\ sent'[d] = sent[d]
      BY <3>1 DEF TypeOK
    <3>5. Len(stream'[c]) = Len(stream[c]) + 2 /\ Len(stream[c]) \in Nat
      BY <3>1, <3>3, <3>4
    <3>6. Gone(c)' = Gone(c) /\ Gone(c) \in Int /\ Gone(c) + Len(stream[c]) = 2 * sent[c]
      BY <3>1, <3>2, <3>5 DEF Gone
    <3>7. \A d \in Connections \ {c} : Gone(d)' = Gone(d)
      BY <3>4 DEF Gone
    <3>8. \A d \in Connections : Gone(d) \in Int
      BY <1>1 DEF Gone
    <3>q. QED
      BY <3>6, <3>7, <3>8
  <2>14. ASSUME NEW c \in Connections, BoxClose(c) PROVE \A d \in Connections :
     Gone(d)' >= Gone(d) /\ Gone(d)' \in Int
    BY <2>14, <1>1 DEF BoxClose, Gone
  <2>15. ASSUME NEW c \in Connections, BoxReset(c) PROVE \A d \in Connections :
     Gone(d)' >= Gone(d) /\ Gone(d)' \in Int
    <3>1. sent' = sent /\ \A d \in Connections : stream'[d] = stream[d] \/ stream'[d] = <<>>
      BY <2>15 DEF BoxReset, TypeOK
    <3>2. \A d \in Connections : Len(stream[d]) \in Nat /\ sent[d] \in Nat
      BY DEF TypeOK
    <3>q. QED
      BY <3>1, <3>2 DEF Gone
  <2>16. ASSUME UNCHANGED vars PROVE \A d \in Connections : Gone(d)' >= Gone(d)
     /\ Gone(d)' \in Int
    BY <2>16, <1>1 DEF vars, Gone
  <2>q. QED
    BY <2>1, <2>2, <2>3, <2>4, <2>5, <2>6, <2>7, <2>8, <2>9, <2>10, <2>11,
       <2>12, <2>13, <2>14, <2>15, <2>16 DEF Next, teachBoxCommunication, Box
<1>3. ASSUME NEW m \in Nat, Before(m) PROVE Before(m)'
  <2>1. ASSUME Accept PROVE Before(m)'
    <3>1. backlog \in Seq(Connections) /\ backlog # <<>> /\ peer' = peer
      BY <2>1 DEF Accept, TypeOK
    <3>2. /\ Len(backlog') = Len(backlog) - 1 /\ Len(backlog) \in Nat
          /\ \A j \in 1..Len(backlog') : backlog'[j] = backlog[j + 1] /\ j + 1 \in 1..Len(backlog)
      BY <2>1, <3>1 DEF Accept
    <3>q. QED
      BY <1>3, <3>1, <3>2 DEF Before
  <2>2. ASSUME AcceptNone PROVE Before(m)'
    BY <2>2, <1>3 DEF AcceptNone, Before, TypeOK
  <2>3. ASSUME AcceptFails PROVE Before(m)'
    <3>1. backlog \in Seq(Connections) /\ peer' = peer
      BY <2>3 DEF AcceptFails, TypeOK
    <3>2. CASE backlog' = backlog
      BY <2>3, <1>3, <3>2 DEF AcceptFails, TypeOK, Before, Connections
    <3>3. CASE backlog # <<>> /\ backlog' = Tail(backlog)
      <4>1. /\ Len(backlog') = Len(backlog) - 1 /\ Len(backlog) \in Nat
            /\ \A j \in 1..Len(backlog') :
                 backlog'[j] = backlog[j + 1] /\ j + 1 \in 1..Len(backlog)
        BY <3>1, <3>3
      <4>q. QED
        BY <1>3, <3>1, <4>1 DEF Before
    <3>q. QED
      BY <2>3, <3>2, <3>3 DEF AcceptFails
  <2>4. ASSUME KeepConnection PROVE Before(m)'
    BY <2>4, <1>3 DEF KeepConnection, Before, TypeOK
  <2>5. ASSUME NEW n \in {1, 2}, RecvPieces(n) PROVE Before(m)'
    BY <2>5, <1>3 DEF RecvPieces, Before, TypeOK
  <2>6. ASSUME RecvNone PROVE Before(m)'
    BY <2>6, <1>3 DEF RecvNone, Before, TypeOK
  <2>7. ASSUME RecvEnd PROVE Before(m)'
    BY <2>7, <1>3 DEF RecvEnd, Before, TypeOK
  <2>8. ASSUME RecvError PROVE Before(m)'
    BY <2>8, <1>3 DEF RecvError, Before, TypeOK
  <2>9. ASSUME RecvBadFd PROVE Before(m)'
    BY <2>9, <1>3 DEF RecvBadFd, Before, TypeOK
  <2>10. ASSUME Parse PROVE Before(m)'
    BY <2>10, <1>3 DEF Parse, Handled, Before, TypeOK
  <2>11. ASSUME ParseKilled PROVE Before(m)'
    BY <2>11, <1>3 DEF ParseKilled, Handled, Before, TypeOK
  <2>12. ASSUME NEW c \in Connections, BoxConnect(c) PROVE Before(m)'
    <3>1. backlog \in Seq(Connections) /\ backlog' = Append(backlog, c)
      BY <2>12 DEF BoxConnect, TypeOK
    <3>2. /\ Len(backlog') = Len(backlog) + 1 /\ Len(backlog) \in Nat
          /\ \A j \in 1..Len(backlog) : backlog'[j] = backlog[j]
          /\ backlog'[Len(backlog) + 1] = c
      BY <3>1
    <3>3. peer[c] = "unused" /\ \A d \in Connections : peer'[d] = "unused" => peer[d] = "unused"
      BY <2>12 DEF BoxConnect, TypeOK
    <3>q. QED
      BY <1>3, <3>2, <3>3 DEF Before
  <2>13. ASSUME NEW c \in Connections, BoxSend(c) PROVE Before(m)'
    BY <2>13, <1>3 DEF BoxSend, Before, TypeOK
  <2>14. ASSUME NEW c \in Connections, BoxClose(c) PROVE Before(m)'
    BY <2>14, <1>3 DEF BoxClose, Before, TypeOK
  <2>15. ASSUME NEW c \in Connections, BoxReset(c) PROVE Before(m)'
    BY <2>15, <1>3 DEF BoxReset, Before, TypeOK
  <2>16. ASSUME UNCHANGED vars PROVE Before(m)'
    BY <2>16, <1>3 DEF vars, Before, TypeOK
  <2>q. QED
    BY <2>1, <2>2, <2>3, <2>4, <2>5, <2>6, <2>7, <2>8, <2>9, <2>10, <2>11,
       <2>12, <2>13, <2>14, <2>15, <2>16 DEF Next, teachBoxCommunication, Box
<1>q. QED
  BY <1>1, <1>2, <1>3 DEF Gone

\* What a step does to what is served and to the buffer: only RecvPieces
\* fills it, and whatever else changes the connection finds it clear.
LEMMA Buffer ==
  ASSUME TypeOK, TextInv, [Next]_vars
  PROVE  /\ \/ cfd' \in {cfd, 0, -1}
            \/ backlog \in Seq(Connections) /\ backlog # <<>> /\ cfd' = Head(backlog)
         /\ \/ \E n \in {1, 2} : RecvPieces(n)
            \/ /\ commandNum' = commandNum
               /\ latest' = latest \/ (commandNum # Nothing /\ latest' = commandNum)
               /\ \/ text'.head = Nothing
                  \/ text' = text /\ latest' = latest /\ cfd' = cfd
<1> USE DEF Running, threadVars, bufferVars, netVars, TextInv, NoText
<1>1. CASE Accept
  BY <1>1 DEF Accept, TypeOK
<1>2. CASE AcceptNone
  BY <1>2 DEF AcceptNone
<1>3. CASE AcceptFails
  BY <1>3 DEF AcceptFails
<1>4. CASE KeepConnection
  BY <1>4 DEF KeepConnection
<1>5. CASE RecvPieces(1) \/ RecvPieces(2)
  <2>1. cfd' = cfd
    BY <1>5 DEF RecvPieces
  <2>q. QED
    BY <1>5, <2>1
<1>6. CASE RecvNone
  BY <1>6 DEF RecvNone
<1>7. CASE RecvEnd
  BY <1>7 DEF RecvEnd
<1>8. CASE RecvError
  BY <1>8 DEF RecvError
<1>9. CASE RecvBadFd
  BY <1>9 DEF RecvBadFd
<1>10. CASE Parse \/ ParseKilled
  BY <1>10 DEF Parse, ParseKilled, Handled, HandlesKnown
<1>11. CASE \E c \in Connections : Box(c)
  BY <1>11 DEF Box, BoxConnect, BoxSend, BoxClose, BoxReset
<1>12. CASE UNCHANGED vars
  BY <1>12 DEF vars
<1>q. QED
  BY <1>1, <1>2, <1>3, <1>4, <1>5, <1>6, <1>7, <1>8, <1>9, <1>10, <1>11, <1>12
     DEF Next, teachBoxCommunication

\* What is past stays past.
LEMMA PastKept ==
  ASSUME TypeOK, StreamInv, TextInv, QueueInv, [Next]_vars,
         NEW m \in Messages \cup {<<0, 0>>}, Past(m)
  PROVE  Past(m)'
<1>1. m[1] \in Nat /\ m[2] \in Nat
  BY DEF Messages, Connections
<1>2. Before(m[1])'
  BY <1>1, Advance DEF Past
<1>3. cfd' \in Connections => m[1] <= cfd'
  <2>1. CASE cfd' \in {cfd, 0, -1}
    BY <2>1 DEF Past, Connections
  <2>2. CASE backlog \in Seq(Connections) /\ backlog # <<>> /\ cfd' = Head(backlog)
    <3>1. 1 \in 1..Len(backlog) /\ Head(backlog) = backlog[1] /\ backlog[1] \in Nat
      BY <2>2 DEF Connections
    <3>2. m[1] < backlog[1]
      BY <3>1 DEF Past, Before
    <3>q. QED
      BY <1>1, <2>2, <3>1, <3>2
  <2>q. QED
    BY <2>1, <2>2, Buffer
<1>4. m[1] \in Connections => Gone(m[1])' >= 2 * m[2] - 1
  <2>1. SUFFICES ASSUME m[1] \in Connections PROVE Gone(m[1])' >= 2 * m[2] - 1
    OBVIOUS
  <2>2. Gone(m[1]) >= 2 * m[2] - 1
    BY <2>1 DEF Past
  <2>3. Gone(m[1])' >= Gone(m[1]) /\ Gone(m[1]) \in Int /\ Gone(m[1])' \in Int
    BY <2>1, Advance
  <2>q. QED
    BY <1>1, <2>2, <2>3
<1>q. QED
  BY <1>2, <1>3, <1>4 DEF Past

\* What recv takes was neither lost nor handled before.
LEMMA Taken ==
  ASSUME TypeOK, StreamInv, TextInv, QueueInv, PastInv, [Next]_vars,
         NEW n \in {1, 2}, RecvPieces(n)
  PROVE  /\ commandNum' # Nothing => Past(commandNum)'
         /\ latest' = latest
         /\ latest[1] = cfd' => Place(text'.head) > 2 * latest[2] - 1
<1> DEFINE piece == stream[cfd][1]
<1>1. /\ cfd \in Connections /\ cfd' = cfd /\ Len(stream[cfd]) >= n
      /\ stream[cfd] \in Seq(Pieces)
      /\ text'.head = piece /\ commandNum' = Number(piece) /\ latest' = latest
  BY DEF RecvPieces, TypeOK
<1>2. piece \in Pieces /\ 1 \in 1..Len(stream[cfd])
  BY <1>1
<1>3. piece.message[1] = cfd /\ Place(piece) = Gone(cfd) + 1
  BY <1>1, <1>2 DEF StreamInv, Places
<1>4. /\ Gone(cfd) \in Int /\ Gone(cfd)' \in Int /\ Gone(cfd)' >= Gone(cfd) + 1
  <2>1. stream'[cfd] = SubSeq(stream[cfd], n + 1, Len(stream[cfd])) /\ sent' = sent
    BY <1>1 DEF RecvPieces, TypeOK
  <2>2. Len(stream'[cfd]) = Len(stream[cfd]) - n /\ Len(stream[cfd]) \in Int
    BY <1>1, <2>1, TakeType
  <2>3. sent[cfd] \in Int /\ Gone(cfd) = 2 * sent[cfd] - Len(stream[cfd])
    BY <1>1 DEF TypeOK, Gone
  <2>4. Gone(cfd)' = 2 * sent[cfd] - Len(stream'[cfd])
    BY <1>1, <2>1 DEF Gone
  <2>q. QED
    BY <2>2, <2>3, <2>4
<1> HIDE DEF piece
<1>5. ASSUME commandNum' # Nothing PROVE Past(commandNum)'
  <2>1. piece.part = "head" /\ commandNum' = piece.message /\ piece.message \in Messages
    BY <1>1, <1>2, <1>5 DEF Number, Pieces
  <2>2. Place(piece) = 2 * piece.message[2] - 1
    BY <2>1 DEF Place
  <2>3. Before(cfd)'
    <3>1. Before(cfd) /\ cfd \in Nat
      BY <1>1 DEF QueueInv, Connections
    <3>2. \A m \in Nat : Before(m) => Before(m)'
      BY Advance
    <3>3. ASSUME NEW m \in Nat, m = cfd PROVE Before(m)'
      BY <3>1, <3>2, <3>3
    <3>q. QED
      BY <1>1, <3>1, <3>3 DEF Before
  <2>4. commandNum'[1] = cfd /\ commandNum'[2] = piece.message[2] /\ cfd \in Int
    BY <1>1, <1>3, <2>1 DEF Connections
  <2>5. Gone(cfd)' >= 2 * commandNum'[2] - 1
    BY <1>3, <1>4, <2>2, <2>4
  <2>6. Gone(commandNum[1])' >= 2 * commandNum'[2] - 1
    BY <1>1, <2>4, <2>5 DEF Gone
  <2>7. Before(commandNum[1])'
    BY <1>1, <2>3, <2>4 DEF Before
  <2>q. QED
    BY <1>1, <2>4, <2>6, <2>7 DEF Past
<1>6. ASSUME latest[1] = cfd' PROVE Place(text'.head) > 2 * latest[2] - 1
  <2>1. Gone(cfd) >= 2 * latest[2] - 1 /\ latest[2] \in Int
    BY <1>1, <1>6 DEF PastInv, Past, TypeOK, Messages
  <2>q. QED
    BY <1>1, <1>3, <1>4, <2>1
<1>q. QED
  BY <1>1, <1>5, <1>6

\* Messages that were handled come before all that may still be read.
LEMMA PastInvariant == Spec => []PastInv
<1>1. Init => PastInv
  BY DEF Init, PastInv, Past, Before, Connections
<1>2. TypeOK /\ StreamInv /\ TextInv /\ QueueInv /\ PastInv /\ [Next]_vars => PastInv'
  <2> SUFFICES ASSUME TypeOK, StreamInv, TextInv, QueueInv, PastInv, [Next]_vars
               PROVE  PastInv'
    OBVIOUS
  <2>1. latest \in Messages \cup {<<0, 0>>} /\ Past(latest)
    BY DEF TypeOK, PastInv
  <2>2. ASSUME NEW m \in Messages \cup {<<0, 0>>}, Past(m) PROVE Past(m)'
    BY <2>2, PastKept
  <2>3. CASE \E n \in {1, 2} : RecvPieces(n)
    <3>1. PICK n \in {1, 2} : RecvPieces(n)
      BY <2>3
    <3>2. /\ commandNum' # Nothing => Past(commandNum)'
          /\ latest' = latest
          /\ latest[1] = cfd' => Place(text'.head) > 2 * latest[2] - 1
      BY <3>1, Taken
    <3>3. Past(latest)'
      <4>1. ASSUME NEW m \in Messages \cup {<<0, 0>>}, m = latest PROVE Past(m)'
        BY <2>1, <2>2, <4>1
      <4>q. QED
        BY <2>1, <3>2, <4>1 DEF Past, Before, Gone
    <3>4. (text.head # Nothing /\ latest[1] = cfd => Place(text.head) > 2 * latest[2] - 1)'
      BY <3>2 DEF Place
    <3>q. QED
      BY <3>2, <3>3, <3>4 DEF PastInv
  <2>4. CASE ~ \E n \in {1, 2} : RecvPieces(n)
    <3>1. /\ commandNum' = commandNum
          /\ latest' = latest \/ (commandNum # Nothing /\ latest' = commandNum)
          /\ \/ text'.head = Nothing
             \/ text' = text /\ latest' = latest /\ cfd' = cfd
      BY <2>4, Buffer
    <3>2. commandNum' # Nothing => Past(commandNum)'
      <4>1. commandNum \in Messages \cup {Nothing} /\ (commandNum # Nothing => Past(commandNum))
        BY DEF TypeOK, PastInv
      <4>2. ASSUME NEW m \in Messages \cup {<<0, 0>>}, m = commandNum, commandNum # Nothing
            PROVE Past(m)'
        BY <2>2, <4>1, <4>2
      <4>q. QED
        BY <3>1, <4>1, <4>2 DEF Past, Before, Gone
    <3>3. Past(latest)'
      <4>1. ASSUME NEW m \in Messages \cup {<<0, 0>>}, m = latest PROVE Past(m)'
        BY <2>1, <2>2, <4>1
      <4>2. CASE latest' = latest
        BY <2>1, <4>1, <4>2 DEF Past, Before, Gone
      <4>3. CASE commandNum # Nothing /\ latest' = commandNum
        BY <3>1, <3>2, <4>3 DEF Past, Before, Gone
      <4>q. QED
        BY <3>1, <4>2, <4>3
    <3>4. (text.head # Nothing /\ latest[1] = cfd => Place(text.head) > 2 * latest[2] - 1)'
      BY <3>1 DEF PastInv, Place
    <3>q. QED
      BY <3>2, <3>3, <3>4 DEF PastInv
  <2>q. QED
    BY <2>3, <2>4
<1>q. QED
  BY <1>1, <1>2, TypeInvariant, StreamInvariant, TextInvariant, QueueInvariant, PTL DEF Spec

\* The text never mixes a message with what an earlier one left in the static
\* buffer of teachBoxCommunication: Spec => []NoLeftOver.
THEOREM NoLeftOverCorrect == Spec => []NoLeftOver
<1>1. TypeOK /\ TextInv => NoLeftOver
  <2> SUFFICES ASSUME TypeOK, TextInv, text.rest # Nothing
               PROVE  \/ text.head.message = text.rest.message
                      \/ /\ text.head.part = "rest" /\ text.rest.part = "head"
                         /\ text.rest.message = [text.head.message EXCEPT ![2] = @ + 1]
    BY DEF NoLeftOver
  <2> DEFINE h == text.head
  <2> DEFINE r == text.rest
  <2>1. /\ h \in Pieces /\ r \in Pieces /\ h.message[1] = r.message[1]
        /\ Place(r) = Place(h) + 1
    BY DEF TextInv, NoText
  <2> HIDE DEF h, r
  <2>2. PICK c \in Connections, k \in 1..MaxMessages : h.message = <<c, k>>
    BY <2>1 DEF Pieces, Messages
  <2>3. PICK d \in Connections, l \in 1..MaxMessages : r.message = <<d, l>>
    BY <2>1 DEF Pieces, Messages
  <2>4. c = d /\ h.part \in {"head", "rest"} /\ r.part \in {"head", "rest"}
    BY <2>1, <2>2, <2>3 DEF Pieces
  <2>5. 2 * l - (IF r.part = "head" THEN 1 ELSE 0) =
        2 * k - (IF h.part = "head" THEN 1 ELSE 0) + 1
    BY <2>1, <2>2, <2>3 DEF Place
  <2>6. CASE h.part = "head"
    <3>1. l = k
      BY <2>4, <2>5, <2>6
    <3>q. QED
      BY <2>2, <2>3, <2>4, <3>1 DEF h, r
  <2>7. CASE h.part = "rest"
    <3>1. l = k + 1 /\ r.part = "head"
      BY <2>4, <2>5, <2>7
    <3>2. [<<c, k>> EXCEPT ![2] = @ + 1] = <<c, k + 1>>
      OBVIOUS
    <3>q. QED
      BY <2>2, <2>3, <2>4, <2>7, <3>1, <3>2 DEF h, r
  <2>q. QED
    BY <2>4, <2>6, <2>7
<1>q. QED
  BY <1>1, TypeInvariant, TextInvariant, PTL

\* Commands that cmdParsing finds in what was received are handled in the
\* order they were sent, none twice: Spec => InOrderOnce.
THEOREM InOrderOnceCorrect == Spec => InOrderOnce
<1>1. /\ TypeOK /\ StreamInv /\ TextInv /\ QueueInv /\ PastInv /\ [Next]_vars
      => [Handles /\ text.head # Nothing => After(commandNum, latest)]_vars
  <2> SUFFICES ASSUME TypeOK, TextInv, PastInv, Handles, text.head # Nothing
               PROVE  After(commandNum, latest)
    OBVIOUS
  <2>1. /\ cfd \in Connections /\ text.head \in Pieces
        /\ commandNum = Number(text.head) /\ text.head.message[1] = cfd
    BY DEF TextInv, NoText
  <2>2. /\ text.head.part = "head" /\ commandNum = text.head.message
        /\ commandNum \in Messages
    BY <2>1 DEF Handles, HandlesKnown, Number, Pieces
  <2>3. /\ commandNum[1] = cfd /\ Place(text.head) = 2 * commandNum[2] - 1
        /\ commandNum[2] \in Int /\ cfd \in Int
    BY <2>1, <2>2 DEF Place, Messages, Connections
  <2>4. latest[1] \in Int /\ latest[2] \in Int
    BY DEF TypeOK, Messages, Connections
  <2>5. latest[1] <= cfd /\ (latest[1] = cfd => Place(text.head) > 2 * latest[2] - 1)
    BY <2>1 DEF PastInv, Past
  <2>q. QED
    BY <2>3, <2>4, <2>5 DEF After
<1>q. QED
  BY <1>1, TypeInvariant, StreamInvariant, TextInvariant, QueueInvariant, PastInvariant,
     PTL DEF Spec, InOrderOnce

\* StepsToLetGo shrinks if there is not more to read nor more ways to fail, and
\* less of one of them or, with both the same, the thread is further in its call.
LEMMA NearerIf ==
  ASSUME TypeOK, TypeOK', NEW c \in Connections,
         Len(stream[c])' <= Len(stream[c]), EndsLeft(c)' <= EndsLeft(c),
         \/ Len(stream[c])' < Len(stream[c])
         \/ EndsLeft(c)' < EndsLeft(c)
         \/ PlaceLeft' < PlaceLeft
  PROVE  StepsToLetGo(c)' < StepsToLetGo(c) /\ StepsToLetGo(c)' <= StepsToLetGo(c)
<1>1. /\ EndsLeft(c) \in 0..2 /\ PlaceLeft \in 0..2
      /\ EndsLeft(c)' \in 0..2 /\ PlaceLeft' \in 0..2
  BY DEF EndsLeft, PlaceLeft, TypeOK
<1>2. Len(stream[c]) \in Nat /\ Len(stream[c])' \in Nat
  BY DEF TypeOK
<1>3. /\ StepsToLetGo(c) = 3 * (Len(stream[c]) + EndsLeft(c)) + PlaceLeft
      /\ StepsToLetGo(c)' = 3 * (Len(stream[c])' + EndsLeft(c)') + PlaceLeft'
  BY DEF StepsToLetGo
<1>4. PICK n, m \in Nat : n = Len(stream[c])' /\ m = Len(stream[c])
  BY <1>2
<1>5. PICK e, f, j, k \in 0..2 :
        e = EndsLeft(c)' /\ f = EndsLeft(c) /\ j = PlaceLeft' /\ k = PlaceLeft
  BY <1>1
<1>6. n <= m /\ e <= f /\ (n < m \/ e < f \/ j < k)
  BY <1>4, <1>5
<1>7. 3 * (n + e) + j < 3 * (m + f) + k /\ 3 * (n + e) + j <= 3 * (m + f) + k
  BY <1>6
<1>q. QED
  BY <1>3, <1>4, <1>5, <1>7

\* The thread lets a box that is gone go nearer with every step.
THEOREM LetGoNearerCorrect == Spec => LetGoNearer
<1> DEFINE Nearer(c) == /\ GoneBox(c)' /\ StepsToLetGo(c)' <= StepsToLetGo(c)
                        /\ pc' # pc => StepsToLetGo(c)' < StepsToLetGo(c)
<1> DEFINE Goal == \A c \in Connections : GoneBox(c) /\ cfd = c /\ cfd' = c => Nearer(c)
<1>1. TypeOK /\ TypeOK' /\ [Next]_vars => [Goal]_vars
  <2> SUFFICES ASSUME TypeOK, TypeOK', [Next]_vars,
                      NEW c \in Connections, GoneBox(c), cfd = c, cfd' = c
               PROVE  Nearer(c)
    OBVIOUS
  <2> USE DEF Running, threadVars, bufferVars, netVars, GoneBox
  <2>t. /\ stream[c] \in Seq(Pieces) /\ Len(stream[c]) \in Nat
        /\ c \in DOMAIN stream /\ c \in DOMAIN peer /\ c # 0 /\ c # -1
    BY DEF TypeOK, Connections
  \* A step that leaves the box and the stream as they are.
  <2>a. ASSUME peer'[c] = peer[c], stream'[c] = stream[c], pc' = pc \/ PlaceLeft' < PlaceLeft
        PROVE  Nearer(c)
    <3>1. GoneBox(c)' /\ Len(stream[c])' = Len(stream[c]) /\ EndsLeft(c)' = EndsLeft(c)
      BY <2>a DEF EndsLeft
    <3>2. CASE PlaceLeft' < PlaceLeft
      <4>1. Len(stream[c])' <= Len(stream[c]) /\ EndsLeft(c)' <= EndsLeft(c)
        BY <2>t, <3>1 DEF EndsLeft
      <4>q. QED
        BY <3>1, <3>2, <4>1, NearerIf
    <3>3. CASE pc' = pc
      <4>1. StepsToLetGo(c)' = StepsToLetGo(c) /\ StepsToLetGo(c) \in Int
        BY <2>a, <2>t, <3>3 DEF StepsToLetGo, EndsLeft, PlaceLeft, TypeOK
      <4>q. QED
        BY <3>1, <3>3, <4>1
    <3>q. QED
      BY <2>a, <3>2, <3>3
  \* One that leaves less of them.
  <2>b. ASSUME GoneBox(c)', Len(stream[c])' <= Len(stream[c]), EndsLeft(c)' <= EndsLeft(c),
               \/ Len(stream[c])' < Len(stream[c])
               \/ EndsLeft(c)' < EndsLeft(c)
               \/ PlaceLeft' < PlaceLeft
        PROVE  Nearer(c)
    <3>1. StepsToLetGo(c)' < StepsToLetGo(c) /\ StepsToLetGo(c)' <= StepsToLetGo(c)
      BY <2>b, NearerIf
    <3>q. QED
      BY <2>b, <3>1
  <2>1. ASSUME Accept \/ AcceptNone \/ AcceptFails PROVE Nearer(c)
    BY <2>1, <2>t DEF Accept, AcceptNone, AcceptFails
  <2>2. ASSUME KeepConnection PROVE Nearer(c)
    BY <2>2, <2>a DEF KeepConnection, PlaceLeft
  <2>3. ASSUME NEW n \in {1, 2}, RecvPieces(n) PROVE Nearer(c)
    <3>1. /\ stream'[c] = SubSeq(stream[c], n + 1, Len(stream[c]))
          /\ Len(stream[c]) >= n /\ peer'[c] = peer[c]
      BY <2>3, <2>t DEF RecvPieces
    <3>2. Len(stream[c])' = Len(stream[c]) - n
      BY <2>t, <3>1, TakeType
    <3>3. Len(stream[c])' < Len(stream[c]) /\ Len(stream[c])' <= Len(stream[c])
      BY <2>t, <3>2
    <3>4. GoneBox(c)' /\ EndsLeft(c)' = EndsLeft(c) /\ EndsLeft(c) \in 0..2
      BY <3>1 DEF EndsLeft
    <3>q. QED
      BY <2>b, <3>3, <3>4
  <2>4. ASSUME RecvNone \/ RecvEnd \/ RecvBadFd PROVE Nearer(c)
    BY <2>4, <2>t DEF RecvNone, RecvEnd, RecvBadFd
  <2>5. ASSUME RecvError PROVE Nearer(c)
    <3>1. peer[c] = "reset" /\ peer'[c] = "broken" /\ stream' = stream
      BY <2>5, <2>t DEF RecvError
    <3>2. GoneBox(c)' /\ EndsLeft(c)' < EndsLeft(c) /\ EndsLeft(c)' <= EndsLeft(c)
      BY <3>1 DEF EndsLeft
    <3>q. QED
      BY <2>b, <2>t, <3>1, <3>2
  <2>6. ASSUME Parse PROVE Nearer(c)
    <3>1. PlaceLeft' < PlaceLeft
      BY <2>6 DEF Parse, Handled, PlaceLeft
    <3>2. CASE UNCHANGED <<peer, stream>>
      BY <2>a, <3>1, <3>2
    <3>3. CASE peer[c] = "closed" /\ peer'[c] = "reset" /\ stream'[c] = <<>>
      <4>1. GoneBox(c)' /\ EndsLeft(c)' <= EndsLeft(c) /\ Len(stream[c])' <= Len(stream[c])
        BY <2>t, <3>3 DEF EndsLeft
      <4>q. QED
        BY <2>b, <3>1, <4>1
    <3>q. QED
      BY <2>6, <2>t, <3>2, <3>3 DEF Parse
  <2>7. ASSUME ParseKilled PROVE Nearer(c)
    BY <2>7, <2>a DEF ParseKilled, Handled, PlaceLeft
  <2>8. ASSUME NEW d \in Connections, BoxConnect(d) \/ BoxSend(d) \/ BoxClose(d)
        PROVE  Nearer(c)
    <3>1. d # c /\ pc' = pc
      BY <2>8 DEF BoxConnect, BoxSend, BoxClose
    <3>2. peer'[c] = peer[c] /\ stream'[c] = stream[c]
      BY <2>8, <2>t, <3>1 DEF BoxConnect, BoxSend, BoxClose
    <3>q. QED
      BY <2>a, <3>1, <3>2
  <2>9. ASSUME NEW d \in Connections, BoxReset(d) PROVE Nearer(c)
    <3>1. CASE d # c
      BY <2>9, <2>a, <2>t, <3>1 DEF BoxReset
    <3>2. CASE d = c
      <4>1. peer[c] = "closed" /\ peer'[c] = "reset" /\ stream'[c] = <<>>
        BY <2>9, <2>t, <3>2 DEF BoxReset
      <4>2. /\ GoneBox(c)' /\ EndsLeft(c)' < EndsLeft(c) /\ EndsLeft(c)' <= EndsLeft(c)
            /\ Len(stream[c])' <= Len(stream[c])
        BY <2>t, <4>1 DEF EndsLeft
      <4>q. QED
        BY <2>b, <4>2
    <3>q. QED
      BY <3>1, <3>2
  <2>10. ASSUME UNCHANGED vars PROVE Nearer(c)
    BY <2>10, <2>a DEF vars
  <2>q. QED
    BY <2>1, <2>2, <2>3, <2>4, <2>5, <2>6, <2>7, <2>8, <2>9, <2>10
       DEF Next, teachBoxCommunication, Box
<1>q. QED
  BY <1>1, TypeInvariant, PTL DEF Spec, LetGoNearer
==============================================================================
