---------------------------- MODULE TeachBoxCom ----------------------------
(***************************************************************************)
(* The teach-box thread: teachBoxCommunication (src/src/teachBoxCom), which *)
(* is called once per millisecond, accepts one TCP connection at a time,   *)
(* reads a TcpMessage of fixed size into a static buffer and hands it to   *)
(* cmdParsing.  Teach boxes and the network (external) may split a message *)
(* and break a connection.  A message is two pieces: the head with the     *)
(* command number and the beginning of the text, and the rest of the text. *)
(* What the commands do is the subject of JogControl and RunTask.          *)
(***************************************************************************)
EXTENDS Integers, Sequences

CONSTANTS
  MaxConnections, \* bound on the connections made
  MaxMessages,    \* bound on the messages sent on each
  FdLimit,        \* descriptors the process may open for connections
  Nothing         \* zero bytes: no command number, no text

ASSUME TeachBoxComAssumption ==
  /\ MaxConnections \in Nat /\ MaxMessages \in Nat /\ FdLimit \in Nat \ {0}
  /\ Nothing \notin (1..MaxConnections) \X (1..MaxMessages)

Connections == 1..MaxConnections
Messages    == Connections \X (1..MaxMessages)
Pieces      == [message : Messages, part : {"head", "rest"}]

VARIABLES
  pc,           \* where teachBoxCommunication is
  alive,        \* FALSE once SIGPIPE has ended the process
  cfd,          \* 0, -1, or the connection served: no two share a descriptor
  openFds,      \* connections whose descriptor is open
  commandNum, text,     \* tcpRecvMessage: the number, and the text by halves
  backlog,      \* connections that wait to be accepted
  stream,       \* per connection: pieces that have arrived and are not read
  peer,         \* per connection: what the box made of it
  sent,         \* per connection: messages sent
  latest        \* history: the last message handed to cmdParsing

threadVars == <<pc, alive, cfd, openFds>>
bufferVars == <<commandNum, text>>
netVars    == <<backlog, stream, peer, sent>>
vars == <<threadVars, bufferVars, netVars, latest>>

Init ==
  /\ pc = "idle" /\ alive = TRUE
  /\ cfd = 0 /\ openFds = {}
  /\ commandNum = Nothing
  /\ text = [head |-> Nothing, rest |-> Nothing]
  /\ backlog = <<>>
  /\ stream = [c \in Connections |-> <<>>]
  /\ peer = [c \in Connections |-> "unused"]
  /\ sent = [c \in Connections |-> 0]
  /\ latest = <<0, 0>>

Running(place) == alive /\ pc = place

-----------------------------------------------------------------------------
(* accept *)

Accept ==
  /\ Running("idle") /\ cfd \in {0, -1}
  /\ openFds # 1..FdLimit /\ backlog # <<>>
  /\ cfd' = Head(backlog)
  /\ backlog' = Tail(backlog)
  /\ openFds' = openFds \cup {cfd'}
  /\ pc' = "recv"
  /\ UNCHANGED <<alive, bufferVars, stream, peer, sent, latest>>

\* EAGAIN: the call returns.
AcceptNone ==
  /\ Running("idle") /\ cfd \in {0, -1}
  /\ openFds # 1..FdLimit /\ backlog = <<>>
  /\ cfd' = -1
  /\ UNCHANGED <<pc, alive, openFds, bufferVars, netVars, latest>>

\* Any other error (a connection aborted before it was accepted, no descriptor
\* left, an error of the network) is logged and the call goes on with cfd = -1.
AcceptFails ==
  /\ Running("idle") /\ cfd \in {0, -1}
  /\ \/ UNCHANGED backlog
     \/ /\ backlog # <<>> /\ peer[Head(backlog)] = "reset"
        /\ backlog' = Tail(backlog)
  /\ cfd' = -1
  /\ pc' = "recv"
  /\ UNCHANGED <<alive, openFds, bufferVars, stream, peer, sent, latest>>

KeepConnection ==
  /\ Running("idle") /\ cfd \in Connections
  /\ pc' = "recv"
  /\ UNCHANGED <<alive, cfd, openFds, bufferVars, netVars, latest>>

-----------------------------------------------------------------------------
(* recv *)

\* The piece that comes first is taken for the head: its first bytes are the
\* command number.  Only a true head holds a number that cmdParsing knows.
Number(piece) == IF piece.part = "head" THEN piece.message ELSE Nothing

\* recv returns what has arrived, up to the size of a message, and leaves the
\* rest of the buffer as it was.
RecvPieces(n) ==
  /\ Running("recv") /\ cfd \in Connections
  /\ Len(stream[cfd]) >= n
  /\ commandNum' = Number(stream[cfd][1])
  /\ text' = [head |-> stream[cfd][1],
              rest |-> IF n = 2 THEN stream[cfd][2] ELSE text.rest]
  /\ stream' = [stream EXCEPT ![cfd] = SubSeq(@, n + 1, Len(@))]
  /\ pc' = "parse"
  /\ UNCHANGED <<alive, cfd, openFds, backlog, peer, sent, latest>>

\* EAGAIN: nothing to read.
RecvNone ==
  /\ Running("recv") /\ cfd \in Connections
  /\ stream[cfd] = <<>> /\ peer[cfd] = "open"
  /\ pc' = "idle"
  /\ UNCHANGED <<alive, cfd, openFds, bufferVars, netVars, latest>>

\* Mutant: the descriptor is closed and not forgotten.
EndKeepsFd ==
  /\ Running("recv") /\ cfd \in Connections
  /\ stream[cfd] = <<>> /\ peer[cfd] \in {"closed", "broken"}
  /\ openFds' = openFds \ {cfd}
  /\ pc' = "idle"
  /\ UNCHANGED <<alive, cfd, bufferVars, netVars, latest>>

\* Mutant: the end of the stream is taken for EAGAIN.
EndAsNone ==
  /\ Running("recv") /\ cfd \in Connections
  /\ stream[cfd] = <<>> /\ peer[cfd] \in {"closed", "broken"}
  /\ pc' = "idle"
  /\ UNCHANGED <<alive, cfd, openFds, bufferVars, netVars, latest>>

\* The end of the stream: the descriptor is forgotten, not closed.
RecvEnd ==
  /\ Running("recv") /\ cfd \in Connections
  /\ stream[cfd] = <<>> /\ peer[cfd] \in {"closed", "broken"}
  /\ cfd' = 0
  /\ pc' = "idle"
  /\ UNCHANGED <<alive, openFds, bufferVars, netVars, latest>>

\* Any other error goes on to cmdParsing, which finds the last command number.
RecvError ==
  /\ Running("recv") /\ cfd \in Connections
  /\ peer[cfd] = "reset"
  /\ peer' = [peer EXCEPT ![cfd] = "broken"]
  /\ pc' = "parse"
  /\ UNCHANGED <<alive, cfd, openFds, bufferVars, backlog, stream, sent, latest>>

RecvBadFd ==
  /\ Running("recv") /\ cfd = -1
  /\ pc' = "parse"
  /\ UNCHANGED <<alive, cfd, openFds, bufferVars, netVars, latest>>

-----------------------------------------------------------------------------
(* cmdParsing and the answer it sends *)

HandlesKnown == commandNum # Nothing

\* Mutant: the text is not cleared.
HandledWithoutClear ==
  /\ latest' = IF HandlesKnown THEN commandNum ELSE latest
  /\ pc' = "idle"
  /\ UNCHANGED <<cfd, openFds, bufferVars, backlog, sent>>

\* The text is cleared after every message, the command number is not.
Handled ==
  /\ text' = [head |-> Nothing, rest |-> Nothing]
  /\ latest' = IF HandlesKnown THEN commandNum ELSE latest
  /\ pc' = "idle"
  /\ UNCHANGED <<cfd, openFds, commandNum, backlog, sent>>

\* No command number, or JogCycleMove, or an answer that can be sent or fails
\* with an error.  A box that has closed answers the answer with a reset.
Parse ==
  /\ Running("parse")
  /\ Handled
  /\ \/ UNCHANGED <<peer, stream>>
     \/ /\ HandlesKnown /\ cfd \in Connections /\ peer[cfd] = "closed"
        /\ peer' = [peer EXCEPT ![cfd] = "reset"]
        /\ stream' = [stream EXCEPT ![cfd] = <<>>]
  /\ UNCHANGED alive

\* An answer on a broken connection raises SIGPIPE, which nobody catches.
ParseKilled ==
  /\ Running("parse")
  /\ HandlesKnown /\ cfd \in Connections /\ peer[cfd] \in {"reset", "broken"}
  /\ alive' = FALSE
  /\ Handled
  /\ UNCHANGED <<peer, stream>>

-----------------------------------------------------------------------------
(* Teach boxes and the network (external) *)

BoxConnect(c) ==
  /\ alive
  /\ peer[c] = "unused" /\ \A d \in 1..(c - 1) : peer[d] # "unused"
  /\ peer' = [peer EXCEPT ![c] = "open"]
  /\ backlog' = Append(backlog, c)
  /\ UNCHANGED <<threadVars, bufferVars, stream, sent, latest>>

BoxSend(c) ==
  /\ alive
  /\ peer[c] = "open" /\ sent[c] < MaxMessages
  /\ sent' = [sent EXCEPT ![c] = @ + 1]
  /\ stream' = [stream EXCEPT ![c] = @ \o
       <<[message |-> <<c, sent'[c]>>, part |-> "head"],
         [message |-> <<c, sent'[c]>>, part |-> "rest"]>>]
  /\ UNCHANGED <<threadVars, bufferVars, backlog, peer, latest>>

BoxClose(c) ==
  /\ alive
  /\ peer[c] = "open"
  /\ peer' = [peer EXCEPT ![c] = "closed"]
  /\ UNCHANGED <<threadVars, bufferVars, backlog, stream, sent, latest>>

BoxReset(c) ==
  /\ alive
  /\ peer[c] \in {"open", "closed"}
  /\ peer' = [peer EXCEPT ![c] = "reset"]
  /\ stream' = [stream EXCEPT ![c] = <<>>]
  /\ UNCHANGED <<threadVars, bufferVars, backlog, sent, latest>>

-----------------------------------------------------------------------------
teachBoxCommunication ==
  \/ Accept \/ AcceptNone \/ AcceptFails \/ KeepConnection
  \/ RecvPieces(1) \/ RecvPieces(2)
  \/ RecvNone \/ RecvEnd \/ RecvError \/ RecvBadFd
  \/ Parse \/ ParseKilled

Box(c) == BoxConnect(c) \/ BoxSend(c) \/ BoxClose(c) \/ BoxReset(c)

Next == teachBoxCommunication \/ \E c \in Connections : Box(c)

Spec == Init /\ [][Next]_vars

\* The thread goes on for ever.
FairSpec == Spec /\ WF_vars(teachBoxCommunication)

-----------------------------------------------------------------------------
(* Properties *)

\* Every variable keeps its type, and the connection served has a descriptor.
TypeOK ==
  /\ pc \in {"idle", "recv", "parse"}
  /\ alive \in BOOLEAN
  /\ cfd \in openFds \cup {0, -1}
  /\ openFds \subseteq Connections
  /\ commandNum \in Messages \cup {Nothing}
  /\ text \in [head : Pieces \cup {Nothing}, rest : Pieces \cup {Nothing}]
  /\ backlog \in Seq(Connections)
  /\ stream \in [Connections -> Seq(Pieces)]
  /\ peer \in [Connections ->
                {"unused", "open", "closed", "reset", "broken"}]
  /\ sent \in [Connections -> 0..MaxMessages]
  /\ latest \in Messages \cup {<<0, 0>>}

Handles == pc = "parse" /\ pc' = "idle" /\ HandlesKnown

After(m, n) == m[1] > n[1] \/ (m[1] = n[1] /\ m[2] > n[2])

\* Commands that were received are handled in the order of their connections
\* and, on each, in the order they were sent, none twice, however the network
\* splits and breaks the stream.
InOrderOnce ==
  [][Handles /\ text.head # Nothing => After(commandNum, latest)]_vars

\* The text handed to cmdParsing never mixes a message with what an earlier,
\* longer one left in the static buffer: the two halves came one right after
\* the other.
NoLeftOver ==
  pc = "parse" /\ text.rest # Nothing =>
    \/ text.head.message = text.rest.message
    \/ /\ text.head.part = "rest" /\ text.rest.part = "head"
       /\ text.rest.message = [text.head.message EXCEPT ![2] = @ + 1]

GoneBox(c) == peer[c] \in {"closed", "reset", "broken"}

\* A box that is gone, in whichever way and in the middle of whichever call, is
\* let go: the thread turns to accept again, unless the process died.  (Whether
\* a descriptor is left for the next box is another matter.)
GoneBoxLetGo ==
  \A c \in Connections : GoneBox(c) ~> cfd # c \/ ~alive

\* What is left of a box that is gone: the ways in which recv may still fail,
\* and the place of the thread in a call.
EndsLeft(c) == CASE peer[c] = "closed" -> 2 [] peer[c] = "reset" -> 1 [] OTHER -> 0
PlaceLeft   == CASE pc = "parse" -> 2 [] pc = "idle" -> 1 [] pc = "recv" -> 0

\* Steps of the thread at most until it lets a box go that is gone: three for
\* each piece still to be read and for each error still to be found.
StepsToLetGo(c) == 3 * (Len(stream[c]) + EndsLeft(c)) + PlaceLeft

\* No call for a box that is gone is in vain: each one reads, or finds an
\* error it will not find again, or lets the box go; an answer that fails and
\* a reset that comes late do not put that off.
LetGoNearer ==
  [][\A c \in Connections :
       GoneBox(c) /\ cfd = c /\ cfd' = c =>
         /\ GoneBox(c)' /\ StepsToLetGo(c)' <= StepsToLetGo(c)
         /\ pc' # pc => StepsToLetGo(c)' < StepsToLetGo(c)]_vars

\* What cmdParsing is given was received: after a message the buffer is
\* cleared, so an error of accept or recv hands over nothing.
NoReplay == [][Handles => text.head # Nothing]_vars
=============================================================================
