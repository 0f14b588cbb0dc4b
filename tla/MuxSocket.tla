------------------------------- MODULE MuxSocket -------------------------------
(***************************************************************************)
(* The stream multiplexer of SKDB: one websocket between the TypeScript    *)
(* client (MuxedSocket and Stream of skdb_orchestration.ts) and the Kotlin *)
(* server (MuxedSocket and Stream of Mux.kt, as Service.kt uses them).     *)
(*                                                                         *)
(* Each end is a record; a method of the code is an operator from the      *)
(* record before the call to the record after it, so a method that calls   *)
(* another composes as it does in the code.  What an end sends while a     *)
(* handler runs collects in `out` and goes on the wire when it returns.    *)
(* JavaScript runs a handler to completion, so one of the client is a      *)
(* step.  The server has threads: the websocket's, which handles one       *)
(* message at a time, the session timer's, and those of the application.   *)
(* Its methods read the state of the socket or of the stream, release the  *)
(* lock (or hold none) and act on what they read; a handler of the server  *)
(* is therefore a step per read and per act (`handler`), and a call of the *)
(* application on a stream may act on a state it read earlier (`call`).    *)
(* The application is free to call the socket's methods in any order; its  *)
(* reaction to a callback is a later step.  Payloads are their position in *)
(* the stream; error codes, ping and pong are left out.                    *)
(***************************************************************************)
EXTENDS Integers, Sequences, SequencesExt

CONSTANTS
  MaxStream,             \* bound on stream identifiers
  MaxData,               \* bound on the messages the client sends on a stream
  MaxReply,              \* bound on the messages the server sends on a stream
  MaxReauth,             \* bound on re-authentications
  MaxCut,                \* bound on losses of the connection
  ServerOpens,           \* does the server open streams too?
  ClientEnds,            \* does the client close or error its socket?
  Calls,                 \* the calls on streams, of the server's application, that other
                         \* threads interrupt: some of close and error
  LateTimer,             \* may a message overtake the server's session timer?
  DeliversWhileClosing,  \* does the client's websocket deliver after close()?
  OrderedOpen            \* is the first message of a stream sent in the order of opening?

ASSUME MuxAssumption ==
  /\ {MaxStream, MaxData, MaxReply, MaxReauth, MaxCut} \subseteq Nat
  /\ Calls \subseteq {"close", "error"}
  /\ {ServerOpens, ClientEnds, LateTimer, DeliversWhileClosing, OrderedOpen} \subseteq BOOLEAN

VARIABLES
  end,        \* the two ends of the connection
  wire,       \* messages on their way to each end
  link,       \* is the connection between the websockets up?
  signing,    \* sendAuth of the client awaits the signature
  connected,  \* MuxedSocket.connect has resolved
  expired,    \* the server's session is older than maxConnectionDuration
  reauths,    \* re-authentications so far
  cuts,       \* losses so far
  handler,    \* the message the websocket thread of the server is handling
  call        \* a call of the server's application on a stream, between read and act

vars == <<end, wire, link, signing, connected, expired, reauths, cuts, handler, call>>

Side == {"client", "server"}
Peer(s) == CHOOSE t \in Side : t # s
Id == 1..MaxStream

\* The client opens odd streams, the server even ones.
Own(s) == {i \in Id : i % 2 = IF s = "client" THEN 1 ELSE 0}

SocketState == {"IDLE", "AUTH", "CLOSING", "CLOSEWAIT", "CLOSED"}
StreamState == {"none", "OPEN", "CLOSING", "CLOSEWAIT", "CLOSED"}

\* The socket's methods for streams send only in these states.
CanSend == {"AUTH", "CLOSEWAIT"}

Msg(type, i, n) == [type |-> type, stream |-> i, n |-> n]
WsClose(clean) == Msg("wsclose", 0, IF clean THEN 0 ELSE 1)
Lost == Msg("lost", 0, 0)

NewEnd(s) ==
  [side      |-> s,
   state     |-> "IDLE",
   stream    |-> [i \in Id |-> "none"],   \* the state of the stream object
   active    |-> {},                      \* activeStreams
   next      |-> IF s = "client" THEN 1 ELSE 2,
   mark      |-> 0,                       \* serverStreamWatermark, otherStreamWatermark
   ws        |-> "open",                  \* readyState of the websocket
   timer     |-> s = "server",            \* reauthTimer; the session timeout
   told      |-> [i \in Id |-> FALSE],    \* onClose or onError called, or errored by its user
   got       |-> [i \in Id |-> <<>>],     \* what onData was given
   after     |-> [i \in Id |-> 0],        \* calls of onData since
   sent      |-> [i \in Id |-> 0],        \* messages the application sent
   announced |-> [i \in Id |-> 0],        \* calls of onStream
   over      |-> FALSE,                   \* the socket has ended once
   late      |-> {},                      \* streams opened after that
   out       |-> <<>>,
   hangup    |-> FALSE,                   \* the server closed its channel
   io        |-> FALSE]                   \* sending raises

\* What the websocket thread of the server goes by between two of its steps: the
\* message, and the state that it has read of the stream.
Handler(pc, m, read) == [pc |-> pc, m |-> m, read |-> read]
NoHandler == Handler("idle", Lost, "none")

NoCall == [op |-> "none", i |-> 0, read |-> "none"]

Init ==
  /\ end = [s \in Side |-> NewEnd(s)]
  /\ wire = [s \in Side |-> <<>>]
  /\ link = "up"
  /\ signing = TRUE
  /\ connected = FALSE
  /\ expired = FALSE
  /\ reauths = 0
  /\ cuts = 0
  /\ handler = NoHandler
  /\ call = NoCall

-----------------------------------------------------------------------------
(* Streams, as the socket calls them; `read` is the state the method has read *)

\* onStreamClose: the peer will send no more.
OnStreamClose(e, i, read) ==
  CASE read = "OPEN"    -> [e EXCEPT !.stream[i] = "CLOSEWAIT", !.told[i] = TRUE]
    [] read = "CLOSING" -> [e EXCEPT !.stream[i] = "CLOSED", !.told[i] = TRUE]
    [] OTHER            -> e

OnStreamError(e, i, read) ==
  IF read = "CLOSED" THEN e ELSE [e EXCEPT !.stream[i] = "CLOSED", !.told[i] = TRUE]

\* Mutant: the state of the stream is not looked at.
OnStreamData_Always(e, i, n, read) ==
  [e EXCEPT !.got[i] = Append(@, n), !.after[i] = IF e.told[i] THEN @ + 1 ELSE @]

OnStreamData(e, i, n, read) ==
  IF read \notin {"OPEN", "CLOSING"} THEN e
  ELSE [e EXCEPT !.got[i] = Append(@, n), !.after[i] = IF e.told[i] THEN @ + 1 ELSE @]

\* A method called on every active stream, in the order of the map.
ForEachStream(Op(_, _, _), e) ==
  FoldLeft(LAMBDA f, i : Op(f, i, f.stream[i]), e, SetToSortSeq(e.active, <))

-----------------------------------------------------------------------------
(* The socket *)

\* onSocketError: a goaway, or the transport failed.
OnSocketError(e) ==
  IF e.state = "CLOSED" THEN e
  ELSE [ForEachStream(OnStreamError, e) EXCEPT
          !.active = {}, !.timer = FALSE, !.state = "CLOSED"]

\* The websocket drops what is sent once it is closing; on the server a
\* failing send errors the socket.
Put(e, m) ==
  IF e.io THEN OnSocketError(e)
  ELSE IF e.ws = "open" THEN [e EXCEPT !.out = Append(@, m)] ELSE e

\* socket.close(code); the server also closes the channel under it.
CloseWebSocket(e, clean) ==
  IF e.ws # "open" THEN e
  ELSE IF e.side = "client"
       THEN [Put(e, WsClose(clean)) EXCEPT !.ws = "closing"]
       ELSE [Put(e, WsClose(clean)) EXCEPT !.ws = "closed", !.hangup = TRUE]

streamClose(e, i, nowClosed) ==
  IF e.state \notin CanSend THEN e
  ELSE LET f == Put(e, Msg("close", i, 0))
       IN  IF nowClosed THEN [f EXCEPT !.active = @ \ {i}] ELSE f

\* Stream.close
Close(e, i, read) ==
  CASE read = "OPEN"      -> streamClose([e EXCEPT !.stream[i] = "CLOSING"], i, FALSE)
    [] read = "CLOSEWAIT" -> streamClose([e EXCEPT !.stream[i] = "CLOSED"], i, TRUE)
    [] OTHER              -> e

\* Mutant: the reset is not sent.
Error_Silent(e, i, read) == [e EXCEPT !.stream[i] = "CLOSED", !.active = @ \ {i}]

\* Stream.error and streamError
Error(e, i, read) ==
  LET f == [e EXCEPT !.stream[i] = "CLOSED", !.told[i] = TRUE]
  IN  IF read \in {"OPEN", "CLOSEWAIT"} /\ e.state \in CanSend
      THEN [Put(f, Msg("reset", i, 0)) EXCEPT !.active = @ \ {i}]
      ELSE f

\* Stream.send and streamSend
Send(e, i, read) ==
  LET f == [e EXCEPT !.sent[i] = @ + 1]
  IN  IF read \in {"OPEN", "CLOSEWAIT"} /\ e.state \in CanSend
      THEN Put(f, Msg("data", i, f.sent[i])) ELSE f

closeSocket(e) ==
  LET f == CASE e.state = "IDLE" ->
                  CloseWebSocket([e EXCEPT !.active = {}, !.timer = FALSE, !.state = "CLOSED"], TRUE)
             [] e.state = "CLOSEWAIT" ->
                  CloseWebSocket([ForEachStream(Close, e) EXCEPT
                                    !.active = {}, !.timer = FALSE, !.state = "CLOSED"], TRUE)
             [] e.state = "AUTH" ->
                  CloseWebSocket([ForEachStream(Close, e) EXCEPT !.state = "CLOSING"], TRUE)
             [] OTHER -> e
  IN  IF e.side = "server" THEN [f EXCEPT !.timer = FALSE] ELSE f

\* The client says goaway only on an authenticated socket, the server always.
errorSocket(e) ==
  IF e.state \in {"CLOSING", "CLOSED"} \/ (e.state = "IDLE" /\ e.side = "client")
  THEN [e EXCEPT !.active = {}, !.timer = FALSE, !.state = "CLOSED"]
  ELSE LET f == [ForEachStream(OnStreamError, e) EXCEPT
                   !.active = {}, !.timer = FALSE, !.state = "CLOSED"]
       IN  CloseWebSocket(Put(f, Msg("goaway", 0, 0)), FALSE)

\* Mutant: the streams of a socket the peer closed are not told.
OnSocketClose_Forgets(e) ==
  CASE e.state \in {"IDLE", "AUTH"} -> [e EXCEPT !.state = "CLOSEWAIT"]
    [] e.state = "CLOSING" -> [e EXCEPT !.active = {}, !.timer = FALSE, !.state = "CLOSED"]
    [] OTHER -> e

\* onSocketClose; the onClose callback of the server's application closes the
\* socket in turn.
OnSocketClose(e) ==
  LET f == CASE e.state \in {"IDLE", "AUTH"} ->
                  [ForEachStream(OnStreamClose, e) EXCEPT !.state = "CLOSEWAIT"]
             [] e.state = "CLOSING" ->
                  [ForEachStream(OnStreamClose, e) EXCEPT
                     !.active = {}, !.timer = FALSE, !.state = "CLOSED"]
             [] OTHER -> e
  IN  IF e.side = "server" /\ f.state # e.state THEN closeSocket(f) ELSE f

\* A new stream in activeStreams.
Opened(e, i) ==
  [e EXCEPT !.stream[i] = "OPEN", !.active = @ \cup {i},
            !.late = IF e.over THEN @ \cup {i} ELSE @]

\* Mutant: identifiers are consecutive.
openStream_Consecutive(e) == [Opened(e, e.next) EXCEPT !.next = @ + 1]

\* The next identifier of this end's parity.
openStream(e) == [Opened(e, e.next) EXCEPT !.next = @ + 2]

-----------------------------------------------------------------------------
(* Messages from the websocket *)

\* Mutant: any unknown stream of the peer is taken for a new one.
Accepts_NoWatermark(e, i) == i \notin Own(e.side)

\* Mutant: a stream of the peer is not accepted.
Accepts_Never(e, i) == FALSE

\* Data for an unknown stream opens it if it is the peer's and above the watermark.
Accepts(e, i) == i \notin Own(e.side) /\ i > e.mark

\* The new stream, announced to the application (onStream).
Accept(e, i) == [Opened(e, i) EXCEPT !.mark = i, !.announced[i] = @ + 1]

\* Data for a stream of the client.
OnData(e, m) ==
  CASE m.stream \in e.active -> OnStreamData(e, m.stream, m.n, e.stream[m.stream])
    [] m.stream \notin e.active /\ e.state # "CLOSING" /\ Accepts(e, m.stream) ->
         OnStreamData(Accept(e, m.stream), m.stream, m.n, "OPEN")
    [] OTHER -> e

\* Mutant: a stream both ends have closed stays open.
OnClose_Ignored(e, m, read) == IF read = "OPEN" THEN OnStreamClose(e, m.stream, read) ELSE e

\* The peer closed its half of a stream; closed by both, it is forgotten.
OnClose(e, m, read) ==
  LET f == OnStreamClose(e, m.stream, read)
  IN  IF read \in {"CLOSING", "CLOSED"} THEN [f EXCEPT !.active = @ \ {m.stream}] ELSE f

\* The peer errored a stream; the server leaves it in activeStreams.
OnReset(e, m, read) ==
  LET f == OnStreamError(e, m.stream, read)
  IN  IF e.side = "client" THEN [f EXCEPT !.active = @ \ {m.stream}] ELSE f

\* onSocketMessage of the client, in one step.
OnSocketMessage(e, m) ==
  LET i == m.stream
  IN  CASE m.type = "goaway" -> OnSocketError(e)
        [] m.type = "reset" /\ i \in e.active -> OnReset(e, m, e.stream[i])
        [] m.type = "close" /\ i \in e.active -> OnClose(e, m, e.stream[i])
        [] m.type = "data"   -> OnData(e, m)
        [] OTHER             -> e

-----------------------------------------------------------------------------
(* Steps *)

\* The end s becomes e and what it sent is on the wire, unless the connection
\* is down or the peer's websocket is closed.
Become(s, e, rest) ==
  /\ end' = [end EXCEPT ![s] = [e EXCEPT !.out = <<>>, !.hangup = FALSE, !.io = FALSE,
                                        !.over = @ \/ e.state \in {"CLOSEWAIT", "CLOSED"}]]
  /\ wire' = [wire EXCEPT
                ![s] = IF e.hangup THEN <<Lost>> ELSE rest,
                ![Peer(s)] = IF link = "up" /\ end[Peer(s)].ws # "closed" THEN @ \o e.out ELSE @]

\* Before a call that sends: on the server it may raise when the connection is lost.
Calling(s, e) ==
  {[e EXCEPT !.io = raise] : raise \in IF s = "server" /\ link = "down" THEN BOOLEAN ELSE {FALSE}}

\* The application has the client's socket once connect resolved, and the
\* server's from the start.
HasSocket(s) == s = "client" => connected

\* Messages are ignored by a socket that has ended, by a client that is not
\* authenticated, and by a websocket that delivers nothing after close().
Ignores(e) ==
  \/ e.state \in {"CLOSEWAIT", "CLOSED"}
  \/ e.side = "client" /\ e.state = "IDLE"
  \/ e.side = "client" /\ e.ws = "closing" /\ ~DeliversWhileClosing

\* A message reaches onSocketMessage of the client.
ReceiveMessage ==
  LET e == end["client"]
      m == Head(wire["client"])
  IN  /\ wire["client"] # <<>> /\ m.type \notin {"wsclose", "lost"}
      /\ Become("client", IF Ignores(e) THEN e ELSE OnSocketMessage(e, m), Tail(wire["client"]))
      /\ UNCHANGED <<link, signing, connected, expired, reauths, cuts, handler, call>>

\* onSocketMessage of the server reads the state of the socket and looks the
\* stream up, and releases the lock after each.  A session found expired is
\* errored, and its message handled all the same.  The state of a stream it finds
\* is read in the same step: what others do to the stream in between is what they
\* may have done before.
LookUp ==
  LET m == Head(wire["server"]) IN
  /\ handler = NoHandler
  /\ wire["server"] # <<>> /\ m.type \notin {"wsclose", "lost"}
  /\ \E e \in Calling("server", end["server"]),
        verified \in (IF m.type = "auth" THEN BOOLEAN ELSE {TRUE}) :
       LET f     == IF e.state # "IDLE" /\ expired THEN errorSocket(e) ELSE e
           known == m.stream \in f.active
           to(g, h) == Become("server", g, Tail(wire["server"])) /\ handler' = h
       IN  CASE Ignores(e) -> to(e, NoHandler)
             [] m.type = "goaway" -> to(OnSocketError(f), NoHandler)
             [] m.type = "auth" /\ ~verified -> to(errorSocket(f), NoHandler)
             [] m.type = "auth" /\ verified ->
                  to(f, Handler(IF e.state = "IDLE" THEN "auth" ELSE "reauth", m, "none"))
             [] m.type # "auth" /\ e.state = "IDLE" -> to(OnSocketError(e), NoHandler)
             [] m.type \in {"reset", "close"} /\ ~known -> to(f, NoHandler)
             [] known -> to(f, Handler("read", m, f.stream[m.stream]))
             [] OTHER -> to(f, Handler("new", m, "none"))
  /\ UNCHANGED <<link, signing, connected, expired, reauths, cuts, call>>

\* A verified authentication is recorded under the write lock.  The state was IDLE
\* when it was read and becomes AUTH, whatever it is now; a later authentication
\* starts the session timer anew.
Authenticate ==
  /\ handler.pc \in {"auth", "reauth"}
  /\ end' = [end EXCEPT !["server"] = IF handler.pc = "auth" THEN [@ EXCEPT !.state = "AUTH"]
                                      ELSE [@ EXCEPT !.timer = TRUE]]
  /\ expired' = FALSE
  /\ handler' = NoHandler
  /\ UNCHANGED <<wire, link, signing, connected, reauths, cuts, call>>

\* Mutant: the message that opens a stream is not given to it.
AcceptStream_DropsFirst ==
  /\ handler.pc = "new"
  /\ handler' = NoHandler
  /\ end' = IF Accepts(end["server"], handler.m.stream)
            THEN [end EXCEPT !["server"] = Accept(@, handler.m.stream)] ELSE end
  /\ UNCHANGED <<wire, link, signing, connected, expired, reauths, cuts, call>>

\* Data for an unknown stream: under the write lock, without a second look at
\* the state of the socket.
AcceptStream ==
  /\ handler.pc = "new"
  /\ IF Accepts(end["server"], handler.m.stream)
     THEN /\ end' = [end EXCEPT !["server"] = Accept(@, handler.m.stream)]
          /\ handler' = [handler EXCEPT !.pc = "accepted"]
     ELSE handler' = NoHandler /\ UNCHANGED end
  /\ UNCHANGED <<wire, link, signing, connected, expired, reauths, cuts, call>>

\* onStreamData reads the state of the new stream ...
ReadStream ==
  /\ handler.pc = "accepted"
  /\ handler' = [handler EXCEPT !.pc = "read", !.read = end["server"].stream[handler.m.stream]]
  /\ UNCHANGED <<end, wire, link, signing, connected, expired, reauths, cuts, call>>

\* ... and, like onStreamClose and onStreamError, acts on what it read, with no
\* lock held.
ActOnStream ==
  LET e == end["server"]
      m == handler.m
  IN  /\ handler.pc = "read"
      /\ end' = [end EXCEPT !["server"] =
                   CASE m.type = "data"  -> OnStreamData(e, m.stream, m.n, handler.read)
                     [] m.type = "close" -> OnClose(e, m, handler.read)
                     [] m.type = "reset" -> OnReset(e, m, handler.read)]
      /\ handler' = NoHandler
      /\ UNCHANGED <<wire, link, signing, connected, expired, reauths, cuts, call>>

\* The peer's close of the websocket, answered by the library; the server takes
\* an unexpected code for an error.
ReceiveClose(s) ==
  LET m == Head(wire[s])
      e == [end[s] EXCEPT !.ws = "closed"]
      echo == IF s = "server" THEN <<WsClose(TRUE)>> ELSE <<>>
      f == IF s = "server" /\ m.n = 1 THEN OnSocketError(e) ELSE OnSocketClose(e)
  IN  /\ wire[s] # <<>> /\ m.type = "wsclose"
      /\ s = "server" => handler = NoHandler
      /\ Become(s, [f EXCEPT !.out = echo \o @], <<>>)
      /\ UNCHANGED <<link, signing, connected, expired, reauths, cuts, handler, call>>

\* The connection under the websocket is gone; the client may see an error first.
ConnectionLost(s) ==
  LET e == [end[s] EXCEPT !.ws = "closed"] IN
  /\ wire[s] # <<>> /\ Head(wire[s]).type = "lost"
  /\ \E f \in {OnSocketClose(e)} \cup (IF s = "client" THEN {OnSocketClose(OnSocketError(e))} ELSE {}) :
       Become(s, f, <<>>)
  /\ UNCHANGED <<link, signing, connected, expired, reauths, cuts, handler, call>>

\* The network fails; part of what was on the wire is lost with it.
Cut ==
  /\ link = "up" /\ cuts < MaxCut
  /\ link' = "down"
  /\ cuts' = cuts + 1
  /\ \E k \in [Side -> 0..(Len(wire["client"]) + Len(wire["server"]))] :
       /\ \A s \in Side : k[s] <= Len(wire[s])
       /\ wire' = [s \in Side |-> IF end[s].ws = "closed" THEN wire[s]
                                  ELSE Append(SubSeq(wire[s], 1, k[s]), Lost)]
  /\ UNCHANGED <<end, signing, connected, expired, reauths, handler, call>>

\* The application calls a method of the socket.
Call(s, Result(_)) ==
  /\ HasSocket(s)
  /\ \E e \in Calling(s, end[s]) : Become(s, Result(e), wire[s])
  /\ UNCHANGED <<link, signing, connected, expired, reauths, cuts, handler, call>>

OpenStream(s) ==
  /\ s = "server" => ServerOpens
  /\ end[s].state = "AUTH"
  /\ end[s].next \in Id
  /\ Call(s, openStream)

\* The application uses a stream that the client opened from the tasks that onData
\* and onClose start; the worker that closes an open stream is then the only one.
MayUse(s, i) ==
  s = "server" =>
    /\ i \in Own("client") => end[s].got[i] # <<>> \/ end[s].told[i]
    /\ call # [op |-> "close", i |-> i, read |-> "OPEN"]

\* With OrderedOpen, no earlier stream of this end waits for its first message.
MaySend(s, i) ==
  /\ end[s].stream[i] \in {"OPEN", "CLOSEWAIT"} /\ MayUse(s, i)
  /\ end[s].sent[i] < IF s = "client" THEN MaxData ELSE MaxReply
  /\ OrderedOpen /\ i \in Own(s) =>
       \A j \in Own(s) : j < i => end[s].stream[j] # "OPEN" \/ end[s].sent[j] > 0

MayClose(s, i) == end[s].stream[i] \in {"OPEN", "CLOSEWAIT"} /\ MayUse(s, i)
MayError(s, i) == end[s].stream[i] \in {"OPEN", "CLOSING", "CLOSEWAIT"} /\ MayUse(s, i)

\* The application calls a method of a stream, and no other thread comes between
\* what it reads and what it does.
SendData(s, i) == MaySend(s, i) /\ Call(s, LAMBDA e : Send(e, i, e.stream[i]))
CloseStream(s, i) == MayClose(s, i) /\ Call(s, LAMBDA e : Close(e, i, e.stream[i]))
ErrorStream(s, i) == MayError(s, i) /\ Call(s, LAMBDA e : Error(e, i, e.stream[i]))

\* A thread of the server's application reads the state of a stream ...
BeginCall(op, i) ==
  /\ call = NoCall
  /\ IF op = "close" THEN MayClose("server", i) ELSE MayError("server", i)
  /\ call' = [op |-> op, i |-> i, read |-> end["server"].stream[i]]
  /\ UNCHANGED <<end, wire, link, signing, connected, expired, reauths, cuts, handler>>

\* ... and acts on it, whatever the stream has become meanwhile.
FinishCall ==
  /\ call # NoCall
  /\ \E e \in Calling("server", end["server"]) :
       Become("server", IF call.op = "close" THEN Close(e, call.i, call.read)
                        ELSE Error(e, call.i, call.read), wire["server"])
  /\ call' = NoCall
  /\ UNCHANGED <<link, signing, connected, expired, reauths, cuts, handler>>

CloseSocket ==
  /\ ClientEnds
  /\ end["client"].state \in {"AUTH", "CLOSEWAIT"}
  /\ Call("client", closeSocket)

ErrorSocket ==
  /\ ClientEnds
  /\ end["client"].state # "CLOSED"
  /\ Call("client", errorSocket)

\* The server could not open the database the client asked for.
OpenFails ==
  /\ end["server"].state = "IDLE" /\ wire["server"] = <<>> /\ handler = NoHandler
  /\ Call("server", errorSocket)

\* sendAuth after the await, whatever the socket became meanwhile.
AuthSigned ==
  /\ signing
  /\ signing' = FALSE
  /\ connected' = TRUE
  /\ Become("client", [Put(end["client"], Msg("auth", 0, 0)) EXCEPT !.state = "AUTH", !.timer = TRUE],
            wire["client"])
  /\ UNCHANGED <<link, expired, reauths, cuts, handler, call>>

\* The reauthTimer fires: sendAuth up to the await.
ReauthDue ==
  /\ end["client"].timer /\ ~signing /\ reauths < MaxReauth
  /\ reauths' = reauths + 1
  /\ end' = [end EXCEPT !["client"].timer = FALSE]
  /\ signing' = (end["client"].state \in {"IDLE", "AUTH"})
  /\ UNCHANGED <<wire, link, connected, expired, cuts, handler, call>>

\* Ten minutes have passed since the server accepted an authentication, and
\* its timer is late.
SessionExpires ==
  /\ LateTimer /\ ~expired
  /\ end["server"].timer /\ end["server"].state \in {"AUTH", "CLOSING"}
  /\ expired' = TRUE
  /\ UNCHANGED <<end, wire, link, signing, connected, reauths, cuts, handler, call>>

\* The session timer of the server fires.  What it reads and what it does are one
\* step, here and in the other calls that end a socket: the second of two such
\* calls finds no stream to tell, except the ones opened since the first.
SessionTimeout ==
  /\ end["server"].timer
  /\ LateTimer => expired
  /\ \E e \in Calling("server", end["server"]) : Become("server", errorSocket(e), wire["server"])
  /\ UNCHANGED <<link, signing, connected, expired, reauths, cuts, handler, call>>

Next ==
  \/ \E s \in Side :
       \/ ReceiveClose(s)
       \/ ConnectionLost(s)
       \/ OpenStream(s)
       \/ \E i \in Id : SendData(s, i) \/ CloseStream(s, i) \/ ErrorStream(s, i)
  \/ ReceiveMessage
  \/ LookUp \/ Authenticate \/ AcceptStream \/ ReadStream \/ ActOnStream
  \/ \E op \in Calls, i \in Id : BeginCall(op, i)
  \/ FinishCall
  \/ Cut
  \/ CloseSocket
  \/ ErrorSocket
  \/ OpenFails
  \/ AuthSigned
  \/ ReauthDue
  \/ SessionExpires
  \/ SessionTimeout

Spec == Init /\ [][Next]_vars

\* What is on the wire arrives, a thread that began goes on, a signature is
\* computed, and the application of the server answers the close of a stream
\* with its own (Service.kt).
Fairness ==
  /\ \A s \in Side : WF_vars(ReceiveClose(s)) /\ WF_vars(ConnectionLost(s))
  /\ WF_vars(ReceiveMessage)
  /\ WF_vars(LookUp \/ Authenticate \/ AcceptStream \/ ReadStream \/ ActOnStream)
  /\ WF_vars(FinishCall)
  /\ WF_vars(AuthSigned)
  /\ \A i \in Id : WF_vars(end["server"].stream[i] = "CLOSEWAIT" /\ CloseStream("server", i))

FairSpec == Spec /\ Fairness

-----------------------------------------------------------------------------
(* Properties *)

TypeOK ==
  /\ \A s \in Side :
       LET e == end[s] IN
       /\ e.state \in SocketState
       /\ e.stream \in [Id -> StreamState]
       /\ e.active \subseteq Id
       /\ e.next % 2 = (IF s = "client" THEN 1 ELSE 0)
       /\ e.mark \in 0..MaxStream
       /\ e.ws \in {"open", "closing", "closed"}
       /\ e.timer \in BOOLEAN
       /\ e.out = <<>> /\ ~e.hangup /\ ~e.io
       /\ \A i \in Id : e.sent[i] \in 0..(IF s = "client" THEN MaxData ELSE MaxReply)
  /\ link \in {"up", "down"}
  /\ {signing, connected, expired} \subseteq BOOLEAN
  /\ handler.pc \in {"idle", "auth", "reauth", "new", "accepted", "read"} /\ handler.read \in StreamState
  /\ call.op \in {"none", "close", "error"} /\ call.read \in StreamState

\* The data callbacks of a stream get what the peer's application sent on it,
\* from the first message on, in order, without gap or repetition.
InOrderDelivery ==
  \A s \in Side, i \in Id :
    LET got == end[s].got[i] IN
    /\ Len(got) <= end[Peer(s)].sent[i]
    /\ \A k \in DOMAIN got : got[k] = k

\* A stream of the peer is announced at most once: late messages for a stream
\* that is gone never make a new one with its identifier.
AnnouncedOnce ==
  \A s \in Side, i \in Id : end[s].announced[i] <= 1

\* After onClose or onError of a stream, or after its user errored it, the
\* client calls onData no more, whatever was on its way then; the server at most
\* once, for the message whose handler had read the state of the stream before.
QuietAfterEnd ==
  \A s \in Side, i \in Id : end[s].after[i] <= IF s = "client" THEN 0 ELSE 1

\* Once a socket has ended, no stream of it is left open: each one was told of
\* the end, or had been closed by its user.  Only a stream opened afterwards may
\* stay: by a handler of the server that had read the state of the socket before,
\* or that went on after it found the session expired, or on a client that the
\* end of the await in sendAuth brought back to AUTH.
EndedSocketTellsStreams ==
  \A s \in Side, i \in Id :
    end[s].over /\ end[s].stream[i] = "OPEN" => i \in end[s].late

\* When both sockets are authenticated, nothing is on the wire and no thread of the
\* server is in the middle of a call, the two ends agree on every stream: what one
\* has open the other has open or never saw, and one waits for a close only from a
\* peer that may still send it.  A stream that the server's application closes
\* while the peer's close or reset is handled may be left waiting for a close that
\* it was told of already: both threads read OPEN, and CLOSING is written last.
StreamsAgree ==
  (\A s \in Side : end[s].state = "AUTH" /\ wire[s] = <<>>)
    /\ link = "up" /\ handler = NoHandler /\ call = NoCall =>
    \A s \in Side, i \in Id :
      LET mine == end[s].stream[i]
          theirs == end[Peer(s)].stream[i]
      IN  /\ mine = "OPEN" => theirs \in {"OPEN", "none"}
          /\ mine = "CLOSING" => \/ theirs \in {"CLOSEWAIT", "none"}
                                 \/ s = "server" /\ end[s].told[i]
          /\ mine = "CLOSEWAIT" => theirs \in {"CLOSING", "CLOSED"}

\* One of the sockets is not, or no longer, authenticated, whatever brought it back.
Ended == \E s \in Side : end[s].state # "AUTH" \/ end[s].over

\* A message the client sent reaches the data callback of the server, unless
\* the stream or the socket fails, or ends, at one of the two.
Delivered ==
  \A i \in Own("client") :
    end["client"].sent[i] > 0 ~>
      \/ end["server"].got[i] # <<>>
      \/ end["client"].stream[i] = "CLOSED"
      \/ Ended

\* A stream the client used and closed is closed at both ends in the end,
\* unless one of the sockets ends first.
CloseCompletes ==
  \A i \in Own("client") :
    end["client"].stream[i] = "CLOSING" /\ end["client"].sent[i] > 0 ~>
      \/ end["client"].stream[i] = "CLOSED"
      \/ Ended

=============================================================================
