---------------------------- MODULE MirrorConnection ----------------------------
(***************************************************************************)
(* Mirroring a table between an SKDB client and its server over sockets    *)
(* that fail: ResilientMuxedSocket, ResilientStream, ProtoMsgDecoder and   *)
(* SKDBServer.mirror of skdb_orchestration.ts, with what they rely on: the *)
(* request handlers of Service.kt and the watermarks of SqlCsv.sk.         *)
(*                                                                         *)
(* A mirror session has two resilient streams.  "push" carries the local   *)
(* writes 1, 2, ... to the server, which applies or rejects a payload and  *)
(* answers with its checkpoint, and with the rows of a rejected one;       *)
(* "pull" carries the server's rows 1, 2, ... in chunks, closed by a       *)
(* checkpoint.  A stream that fails is replaced, on another socket if need *)
(* be, and resumes from the watermark.                                     *)
(*                                                                         *)
(* The client is a record and its methods are operators on it; JavaScript  *)
(* runs a callback and the promise reactions it triggers to completion, so *)
(* each is one step.  MuxedSocket itself is MuxSocket: here it delivers in *)
(* order until it is closed, or until the network goes silent.             *)
(***************************************************************************)
EXTENDS Integers, Sequences, FiniteSets, FiniteSetsExt, SequencesExt

CONSTANTS
  MaxSocket,  \* bound on the sockets opened
  MaxMirror,  \* bound on the calls of mirror
  MaxWrite,   \* bound on the local writes
  MaxRow,     \* bound on the rows of the server
  MaxFault,   \* bound on lost connections, silent networks, resets, spurious timeouts
  CanClose,   \* may the application close the connection?
  CanRefuse,  \* may the server refuse the client for good?
  Rejectable, \* the local writes the server may reject
  Seeded      \* has the table been mirrored before?

ASSUME MirrorAssumption ==
  /\ {MaxSocket, MaxMirror, MaxWrite, MaxRow, MaxFault} \subseteq Nat
  /\ {CanClose, CanRefuse, Seeded} \subseteq BOOLEAN
  /\ Rejectable \subseteq 1..MaxWrite

VARIABLES
  client,   \* the client's objects
  mux,      \* the state of every socket opened
  up,       \* messages to the server, per socket
  down,     \* messages to the client, per socket
  handler,  \* the streams the server has a process for
  applied,  \* the local writes in the server's table
  rejected, \* the local writes the server has rejected
  seen,     \* the server's watermark for this client
  rows,     \* the rows the server has for the client
  faults    \* faults so far

vars == <<client, mux, up, down, handler, applied, rejected, seen, rows, faults>>

Socket == 1..MaxSocket
Stream == (1..MaxMirror) \X {"push", "pull"}

Msg(type, r, sid, data, n) == [type |-> type, r |-> r, sid |-> sid, data |-> data, n |-> n]

\* A ResilientStream: the socket its stream is on (0: `stream` is undefined),
\* which of its streams that is, where replaceFailedStream is, the socket that
\* it pinged, whether the failureDetectionTimeout is set, and the decoder's bufs.
NewStream ==
  [at |-> 0, sid |-> 0, pc |-> "idle", pinged |-> 0, timer |-> FALSE, bufs |-> {}]

Init ==
  /\ client = [socket |-> 1, reconnecting |-> FALSE, permanentFailure |-> FALSE,
               closing |-> FALSE,    \* closeSocket awaits a socket
               closed |-> 0,         \* the socket closeSocket closed
               rs |-> [r \in Stream |-> NewStream],
               mirrors |-> 0, mirror |-> "idle", asked |-> 0,
               session |-> 0,        \* localTailSession
               written |-> 0,        \* local writes
               unsent |-> {},        \* writes no session was there to push
               acked |-> 0,          \* watermark of the feedback table
               seeded |-> Seeded,    \* does that watermark exist?
               feedback |-> {},      \* rows of the feedback table: rejected writes
               have |-> {},          \* rows of the server in the local table
               mark |-> 0,           \* watermark of the table
               out |-> <<>>]
  /\ mux = [g \in Socket |-> IF g = 1 THEN "up" ELSE "none"]
  /\ up = [g \in Socket |-> <<>>]
  /\ down = [g \in Socket |-> <<>>]
  /\ handler = {}
  /\ applied = {}
  /\ rejected = {}
  /\ seen = 0
  /\ rows = 0
  /\ faults = 0

-----------------------------------------------------------------------------
(* ResilientStream *)

\* Data for a stream that is being replaced, or was closed with its socket, is
\* dropped.
send(c, r, type, data, n) ==
  IF c.rs[r].at \in {0, c.closed} THEN c
  ELSE [c EXCEPT !.out = Append(@, [g |-> c.rs[r].at, m |-> Msg(type, r, c.rs[r].sid, data, n)])]

\* Mutant: no answer is waited for.
expectingData_Never(c, r) == c

\* Arm the failureDetectionTimeout.
expectingData(c, r) ==
  IF c.rs[r].at = 0 THEN c ELSE [c EXCEPT !.rs[r].timer = TRUE]

close(c, r) ==
  [send(c, r, "close", {}, 0) EXCEPT !.rs[r].at = 0, !.rs[r].timer = FALSE]

\* Mutant: only the request is sent again.
onReconnect_NoDiff(c, r) ==
  IF r[2] = "pull" THEN expectingData(send(c, r, "tail", {}, c.mark), r)
  ELSE send(c, r, "push", {}, 0)

\* onReconnect of the two tails: ask again, from the watermark on.  The diff of
\* a session that was unsubscribed raises.
onReconnect(c, r) ==
  LET diff == (c.acked + 1)..c.written
      f    == send(c, r, "push", {}, 0)
  IN  CASE r[2] = "pull" -> expectingData(send(c, r, "tail", {}, c.mark), r)
        [] r[2] = "push" /\ (r[1] # c.session \/ diff = {}) -> f
        [] OTHER -> expectingData(send(f, r, "data", diff, c.written), r)

\* A stream on the current socket for r.
attachStream(c, r) ==
  [c EXCEPT !.rs[r].at = c.socket, !.rs[r].sid = @ + 1, !.rs[r].pc = "idle"]

\* getSocket in replaceFailedStream: raises, gets the socket and opens a stream
\* on it, or waits in socketQueue.
getSocket(c, r) ==
  CASE c.permanentFailure -> [c EXCEPT !.rs[r].pc = "rejected"]
    [] ~ c.permanentFailure /\ c.socket # 0 -> onReconnect(attachStream(c, r), r)
    [] OTHER -> [c EXCEPT !.rs[r].pc = "queued"]

\* Mutant: the timer of the failed stream is left running.
replaceFailedStream_KeepsTimer(c, r) ==
  IF c.rs[r].at = 0 THEN c
  ELSE LET f == [send(c, r, "reset", {}, 0) EXCEPT !.rs[r].at = 0]
       IN  IF c.socket = 0 THEN getSocket(f, r)
           ELSE [f EXCEPT !.rs[r].pc = "ping", !.rs[r].pinged = c.socket]

\* replaceFailedStream up to its first await: the stream is given up and the
\* socket, if there is one, pinged.
replaceFailedStream(c, r) ==
  IF c.rs[r].at = 0 THEN c
  ELSE LET f == [send(c, r, "reset", {}, 0) EXCEPT !.rs[r].at = 0, !.rs[r].timer = FALSE]
       IN  IF c.socket = 0 THEN getSocket(f, r)
           ELSE [f EXCEPT !.rs[r].pc = "ping", !.rs[r].pinged = c.socket]

-----------------------------------------------------------------------------
(* ResilientMuxedSocket *)

On(c, g) == {r \in Stream : c.rs[r].at = g}

\* Something happens to every stream in a set, and to the requests of mirror.
ForStreams(Op(_, _), c, R) == FoldLeft(Op, c, SetToSeq(R))

FailRequest(c, g) ==
  IF c.mirror = "setup" /\ c.asked = g THEN [c EXCEPT !.mirror = "failed"] ELSE c

\* Mutant: the streams of the socket are not told.
replaceFailedSocket_KeepsStreams(c) ==
  IF c.permanentFailure \/ c.socket = 0 THEN c
  ELSE [FailRequest(c, c.socket) EXCEPT !.socket = 0, !.reconnecting = TRUE]

\* Give up the socket, error its streams, and start to reconnect.
replaceFailedSocket(c) ==
  IF c.permanentFailure \/ c.socket = 0 THEN c
  ELSE ForStreams(replaceFailedStream,
                  [FailRequest(c, c.socket) EXCEPT !.socket = 0, !.reconnecting = TRUE],
                  On(c, c.socket))

\* Mutant: the closed socket stays the current one.
closeSocket_KeepsSocket(c) ==
  IF c.permanentFailure THEN c
  ELSE IF c.socket = 0 THEN [c EXCEPT !.closing = TRUE]
  ELSE [FailRequest(ForStreams(LAMBDA d, r : send(d, r, "close", {}, 0), c, On(c, c.socket)), c.socket)
          EXCEPT !.closed = c.socket, !.closing = FALSE]

\* closeSocket waits for a socket and closes it, and its streams with it.
closeSocket(c) ==
  CASE c.permanentFailure -> c
    [] ~ c.permanentFailure /\ c.socket = 0 -> [c EXCEPT !.closing = TRUE]
    [] OTHER ->
         [FailRequest(ForStreams(LAMBDA d, r : send(d, r, "close", {}, 0), c, On(c, c.socket)), c.socket)
            EXCEPT !.socket = 0, !.closed = c.socket, !.closing = FALSE]

\* Mutant: only the streams that wait for a socket get it.
attachSocket_OnlyStreams(c, g) ==
  ForStreams(getSocket,
             [c EXCEPT !.socket = g, !.reconnecting = FALSE,
                       !.asked = IF c.mirror = "setup" /\ c.asked = 0 THEN g ELSE @],
             {r \in Stream : c.rs[r].pc = "queued"})

\* A new socket: everybody who waits for one gets it.  When closeSocket does, the
\* streams that wait with it find a closing socket, and wait again.
attachSocket(c, g) ==
  LET f == [c EXCEPT !.socket = g, !.reconnecting = FALSE,
                     !.asked = IF c.mirror = "setup" /\ c.asked = 0 THEN g ELSE @]
  IN  IF c.closing THEN closeSocket(f)
      ELSE ForStreams(getSocket, f, {r \in Stream : c.rs[r].pc = "queued"})

-----------------------------------------------------------------------------
(* SKDBServer *)

\* Tear down the current session, then ask the server for the schemas.
startMirror(c) ==
  LET torn == [ForStreams(close, c, {r \in Stream : r[1] = c.mirrors}) EXCEPT
                 !.session = 0,
                 !.unsent = @ \cup ((c.acked + 1)..c.written)]
  IN  [torn EXCEPT !.mirrors = @ + 1,
                   !.mirror = IF c.permanentFailure THEN "failed" ELSE "setup",
                   !.asked = c.socket]

\* The stream for local writes, and the session that tails them.
establishLocalTail(c, r) ==
  [send(attachStream(c, r), r, "push", {}, 0) EXCEPT !.session = c.mirrors]

\* The stream for rows of the server, from the watermark on.
establishServerTail(c, r) ==
  expectingData(send(attachStream(c, r), r, "tail", {}, c.mark), r)

establishTails(c) ==
  [establishServerTail(establishLocalTail(c, <<c.mirrors, "push">>), <<c.mirrors, "pull">>)
     EXCEPT !.mirror = "tailing"]

\* The callback of watchFile gets a local write when there is a session.
localWrite(c) ==
  LET w == c.written + 1
      r == <<c.session, "push">>
      f == [c EXCEPT !.written = w]
  IN  IF c.session = 0 THEN [f EXCEPT !.unsent = @ \cup {w}]
      ELSE expectingData(send(f, r, "data", {w}, w), r)

\* writeCsv of a payload closed by checkpoint n.  A checkpoint the table has
\* seen is skipped.  The first payload also seeds the feedback watermark.
writeRows(c, data, n) ==
  [c EXCEPT !.have = IF n > c.mark THEN @ \cup data ELSE @,
            !.mark = Max({@, n}),
            !.acked = IF c.seeded THEN @ ELSE c.written,
            !.seeded = TRUE]

\* writeCsv of an answer to checkpoint n, and the rows it rejects, to the feedback
\* table.
writeFeedback(c, data, n) ==
  [c EXCEPT !.feedback = IF n > c.acked THEN @ \cup data ELSE @,
            !.acked = Max({@, n}),
            !.seeded = TRUE]

\* Mutant: every chunk is handed on.
push_NoFin(c, r, m) == writeRows(c, m.data, m.n)

\* The decoder: a chunk of rows waits for the last one.
push(c, r, m) ==
  LET b == c.rs[r].bufs \cup m.data
  IN  IF m.type = "chunk" THEN [c EXCEPT !.rs[r].bufs = b]
      ELSE writeRows([c EXCEPT !.rs[r].bufs = {}], b, m.n)

\* Mutant: only the checkpoint of an answer is taken.
onData_DropsRejection(c, r, m) ==
  LET f == [c EXCEPT !.rs[r].timer = FALSE]
  IN  IF m.type = "ack" THEN writeFeedback(f, {}, m.n) ELSE expectingData(push(f, r, m), r)

\* The data callbacks of the two tails.
onData(c, r, m) ==
  LET f == [c EXCEPT !.rs[r].timer = FALSE]
  IN  IF m.type = "ack" THEN writeFeedback(f, m.data, m.n) ELSE expectingData(push(f, r, m), r)

-----------------------------------------------------------------------------
(* Steps of the client *)

To(c, g) == LET mine == SelectSeq(c.out, LAMBDA o : o.g = g)
            IN  [k \in DOMAIN mine |-> mine[k].m]

\* The client becomes c.  A socket it gave up is closed, the socket `opened` is
\* up, and what it sent is on its way, except over the sockets in `lost`.
Become(next, opened, lost) == \E c \in {next} :
  /\ client' = [c EXCEPT !.out = <<>>]
  /\ mux' = [g \in Socket |->
               CASE g = opened -> "up"
                 [] g # opened /\ (g \in lost \/ (mux[g] # "none" /\ g \notin {c.socket, c.closed})) -> "closed"
                 [] OTHER -> mux[g]]
  /\ up' = [g \in Socket |->
              IF g \notin lost /\ (mux[g] = "up" \/ g = opened) THEN up[g] \o To(c, g) ELSE up[g]]

Server == <<handler, applied, rejected, seen, rows>>

Mirror ==
  /\ client.mirrors < MaxMirror /\ client.mirror \in {"idle", "tailing", "failed"}
  /\ client.closed = 0 /\ ~ client.closing
  /\ Become(startMirror(client), 0, {})
  /\ UNCHANGED <<down, faults, Server>>

\* The answers to the requests of mirror are there, or are an error.
SetupDone ==
  /\ client.mirror = "setup" /\ client.asked \in Socket
  /\ client.asked = client.socket /\ mux[client.socket] = "up"
  /\ \/ Become(establishTails(client), 0, {})
     \/ Become([client EXCEPT !.mirror = "failed"], 0, {})
  /\ UNCHANGED <<down, faults, Server>>

LocalWrite ==
  /\ client.written < MaxWrite
  /\ Become(localWrite(client), 0, {})
  /\ UNCHANGED <<down, faults, Server>>

\* A message reaches the client; it is for nobody when its stream was replaced.
ClientReceive(g) ==
  LET m == Head(down[g])
      mine == client.rs[m.r].at = g /\ client.rs[m.r].sid = m.sid
  IN  /\ down[g] # <<>> /\ mux[g] # "closed"
      /\ down' = [down EXCEPT ![g] = Tail(@)]
      /\ Become(CASE ~ mine                      -> client
                  [] mine /\ m.type = "reset"    -> replaceFailedStream(client, m.r)
                  [] OTHER                       -> onData(client, m.r, m), 0, {})
      /\ UNCHANGED <<faults, Server>>

\* The socket closes under the client: its streams are told first, then
\* onClose or onError replaces the socket.
SocketCloses(g, c) ==
  /\ mux[g] \in {"up", "silent"}
  /\ Become(c, 0, {g})
  /\ down' = [down EXCEPT ![g] = <<>>]

Told(g) == ForStreams(replaceFailedStream, FailRequest(client, g), On(client, g))

ConnectionLost(g) ==
  /\ g = client.socket /\ (mux[g] = "silent" \/ faults < MaxFault)
  /\ SocketCloses(g, replaceFailedSocket(Told(g)))
  /\ faults' = IF mux[g] = "silent" THEN faults ELSE faults + 1
  /\ UNCHANGED Server

\* The socket that closeSocket closed is closed.
SocketClosed ==
  /\ client.closed # 0
  /\ SocketCloses(client.closed, Told(client.closed))
  /\ UNCHANGED <<faults, Server>>

\* A goaway that is not retryable.
Refused ==
  /\ CanRefuse /\ client.socket # 0
  /\ SocketCloses(client.socket,
                  [Told(client.socket) EXCEPT !.permanentFailure = TRUE, !.socket = 0])
  /\ UNCHANGED <<faults, Server>>

\* The network goes silent; part of what is on its way is lost.
Silence(g) ==
  /\ mux[g] = "up" /\ faults < MaxFault
  /\ faults' = faults + 1
  /\ mux' = [mux EXCEPT ![g] = "silent"]
  /\ \E k \in 0..Len(up[g]) : up' = [up EXCEPT ![g] = SubSeq(@, 1, k)]
  /\ \E k \in 0..Len(down[g]) : down' = [down EXCEPT ![g] = SubSeq(@, 1, k)]
  /\ UNCHANGED <<client, Server>>

\* The failureDetectionTimeout: 60 s without data.
FailureDetected(r) ==
  /\ client.rs[r].timer
  /\ mux[client.rs[r].at] # "up" \/ faults < MaxFault
  /\ faults' = IF mux[client.rs[r].at] # "up" THEN faults ELSE faults + 1
  /\ Become(replaceFailedStream(client, r), 0, {})
  /\ UNCHANGED <<down, Server>>

\* The ping is answered, or not for 10 s: then the current socket is replaced.
PingReturns(r) ==
  LET s == client.rs[r] IN
  /\ s.pc = "ping"
  /\ Become(IF mux[s.pinged] = "up" THEN getSocket(client, r)
            ELSE getSocket(replaceFailedSocket(client), r), 0, {})
  /\ UNCHANGED <<down, faults, Server>>

\* MuxedSocket.connect succeeds; when it fails it is tried again.
Reconnect ==
  LET g == Cardinality({h \in Socket : mux[h] # "none"}) + 1 IN
  /\ client.reconnecting /\ g \in Socket
  /\ Become(attachSocket(client, g), g, {})
  /\ UNCHANGED <<down, faults, Server>>

CloseSocket ==
  /\ CanClose /\ client.closed = 0 /\ ~ client.closing
  /\ Become(closeSocket(client), 0, {})
  /\ UNCHANGED <<down, faults, Server>>

-----------------------------------------------------------------------------
(* Steps of the server *)

Reply(g, s) == down' = IF mux[g] = "up" THEN [down EXCEPT ![g] = @ \o s] ELSE down

\* The answer of write-csv: the checkpoint, and the rows of a rejected payload.
Answer(g, m, data) == Reply(g, <<Msg("ack", m.r, m.sid, data, m.n)>>)

\* Mutant: the payload after the last one seen is skipped as well.
apply_OffByOne(g, m) ==
  /\ applied' = IF m.n > seen + 1 THEN applied \cup m.data ELSE applied
  /\ seen' = Max({seen, m.n})
  /\ UNCHANGED rejected
  /\ Answer(g, m, {})

\* write-csv applies a payload unless its checkpoint was seen.
apply(g, m) ==
  /\ applied' = IF m.n > seen THEN applied \cup m.data ELSE applied
  /\ seen' = Max({seen, m.n})
  /\ UNCHANGED rejected
  /\ Answer(g, m, {})

\* A write of the payload breaks an access rule or a constraint: the whole of it is
\* sent back, and neither the table nor its watermark changes.
reject(g, m) ==
  /\ m.n > seen /\ m.data \cap Rejectable # {}
  /\ rejected' = rejected \cup m.data
  /\ UNCHANGED <<applied, seen>>
  /\ Answer(g, m, m.data)

\* The handler of a stream gets its next message.  A reset ends the process at
\* once, so data before it may not be read any more.  Data for a stream that is
\* gone is ignored.
ServerReceive(g) ==
  LET m == Head(up[g])
      h == {x \in handler : x.g = g /\ x.r = m.r /\ x.sid = m.sid}
      reset == \E k \in DOMAIN up[g] : up[g][k] = [m EXCEPT !.type = "reset", !.data = {}, !.n = 0]
  IN  /\ up[g] # <<>>
      /\ up' = [up EXCEPT ![g] = Tail(@)]
      /\ \/ /\ m.type \in {"push", "tail"}
            /\ handler' = handler \cup {[g |-> g, r |-> m.r, sid |-> m.sid, pos |-> m.n]}
            /\ UNCHANGED <<applied, rejected, seen, down>>
         \/ /\ m.type \in {"close", "reset"}
            /\ handler' = handler \ h
            /\ UNCHANGED <<applied, rejected, seen, down>>
         \/ /\ m.type = "data"
            /\ \/ h = {} /\ UNCHANGED <<applied, rejected, seen, down>>
               \/ h # {} /\ (apply(g, m) \/ reject(g, m))
            /\ UNCHANGED handler
         \/ /\ m.type = "data" /\ reset
            /\ handler' = handler \ h
            /\ UNCHANGED <<applied, rejected, seen, down>>
      /\ UNCHANGED <<client, mux, rows, faults>>

\* The tail process sends the rows after its position, then a checkpoint.
ServerTail(h) ==
  /\ h.r[2] = "pull" /\ h.pos < rows
  /\ handler' = (handler \ {h}) \cup {[h EXCEPT !.pos = rows]}
  /\ Reply(h.g, [k \in 1..(rows - h.pos + 1) |->
                   IF k <= rows - h.pos THEN Msg("chunk", h.r, h.sid, {h.pos + k}, 0)
                   ELSE Msg("last", h.r, h.sid, {}, rows)])
  /\ UNCHANGED <<client, mux, up, applied, rejected, seen, rows, faults>>

\* The process of a stream ends: "Unexpected EOF".
ServerReset(h) ==
  /\ faults < MaxFault
  /\ faults' = faults + 1
  /\ handler' = handler \ {h}
  /\ Reply(h.g, <<Msg("reset", h.r, h.sid, {}, 0)>>)
  /\ UNCHANGED <<client, mux, up, applied, rejected, seen, rows>>

\* A closed socket closes the handlers of its streams.
ServerForgets(g) ==
  LET h == {x \in handler : x.g = g} IN
  /\ mux[g] = "closed" /\ up[g] = <<>> /\ h # {}
  /\ handler' = handler \ h
  /\ UNCHANGED <<client, mux, up, down, applied, rejected, seen, rows, faults>>

RemoteWrite ==
  /\ rows < MaxRow
  /\ rows' = rows + 1
  /\ UNCHANGED <<client, mux, up, down, handler, applied, rejected, seen, faults>>

Next ==
  \/ Mirror
  \/ SetupDone
  \/ LocalWrite
  \/ RemoteWrite
  \/ SocketClosed
  \/ Refused
  \/ Reconnect
  \/ CloseSocket
  \/ \E g \in Socket : ClientReceive(g) \/ ConnectionLost(g) \/ Silence(g)
                       \/ ServerReceive(g) \/ ServerForgets(g)
  \/ \E r \in Stream : FailureDetected(r) \/ PingReturns(r)
  \/ \E h \in handler : ServerTail(h) \/ ServerReset(h)

Spec == Init /\ [][Next]_vars

\* Messages are delivered, pings return, timers fire over a silent network,
\* connecting succeeds in the end, and the tail processes run.  Each conjunct is
\* weak fairness with ENABLED written as the guard of the action.
Fairness ==
  /\ <>[](client.reconnecting /\ mux[MaxSocket] = "none") => []<><<Reconnect>>_vars
  /\ \A g \in Socket :
       /\ <>[](down[g] # <<>> /\ mux[g] # "closed") => []<><<ClientReceive(g)>>_vars
       /\ <>[](up[g] # <<>>) => []<><<ServerReceive(g)>>_vars
  /\ \A r \in Stream :
       /\ <>[](client.rs[r].pc = "ping") => []<><<PingReturns(r)>>_vars
       /\ <>[](client.rs[r].timer /\ mux[client.rs[r].at] # "up") =>
            []<><<FailureDetected(r)>>_vars
  /\ <>[](\E h \in handler : h.r[2] = "pull" /\ h.pos < rows) =>
       []<><<\E h \in handler : ServerTail(h)>>_vars

FairSpec == Spec /\ Fairness

-----------------------------------------------------------------------------
(* Properties *)

TypeOK ==
  /\ client.socket \in 0..MaxSocket /\ client.closed \in 0..MaxSocket
  /\ \A r \in Stream :
       /\ client.rs[r].at \in 0..MaxSocket
       /\ client.rs[r].pc \in {"idle", "ping", "queued", "rejected"}
       /\ client.rs[r].timer => client.rs[r].at # 0
       /\ client.rs[r].pc # "idle" => client.rs[r].at = 0
  /\ client.mirror \in {"idle", "setup", "tailing", "failed"}
  /\ mux \in [Socket -> {"none", "up", "silent", "closed"}]
  /\ client.out = <<>>
  /\ applied \cup rejected \cup client.feedback \subseteq 1..MaxWrite
  /\ seen \in 0..MaxWrite /\ rows \in 0..MaxRow

\* Streams live on the current socket: whatever fails, times out and reconnects
\* in whatever order, no stream is attached to a socket that was given up.
AttachedToCurrent ==
  \A r \in Stream : client.rs[r].at \in {0, client.socket, client.closed}

\* A local write the feedback watermark covers, and that a session was there to
\* push, is in the server's table, or the server has rejected it: the diff sent
\* after a reconnection never skips a write that was lost with the old stream.
AckedIsApplied ==
  1..client.acked \subseteq applied \cup rejected \cup client.unsent

\* "The server responds with acks and any rejections": as long as no stream was
\* replaced, a rejected write that the watermark covers is in the feedback table,
\* where the application may find it, whichever answers came in between.
RejectionReported ==
  (\A r \in Stream : client.rs[r].sid <= 1) =>
    rejected \cap (1..client.acked) \subseteq client.feedback

\* The local table has every row of the server up to its watermark, although
\* payloads come in chunks and streams are cut between them.
MarkIsComplete == 1..client.mark \subseteq client.have

\* After closeSocket the client does not connect again, whatever timers, pings
\* and reconnections were under way.
StaysClosed == client.closed # 0 => client.socket = 0 /\ ~ client.reconnecting

\* closeSocket called while the client reconnects closes the connection in the
\* end, unless the server refused the client for good.
Closes == client.closing ~> client.closed # 0 \/ client.permanentFailure

\* A write made in a mirror session reaches the server in the end, whatever
\* fails, and is applied or rejected, unless the connection is closed or refused.
Pushed ==
  \A w \in 1..MaxWrite :
    client.written >= w /\ w \notin client.unsent ~>
      \/ w \in applied \cup rejected \cup client.unsent
      \/ client.closed # 0 \/ client.closing \/ client.permanentFailure

\* A row of the server reaches a client that mirrors the table.
Pulled ==
  \A n \in 1..MaxRow :
    client.mirror = "tailing" /\ rows >= n ~>
      \/ n \in client.have
      \/ client.mirror # "tailing"
      \/ client.closed # 0 \/ client.closing \/ client.permanentFailure

\* "mirror has replace semantics": the streams of an earlier session stay closed.
ReplacedStaysClosed == \A r \in Stream : r[1] < client.mirrors => client.rs[r].at = 0

=============================================================================
