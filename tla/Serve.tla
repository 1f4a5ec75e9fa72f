-------------------------------- MODULE Serve -------------------------------
(***************************************************************************)
(* The preview server (serve.cpp): a loop that accepts connections, and a  *)
(* detached thread for each of them.                                       *)
(*                                                                         *)
(* Clients connect when they like, send what they like in pieces, and hang *)
(* up when they like; one that stays reads what it gets.  Nothing forces a *)
(* client to go on: a thread may wait for it for ever.                     *)
(*                                                                         *)
(* A thread that writes to a client that has hung up gets an error or, on  *)
(* POSIX, a SIGPIPE, which nobody handles and which ends the process       *)
(* (SendKills).  A thread that cannot be started ends it as well.          *)
(*                                                                         *)
(* Requests are texts as in Url, and "crlf" is a character.  Nothing is    *)
(* looked at after the process has ended.                                  *)
(***************************************************************************)
EXTENDS PathMap

CONSTANTS
  Clients,
  Requests,     \* records: the pieces of a text, and the answer that is due to it
  Limit,        \* how long a request may grow
  Files, Dirs,  \* the paths in the directory that is served
  MaxThreads,   \* how many threads the system certainly grants
  SendKills

ASSUME ServeAssumption ==
  SendKills \in BOOLEAN /\ Limit \in Nat /\ MaxThreads \in Nat /\ <<>> \in Dirs

VARIABLES
  server,       \* "up" or "gone"
  client,       \* "new", "waiting" to be accepted, "open" or "closed"
  request,      \* what each client asks for
  unsent,       \* the pieces of it that it has not sent
  buffered,     \* what it has sent and nobody has read
  thread,       \* the threads: "none", "recv", "parse", "head", "body", "close", "done"
  open,         \* the connections that the server has not closed
  got,          \* the request, as far as it was read
  reply,        \* the answer: a status, and whether it has a body
  delivered     \* what was sent of it

vars == <<server, client, request, unsent, buffered, thread, open, got, reply, delivered>>

NoReply == [status |-> 0, body |-> FALSE]

Init ==
  /\ server = "up"
  /\ client = [c \in Clients |-> "new"]
  /\ request \in [Clients -> Requests]
  /\ unsent = [c \in Clients |-> request[c].pieces]
  /\ buffered = [c \in Clients |-> <<>>]
  /\ thread = [c \in Clients |-> "none"]
  /\ open = {}
  /\ got = [c \in Clients |-> <<>>]
  /\ reply = [c \in Clients |-> NoReply]
  /\ delivered = [c \in Clients |-> <<>>]

-----------------------------------------------------------------------------
(* Clients.                                                                *)

Connect(c) ==
  /\ server = "up" /\ client[c] = "new"
  /\ client' = [client EXCEPT ![c] = "waiting"]
  /\ UNCHANGED <<server, request, unsent, buffered, thread, open, got, reply, delivered>>

Send(c) ==
  /\ server = "up" /\ client[c] \in {"waiting", "open"} /\ unsent[c] # <<>>
  /\ unsent' = [unsent EXCEPT ![c] = Tail(@)]
  /\ buffered' = [buffered EXCEPT ![c] = @ \o unsent[c][1]]
  /\ UNCHANGED <<server, client, request, thread, open, got, reply, delivered>>

HangUp(c) ==
  /\ server = "up" /\ client[c] = "open"
  /\ client' = [client EXCEPT ![c] = "closed"]
  /\ UNCHANGED <<server, request, unsent, buffered, thread, open, got, reply, delivered>>

-----------------------------------------------------------------------------
(* The server.                                                             *)

\* Mutant of Accept: a client is served before the next is accepted.
AcceptInLine(c) ==
  /\ server = "up" /\ client[c] = "waiting" /\ open = {}
  /\ client' = [client EXCEPT ![c] = "open"]
  /\ thread' = [thread EXCEPT ![c] = "recv"]
  /\ open' = open \cup {c}
  /\ UNCHANGED <<server, request, unsent, buffered, got, reply, delivered>>

\* The loop of cmd_serve(): accept(), and a thread for the client.
Accept(c) ==
  /\ server = "up" /\ client[c] = "waiting"
  /\ client' = [client EXCEPT ![c] = "open"]
  /\ thread' = [thread EXCEPT ![c] = "recv"]
  /\ open' = open \cup {c}
  /\ UNCHANGED <<server, request, unsent, buffered, got, reply, delivered>>

\* std::thread throws when there are too many; main() reports it and the process ends.
StartFails(c) ==
  /\ server = "up" /\ client[c] = "waiting" /\ Cardinality(open) >= MaxThreads
  /\ server' = "gone"
  /\ UNCHANGED <<client, request, unsent, buffered, thread, open, got, reply, delivered>>

-----------------------------------------------------------------------------
(* handle_client().                                                        *)

Complete(text) ==
  \/ \E i \in 1 .. Len(text) - 1 : text[i] = "crlf" /\ text[i + 1] = "crlf"
  \/ Len(text) >= Limit

\* recv(), until the end of the headers, of the connection, or of patience.
Recv(c) ==
  /\ server = "up" /\ thread[c] = "recv"
  /\ buffered[c] # <<>> \/ client[c] = "closed"
  /\ got' = [got EXCEPT ![c] = @ \o buffered[c]]
  /\ buffered' = [buffered EXCEPT ![c] = <<>>]
  /\ thread' = IF Complete(got'[c]) \/ buffered[c] = <<>>
               THEN [thread EXCEPT ![c] = "parse"] ELSE thread
  /\ UNCHANGED <<server, client, request, unsent, open, reply, delivered>>

\* Which file a path stands for: a directory is its index.
FileOf(path) == IF path \in Dirs THEN Append(path, <<"index", ".", "html">>) ELSE path

\* What is answered to a request of which this was read.
Answered(text) ==
  LET words == Split(Head1(text, "crlf"), " ")
      path == ServedPath(words[2])
      get == words[1] = <<"GET">>
      is(status, body) == [status |-> status, body |-> body]
  IN IF Len(words) < 2 THEN is(400, TRUE)
     ELSE IF ~get /\ words[1] # <<"HEAD">> THEN is(405, TRUE)
     ELSE IF path = None THEN is(403, TRUE)
     ELSE IF FileOf(path) \notin Files THEN is(404, TRUE)
     ELSE is(200, get)

\* The same as a function of every text that may have been read.
Texts == UNION {{FlattenSeq(SubSeq(r.pieces, 1, n)) : n \in 1 .. Len(r.pieces)} : r \in Requests}
Answer == [text \in Texts |-> Answered(text)]

\* Mutant of Parse: a connection without a request is not closed.
ParseLeaks(c) ==
  /\ server = "up" /\ thread[c] = "parse"
  /\ IF got[c] = <<>>
     THEN thread' = [thread EXCEPT ![c] = "done"] /\ UNCHANGED reply
     ELSE /\ reply' = [reply EXCEPT ![c] = Answer[got[c]]]
          /\ thread' = [thread EXCEPT ![c] = "head"]
  /\ UNCHANGED <<server, client, request, unsent, buffered, open, got, delivered>>

\* Mutant of Parse: what has been read is answered, HEAD and GET alike.
ParseBody(c) ==
  /\ server = "up" /\ thread[c] = "parse"
  /\ IF got[c] = <<>>
     THEN thread' = [thread EXCEPT ![c] = "close"] /\ UNCHANGED reply
     ELSE /\ reply' = [reply EXCEPT ![c] = [Answer[got[c]] EXCEPT !.body = TRUE]]
          /\ thread' = [thread EXCEPT ![c] = "head"]
  /\ UNCHANGED <<server, client, request, unsent, buffered, open, got, delivered>>

\* What is to be answered; nothing if nothing came.
Parse(c) ==
  /\ server = "up" /\ thread[c] = "parse"
  /\ IF got[c] = <<>>
     THEN thread' = [thread EXCEPT ![c] = "close"] /\ UNCHANGED reply
     ELSE /\ reply' = [reply EXCEPT ![c] = Answer[got[c]]]
          /\ thread' = [thread EXCEPT ![c] = "head"]
  /\ UNCHANGED <<server, client, request, unsent, buffered, open, got, delivered>>

\* send_response(): the head, and the body if there is to be one.
SendPart(c, part, next) ==
  /\ server = "up" /\ thread[c] = part
  /\ thread' = [thread EXCEPT ![c] = next]
  /\ delivered' = [delivered EXCEPT ![c] = Append(@, part)]
  /\ UNCHANGED <<server, client, request, unsent, buffered, open, got, reply>>

SendHead(c) == SendPart(c, "head", IF reply[c].body THEN "body" ELSE "close")
SendBody(c) == SendPart(c, "body", "close")

\* send() to a client that has hung up.
SendFails(c) ==
  /\ server = "up" /\ thread[c] \in {"head", "body"} /\ client[c] = "closed"
  /\ \/ thread' = [thread EXCEPT ![c] = "close"] /\ UNCHANGED server
     \/ SendKills /\ server' = "gone" /\ UNCHANGED thread
  /\ UNCHANGED <<client, request, unsent, buffered, open, got, reply, delivered>>

Close(c) ==
  /\ server = "up" /\ thread[c] = "close"
  /\ thread' = [thread EXCEPT ![c] = "done"]
  /\ open' = open \ {c}
  /\ UNCHANGED <<server, client, request, unsent, buffered, got, reply, delivered>>

HandleClient(c) == Recv(c) \/ Parse(c) \/ SendHead(c) \/ SendBody(c) \/ SendFails(c) \/ Close(c)

Next ==
  \E c \in Clients :
    \/ Connect(c) \/ Send(c) \/ HangUp(c)
    \/ Accept(c) \/ StartFails(c) \/ HandleClient(c)

Spec == Init /\ [][Next]_vars

\* The loop and the threads go on as long as the process lives; the clients need not.
FairSpec == Spec /\ \A c \in Clients : WF_vars(Accept(c)) /\ WF_vars(HandleClient(c))

-----------------------------------------------------------------------------

\* A client that stays and sends its whole request gets the whole answer that is due to
\* it, and no more, in however many pieces it sends and whatever the others do.
AnsweredInFull ==
  \A c \in Clients :
    thread[c] = "done" /\ client[c] = "open" =>
      /\ reply[c] = request[c].answer
      /\ delivered[c] = IF reply[c].body THEN <<"head", "body">> ELSE <<"head">>

\* A client that has sent its request and stays is answered, unless the process ends,
\* though others may have connected before and never send anything.
NobodyWaits ==
  \A c \in Clients :
    (client[c] = "waiting" /\ unsent[c] = <<>>) ~>
      (thread[c] = "done" \/ client[c] = "closed" \/ server = "gone")

\* A connection whose client has hung up is closed, at whatever point that was.
SocketsReturned ==
  \A c \in Clients : (c \in open /\ client[c] = "closed") ~> (c \notin open \/ server = "gone")

\* "press Ctrl+C to stop" (serve.cpp:270): nothing else does.
RunsUntilStopped == server = "up"

\* What the theorem about AnsweredInFull assumes: a client asks once, in pieces of which
\* only the last one ends the request, for an answer that is due to the whole of it.
WholeRequests ==
  \A r \in Requests :
    /\ r.pieces \in Seq(Seq(STRING) \ {<<>>}) /\ r.pieces # <<>>
    /\ \A n \in 1 .. Len(r.pieces) :
         Complete(FlattenSeq(SubSeq(r.pieces, 1, n))) <=> n = Len(r.pieces)
    /\ Answered(FlattenSeq(r.pieces)) = r.answer
=============================================================================
