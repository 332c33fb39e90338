-------------------------------- MODULE Server --------------------------------
(***************************************************************************)
(* TCP connections to the agent (miekg/dns server.go): one goroutine       *)
(* accepts them and reads the first message of each; from then on a        *)
(* goroutine per connection serves its messages one after the other, until *)
(* the client pauses for too long, closes, or has asked too often.         *)
(*                                                                         *)
(* A message is known by its kind:                                         *)
(*   fast, slow  queries; the handler of a slow one waits for Consul       *)
(*   lost        like slow, and its reply does not pack or is too large    *)
(*   bad         does not unpack                                           *)
(*   reply       a response, which is not answered                         *)
(*   split       its length arrives in two segments                        *)
(* The handler is module Agent.                                            *)
(***************************************************************************)
EXTENDS Integers, Sequences, FiniteSets, Functions

CONSTANTS
  Conn,        \* connections
  Sends,       \* by connection: the kinds of messages its client sends
  MaxQueries,  \* 128 in the code
  MaxMsgs,     \* bound, by connection: messages of its client
  SendBuf,     \* answers the socket takes that the client has not read
  None

Kind == {"fast", "slow", "lost", "bad", "reply", "split"}

ASSUME ServerAssumption ==
  /\ None \notin Conn /\ Sends \in [Conn -> SUBSET Kind]
  /\ MaxQueries \in Nat /\ MaxMsgs \in [Conn -> Nat] /\ SendBuf \in Nat \ {0}

VARIABLES
  backlog,    \* connections nobody has accepted yet
  listener,   \* the connection serveTCP reads from, or None
  state,      \* by connection
  sent,       \* by connection: the messages of the client
  read,       \* by connection: how many of them the server has read
  q,          \* by connection: the counter of serve
  answered,   \* by connection: the messages it answered, by number
  unread,     \* by connection: the answers the client has yet to read
  gone        \* by connection: the client has closed its end

clientVars == <<sent, gone>>
serveVars == <<read, q, answered>>
vars == <<backlog, listener, state, clientVars, serveVars, unread>>

Init ==
  /\ backlog = <<>> /\ listener = None
  /\ state = [c \in Conn |-> "none"]
  /\ sent = [c \in Conn |-> <<>>] /\ gone = [c \in Conn |-> FALSE]
  /\ read = [c \in Conn |-> 0] /\ q = [c \in Conn |-> 0]
  /\ answered = [c \in Conn |-> <<>>] /\ unread = [c \in Conn |-> 0]

Goto(c, here, there) == state[c] = here /\ state' = [state EXCEPT ![c] = there]

inbox(c) == Len(sent[c]) - read[c]
current(c) == sent[c][read[c]]

-----------------------------------------------------------------------------
(* Clients.                                                                *)

Connect(c) ==
  /\ Goto(c, "none", "backlog")
  /\ backlog' = Append(backlog, c)
  /\ UNCHANGED <<listener, clientVars, serveVars, unread>>

SendMessage(c) ==
  /\ state[c] # "none" /\ ~gone[c] /\ Len(sent[c]) < MaxMsgs[c]
  /\ \E k \in Sends[c] : sent' = [sent EXCEPT ![c] = Append(@, k)]
  /\ UNCHANGED <<backlog, listener, state, gone, serveVars, unread>>

ReadAnswer(c) ==
  /\ unread[c] > 0 /\ ~gone[c]
  /\ unread' = [unread EXCEPT ![c] = @ - 1]
  /\ UNCHANGED <<backlog, listener, state, clientVars, serveVars>>

Leave(c) ==
  /\ state[c] # "none" /\ ~gone[c]
  /\ gone' = [gone EXCEPT ![c] = TRUE]
  /\ UNCHANGED <<backlog, listener, state, sent, serveVars, unread>>

-----------------------------------------------------------------------------
(* serveTCP.                                                               *)

Accept ==
  /\ listener = None /\ backlog # <<>>
  /\ listener' = Head(backlog) /\ backlog' = Tail(backlog)
  /\ Goto(Head(backlog), "backlog", "first")
  /\ UNCHANGED <<clientVars, serveVars, unread>>

\* mutant: serve is called without "go"
release_InLoop(c) == listener' = c

\* the loop goes on with the next connection
release(c) == listener' = None

\* readTCP wants the two bytes of the length in one read; after an error the
\* connection is left open, with nobody to serve it
FirstMessage(c) ==
  /\ listener = c /\ inbox(c) > 0
  /\ read' = [read EXCEPT ![c] = @ + 1]
  /\ Goto(c, "first",
          IF sent[c][read[c] + 1] = "split" THEN "abandoned" ELSE "unpack")
  /\ release(c)
  /\ UNCHANGED <<backlog, clientVars, q, answered, unread>>

\* the read timeout, or end of file
FirstTimeout(c) ==
  /\ listener = c /\ inbox(c) = 0
  /\ Goto(c, "first", "abandoned")
  /\ listener' = None
  /\ UNCHANGED <<backlog, clientVars, serveVars, unread>>

-----------------------------------------------------------------------------
(* serve, by the goroutine of a connection.                                *)

Unpack(c) ==
  /\ state[c] = "unpack"
  /\ state' = [state EXCEPT ![c] =
       IF current(c) = "bad" THEN "write"
       ELSE IF current(c) = "reply" THEN "read" ELSE "handler"]
  /\ UNCHANGED <<backlog, listener, clientVars, serveVars, unread>>

Handle(c) ==
  /\ Goto(c, "handler", "write")
  /\ UNCHANGED <<backlog, listener, clientVars, serveVars, unread>>

\* mutant: the answer is queued without a look at the buffer
Write_NoWait(c) ==
  /\ Goto(c, "write", "read")
  /\ answered' = [answered EXCEPT ![c] = Append(@, read[c])]
  /\ unread' = [unread EXCEPT ![c] = @ + 1]
  /\ UNCHANGED <<backlog, listener, clientVars, read, q>>

\* mutant: a write fails when nobody reads the answers
fails_Full(c) == gone[c] \/ current(c) = "lost" \/ unread[c] = SendBuf

\* WriteMsg returns an error and sends nothing: the reply does not pack, is
\* larger than MaxMsgSize, or the client is gone
fails(c) == gone[c] \/ current(c) = "lost"

\* a write waits for room in the socket's buffer, without a deadline; serve
\* does not look at its error and goes on
Write(c) ==
  /\ Goto(c, "write", "read")
  /\ \/ /\ ~fails(c) /\ unread[c] < SendBuf
        /\ answered' = [answered EXCEPT ![c] = Append(@, read[c])]
        /\ unread' = [unread EXCEPT ![c] = @ + 1]
     \/ fails(c) /\ UNCHANGED <<answered, unread>>
  /\ UNCHANGED <<backlog, listener, clientVars, read, q>>

tooMany(c) == q[c] + 1 > MaxQueries

\* a message read beyond the limit is dropped
NextMessage(c) ==
  /\ inbox(c) > 0
  /\ read' = [read EXCEPT ![c] = @ + 1]
  /\ q' = [q EXCEPT ![c] = @ + 1]
  /\ Goto(c, "read",
          IF sent[c][read[c] + 1] = "split" \/ tooMany(c)
          THEN "closed" ELSE "unpack")
  /\ UNCHANGED <<backlog, listener, clientVars, answered, unread>>

\* mutant: the connection is read from without a deadline
NextTimeout_Never(c) ==
  /\ inbox(c) = 0 /\ gone[c]
  /\ Goto(c, "read", "closed")
  /\ UNCHANGED <<backlog, listener, clientVars, serveVars, unread>>

\* the idle timeout, or end of file
NextTimeout(c) ==
  /\ inbox(c) = 0
  /\ Goto(c, "read", "closed")
  /\ UNCHANGED <<backlog, listener, clientVars, serveVars, unread>>

-----------------------------------------------------------------------------
ClientNext(c) == Connect(c) \/ SendMessage(c) \/ ReadAnswer(c) \/ Leave(c)
ServeNext(c) ==
  Unpack(c) \/ Handle(c) \/ Write(c) \/ NextMessage(c) \/ NextTimeout(c)
ListenNext == Accept \/ \E c \in Conn : FirstMessage(c) \/ FirstTimeout(c)

Next == ListenNext \/ \E c \in Conn : ClientNext(c) \/ ServeNext(c)

Spec == Init /\ [][Next]_vars

\* The server's goroutines run, and a handler ends unless it waits for Consul.
\* Nothing is assumed of the clients.
ServerFairness ==
  /\ WF_vars(ListenNext)
  /\ \A c \in Conn :
       /\ WF_vars(Unpack(c) \/ Write(c) \/ NextMessage(c) \/ NextTimeout(c))
       /\ WF_vars(Handle(c) /\ current(c) = "fast")

FairSpec == Spec /\ ServerFairness

-----------------------------------------------------------------------------
(* Properties.                                                             *)

TypeOK ==
  /\ backlog \in Seq(Conn) /\ listener \in Conn \cup {None}
  /\ state \in [Conn -> {"none", "backlog", "first", "unpack", "handler",
                         "write", "read", "closed", "abandoned"}]
  /\ sent \in [Conn -> Seq(Kind)] /\ gone \in [Conn -> BOOLEAN]
  /\ read \in [Conn -> Nat] /\ q \in [Conn -> Nat]
  /\ answered \in [Conn -> Seq(Nat)] /\ unread \in [Conn -> 0..SendBuf]

\* On one connection, answers come in the order of the questions, none twice.
\* Until the client leaves, a message is passed over for a later one in two
\* cases only: it is a response, or its reply cannot be sent, of which the
\* client learns nothing.  There is a bound on the number of answers: the
\* count of serve begins after the first message, so it is one more than the
\* limit.
Silent == {"reply", "lost"}
InOrder(s) == \A i, j \in DOMAIN s : i < j => s[i] < s[j]
AnswersInOrder ==
  \A c \in Conn :
    /\ InOrder(answered[c]) /\ Len(answered[c]) <= MaxQueries + 1
    /\ \A i \in Range(answered[c]) : i <= read[c] /\ sent[c][i] \notin Silent
    /\ ~gone[c] => \A i \in 1..(read[c] - 1) :
         sent[c][i] \in Silent \/ i \in Range(answered[c])

\* Every client is accepted and, if it begins with a query that needs no
\* Consul, answered, whatever other connections are doing: clients that send
\* nothing, handlers that hang, answers nobody reads.
FirstAnswered ==
  \A c \in Conn :
    (state[c] = "backlog" /\ sent[c] # <<>> /\ sent[c][1] = "fast")
      ~> (answered[c] # <<>> \/ gone[c])

\* A connection that is served is closed in the end and its goroutine ends.
\* Two things only can keep it, and neither has a deadline: a handler that
\* waits for Consul, and the write to a client that reads no answers.
Held(c) ==
  \/ state[c] = "handler" /\ current(c) \in {"slow", "lost"}
  \/ state[c] = "write" /\ unread[c] = SendBuf /\ ~fails(c)
ConnectionsReleased ==
  \A c \in Conn : state[c] = "unpack" ~> (state[c] = "closed" \/ Held(c))
=============================================================================
