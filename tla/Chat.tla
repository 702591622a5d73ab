-------------------------------- MODULE Chat --------------------------------
(***************************************************************************)
(* The chat of one booking: services/chat.py (threads that store messages   *)
(* and publish events), the socket coroutines of api/v1/endpoints/chat.py   *)
(* and the ConnectionManager of websocket/manager.py.                       *)
(*                                                                         *)
(* Every open socket has a Redis subscription of its own, and what it hears *)
(* it hands to the connection manager of its process, which sends it to     *)
(* every socket of the booking there.  Redis forgets an event once it has   *)
(* passed it on: who is not subscribed then must read the stored messages.  *)
(*                                                                         *)
(* Left out: who may join, the contents, and typing events, which are       *)
(* published like the others but store nothing.                             *)
(***************************************************************************)
EXTENDS Naturals, Sequences, FiniteSets

CONSTANTS Writers,      \* threads that run the chat endpoints
          Sockets,      \* connections, each used once
          Servers,      \* processes
          MaxMessages,  \* bound: messages stored
          MaxSeen,      \* bound: times that messages are marked seen
          MaxOutages    \* bound: outages of Redis

ASSUME ChatAssumption ==
  /\ IsFiniteSet(Sockets)
  /\ MaxMessages \in Nat /\ MaxSeen \in Nat /\ MaxOutages \in Nat

VARIABLES stored,     \* ids of the committed messages
          seen,       \* those with a seen_at
          writer,     \* what each thread is doing
          socket,     \* the coroutine of each connection
          home,       \* the process a connection was made to
          manager,    \* active_connections of each process
          received,   \* what each client got, in order
          pubsub,     \* Redis answers
          chatPast    \* history: see ChatTypeOK

chatVars == <<stored, seen, writer, socket, home, manager, received, pubsub, chatPast>>

Ids == 1..MaxMessages

Event == [type : {"message", "seen"}, ids : SUBSET Ids]
NoEvent == [type |-> "message", ids |-> {}]

\* up: the client is there.  inbox: published but not yet taken.  targets: the
\* connections the event still has to be sent to.  stale: those that failed.
Socket == [pc : {"new", "joined", "listening", "sending", "closed"}, up : BOOLEAN,
           inbox : Seq(Event), event : Event,
           targets : SUBSET Sockets, stale : SUBSET Sockets]

ChatTypeOK ==
  /\ seen \subseteq stored /\ stored \subseteq Ids
  /\ writer \in [Writers -> [pc : {"idle", "publish", "again", "mark"}, event : Event]]
  /\ socket \in [Sockets -> Socket]
  /\ \A s \in Sockets : socket[s].pc \in {"new", "joined", "closed"} => socket[s].inbox = <<>>
  /\ home \in [Sockets -> Servers]
  /\ manager \in [Servers -> SUBSET Sockets]
  /\ received \in [Sockets -> Seq(Event)]
  /\ pubsub \in BOOLEAN
  /\ chatPast \in [due : [Sockets -> SUBSET Ids],   \* published while it listened
                   marks : Nat, outages : Nat]

ChatInit ==
  /\ stored = {} /\ seen = {}
  /\ writer = [t \in Writers |-> [pc |-> "idle", event |-> NoEvent]]
  /\ socket = [s \in Sockets |-> [pc |-> "new", up |-> TRUE, inbox |-> <<>>, event |-> NoEvent,
                                  targets |-> {}, stale |-> {}]]
  /\ home \in [Sockets -> Servers]
  /\ manager = [p \in Servers |-> {}]
  /\ received = [s \in Sockets |-> <<>>]
  /\ pubsub = TRUE
  /\ chatPast = [due |-> [s \in Sockets |-> {}], marks |-> 0, outages |-> 0]

-----------------------------------------------------------------------------
(* ChatService *)

WriterDoes(t, pc, event) == writer' = [writer EXCEPT ![t] = [pc |-> pc, event |-> event]]

\* save_message commits, then publishes.
SaveMessage(t) ==
  LET m == Cardinality(stored) + 1 IN
  /\ writer[t].pc = "idle" /\ m <= MaxMessages
  /\ stored' = stored \cup {m}
  /\ WriterDoes(t, "publish", [type |-> "message", ids |-> {m}])
  /\ UNCHANGED <<seen, socket, home, manager, received, pubsub, chatPast>>

\* mark_messages_seen: the unseen messages are listed ...
ListUnseen(t) ==
  /\ writer[t].pc = "idle" /\ stored # seen /\ chatPast.marks < MaxSeen
  /\ WriterDoes(t, "mark", [type |-> "seen", ids |-> stored \ seen])
  /\ chatPast' = [chatPast EXCEPT !.marks = @ + 1]
  /\ UNCHANGED <<stored, seen, socket, home, manager, received, pubsub>>

\* Mutant: the stamps are not committed.
MarkSeen_NoCommit(t) ==
  /\ writer[t].pc = "mark"
  /\ WriterDoes(t, "publish", writer[t].event)
  /\ UNCHANGED <<stored, seen, socket, home, manager, received, pubsub, chatPast>>

\* ... and stamped; another thread may have stamped them since.
MarkSeen(t) ==
  /\ writer[t].pc = "mark"
  /\ seen' = seen \cup writer[t].event.ids
  /\ WriterDoes(t, "publish", writer[t].event)
  /\ UNCHANGED <<stored, socket, home, manager, received, pubsub, chatPast>>

\* Mutant: a socket hears from the moment it is in the manager.
Subscribed_Joined(s) == socket[s].pc \in {"joined", "listening", "sending"}

Subscribed(s) == socket[s].pc \in {"listening", "sending"}

\* _publish tries twice, then gives the event up.
Publish(t) ==
  LET e == writer[t].event IN
  /\ writer[t].pc \in {"publish", "again"}
  /\ \/ /\ pubsub
        /\ socket' = [s \in Sockets |-> IF Subscribed(s) THEN [socket[s] EXCEPT !.inbox = Append(@, e)]
                                        ELSE socket[s]]
        /\ chatPast' = [chatPast EXCEPT !.due = [s \in Sockets |->
                          IF Subscribed(s) /\ e.type = "message" THEN @[s] \cup e.ids ELSE @[s]]]
        /\ WriterDoes(t, "idle", NoEvent)
     \/ /\ ~ pubsub
        /\ IF writer[t].pc = "publish" THEN WriterDoes(t, "again", e) ELSE WriterDoes(t, "idle", NoEvent)
        /\ UNCHANGED <<socket, chatPast>>
  /\ UNCHANGED <<stored, seen, home, manager, received, pubsub>>

-----------------------------------------------------------------------------
(* chat_socket and the ConnectionManager *)

SocketDoes(s, r) == socket' = [socket EXCEPT ![s] = r]

\* Mutant: a closed connection is left for the next broadcast to find.
Without_Later(S) == manager

\* ConnectionManager.disconnect
Without(S) == [p \in Servers |-> manager[p] \ S]

Connect(s) ==
  /\ socket[s].pc = "new"
  /\ SocketDoes(s, [socket[s] EXCEPT !.pc = "joined"])
  /\ manager' = [manager EXCEPT ![home[s]] = @ \cup {s}]
  /\ UNCHANGED <<stored, seen, writer, home, received, pubsub, chatPast>>

\* The coroutine ends, by an exception or because the client is gone.
Closes(s) ==
  /\ SocketDoes(s, [socket[s] EXCEPT !.pc = "closed", !.inbox = <<>>, !.targets = {}, !.stale = {}])
  /\ manager' = Without({s})

Subscribe(s) ==
  /\ socket[s].pc = "joined"
  /\ \/ /\ pubsub
        /\ SocketDoes(s, [socket[s] EXCEPT !.pc = "listening"])
        /\ UNCHANGED manager
     \/ ~ pubsub /\ Closes(s)
  /\ UNCHANGED <<stored, seen, writer, home, received, pubsub, chatPast>>

\* Mutant: the socket that heard the event leaves itself out.
Targets_Others(s) == manager[home[s]] \ {s}

Targets(s) == manager[home[s]]

\* broadcast begins: the connections are copied under the lock.
TakeEvent(s) ==
  LET r == socket[s] IN
  /\ r.pc = "listening" /\ r.inbox # <<>> /\ pubsub
  /\ SocketDoes(s, [r EXCEPT !.pc = "sending", !.event = Head(r.inbox), !.inbox = Tail(@),
                             !.targets = Targets(s)])
  /\ UNCHANGED <<stored, seen, writer, home, manager, received, pubsub, chatPast>>

Served(r, c) == [r EXCEPT !.targets = @ \ {c}]

SendTo(s, c) ==
  LET r == socket[s] IN
  /\ r.pc = "sending" /\ c \in r.targets
  /\ \/ /\ socket[c].up /\ socket[c].pc # "closed"
        /\ received' = [received EXCEPT ![c] = Append(@, r.event)]
        /\ SocketDoes(s, Served(r, c))
     \/ /\ ~ socket[c].up \/ socket[c].pc = "closed"
        /\ SocketDoes(s, [r EXCEPT !.targets = @ \ {c}, !.stale = @ \cup {c}])
        /\ UNCHANGED received
  /\ UNCHANGED <<stored, seen, writer, home, manager, pubsub, chatPast>>

\* broadcast ends: connections that failed are dropped from the manager.
EndBroadcast(s) ==
  LET r == socket[s] IN
  /\ r.pc = "sending" /\ r.targets = {}
  /\ SocketDoes(s, [r EXCEPT !.pc = "listening", !.event = NoEvent, !.stale = {}])
  /\ manager' = Without(r.stale)
  /\ UNCHANGED <<stored, seen, writer, home, received, pubsub, chatPast>>

\* get_message raises while Redis is away, or receive reports the disconnect.
Leave(s) ==
  /\ socket[s].pc = "listening" /\ (~ pubsub \/ ~ socket[s].up)
  /\ Closes(s)
  /\ UNCHANGED <<stored, seen, writer, home, received, pubsub, chatPast>>

ClientGoes(s) ==
  /\ socket[s].pc \in {"joined", "listening", "sending"} /\ socket[s].up
  /\ SocketDoes(s, [socket[s] EXCEPT !.up = FALSE])
  /\ UNCHANGED <<stored, seen, writer, home, manager, received, pubsub, chatPast>>

\* Redis goes, and with it every subscription and what it had not delivered.
PubSubFails ==
  /\ pubsub /\ chatPast.outages < MaxOutages
  /\ pubsub' = FALSE
  /\ socket' = [s \in Sockets |-> [socket[s] EXCEPT !.inbox = <<>>]]
  /\ chatPast' = [chatPast EXCEPT !.outages = @ + 1]
  /\ UNCHANGED <<stored, seen, writer, home, manager, received>>

\* Every connection that was subscribed has noticed by then.
PubSubReturns ==
  /\ ~ pubsub /\ \A s \in Sockets : ~ Subscribed(s)
  /\ pubsub' = TRUE
  /\ UNCHANGED <<stored, seen, writer, socket, home, manager, received, chatPast>>

ChatNext ==
  \/ \E t \in Writers : SaveMessage(t) \/ ListUnseen(t) \/ MarkSeen(t) \/ Publish(t)
  \/ \E s \in Sockets :
       \/ Connect(s) \/ Subscribe(s) \/ TakeEvent(s) \/ EndBroadcast(s) \/ Leave(s) \/ ClientGoes(s)
       \/ \E c \in Sockets : SendTo(s, c)
  \/ PubSubFails \/ PubSubReturns

ChatSpec == ChatInit /\ [][ChatNext]_chatVars

-----------------------------------------------------------------------------
Heard(s, type) == {received[s][i] : i \in {j \in DOMAIN received[s] : received[s][j].type = type}}

\* A client is told of nothing that is not committed: neither a message nor that
\* one was seen, although the events travel outside the transaction.
AnnouncedIsCommitted ==
  \A s \in Sockets :
    /\ \A e \in Heard(s, "message") : e.ids \subseteq stored
    /\ \A e \in Heard(s, "seen") : e.ids \subseteq seen

\* A listening socket with nothing left to take has sent its client every message
\* published since it subscribed.
QuietSocketHasAll ==
  \A s \in Sockets :
    socket[s].pc = "listening" /\ socket[s].up /\ socket[s].inbox = <<>> /\ pubsub
      => \A m \in chatPast.due[s] : [type |-> "message", ids |-> {m}] \in Heard(s, "message")

\* A socket that is closed is never left behind in the manager, and one whose
\* client is there is never dropped by the broadcast of another socket.
ManagerIsExact ==
  \A s \in Sockets :
    /\ socket[s].pc = "closed" => s \notin manager[home[s]]
    /\ socket[s].pc \in {"joined", "listening", "sending"} /\ socket[s].up => s \in manager[home[s]]
=============================================================================
