-------------------------------- MODULE HyperUds --------------------------------
(***************************************************************************)
(* A client and a server of hyper-uds over one connected pair of sockets   *)
(* (crates/hyper-uds/src/client.rs, server.rs, transport.rs and            *)
(* Connection::receive of proto.rs), or a peer that follows no protocol in *)
(* the place of the client.                                                *)
(*                                                                         *)
(* The stream is a sequence of units.  A unit says which message of its    *)
(* sender it belongs to and where, and carries the descriptors that were   *)
(* attached to the sendmsg it begins.  Each side is one task; a step is    *)
(* what it does from one successful system call to the next.               *)
(***************************************************************************)
EXTENDS HyperMessage, FiniteSets

CONSTANTS
  Requests,     \* what callers pass to send_request
  Responses,    \* what the service returns
  RawPeers,     \* peers other than Client: their messages and their stream
  ReadBytes,    \* the length of Connection::read to begin with: 1024
  SocketBytes,  \* units a socket's buffer holds
  MaxCalls      \* bound: calls of send_request

(* What a unit carries, and the units of the stream: a descriptor is the   *)
(* nth of message `of' of its sender.                                      *)
Attached == [of : Nat, nth : Nat]
Units == [of : Nat, at : Nat, fds : Seq(Attached)]

ASSUME HyperAssumption ==
  /\ Requests \subseteq Messages /\ Responses \subseteq Messages
  /\ \A m \in Requests \cup Responses : Formed(m.fds)
  /\ ReadBytes \in Nat \ {0} /\ SocketBytes \in Nat \ {0} /\ MaxCalls \in Nat

(* The units of a raw peer are numbered as they are read: a message goes   *)
(* on, once begun, for as long as its head says, and then another begins.  *)
ASSUME RawAssumption ==
  \A p \in RawPeers :
    /\ p \in [messages : Seq(Messages), units : Seq(Units)]
    /\ \A a \in DOMAIN p.units :
         LET w == p.messages[p.units[a].of]
         IN /\ p.units[a].of \in DOMAIN p.messages
            /\ p.units[a].at = 1 /\ IncomingLengths(w) # {} =>
                 \A b \in DOMAIN p.units : a < b =>
                   IF b - a < HeadSize(w) + IncomingLength(w)
                   THEN p.units[b].of = p.units[a].of /\ p.units[b].at = b - a + 1
                   ELSE p.units[b].at = 1 => p.units[a].of < p.units[b].of

VARIABLES
  raw,       \* the peer in the place of Client, or NoPeer
  task,      \* of each side: where its task is and its locals
  inbox,     \* of each side: what its socket holds, unread
  gone,      \* the sides that have dropped their socket
  reset,     \* the sides whose socket has ECONNRESET pending
  sent,      \* history: the messages each side prepared
  served,    \* history: the requests the service was called with
  outcomes   \* history: how each call ended

vars == <<raw, task, inbox, gone, reset, sent, served, outcomes>>

Sides == {"client", "server"}
Other(s) == IF s = "client" THEN "server" ELSE "client"

NoPeer == [messages |-> <<>>, units |-> <<>>]
IsRaw == raw # NoPeer

(* A task's locals: written of transport::send; filled or offset of        *)
(* receive as the units read, the descriptors that came with them, the     *)
(* length of Connection::read, and whether the connection is to close.     *)
AtRest == [at |-> "idle", written |-> 0, read |-> <<>>, fds |-> <<>>,
           room |-> ReadBytes, close |-> FALSE]

Receiving(t) == [t EXCEPT !.at = "head", !.read = <<>>, !.fds = <<>>, !.written = 0]

Init ==
  /\ raw \in RawPeers \cup {NoPeer}
  /\ task = [s \in Sides |-> IF s = "server" THEN Receiving(AtRest)
                             ELSE IF IsRaw THEN [AtRest EXCEPT !.at = "raw"] ELSE AtRest]
  /\ inbox = [s \in Sides |-> <<>>]
  /\ gone = {} /\ reset = {}
  /\ sent = [s \in Sides |-> IF s = "client" THEN raw.messages ELSE <<>>]
  /\ served = <<>>
  /\ outcomes = <<>>

Final == {"gone", "ended", "failed", "refused"}

--------------------------------------------------------------------------
(* The sockets.                                                            *)

Descriptors(s, i) ==
  [k \in 1 .. Len(sent[s][i].fds) |-> [of |-> i, nth |-> k]]

Total(w) == HeadSize(w) + w.body

(* The units of message i: its descriptors go with the first.              *)
UnitsOf(s, i) ==
  [k \in 1 .. Total(sent[s][i]) |->
     [of |-> i, at |-> k, fds |-> IF k = 1 THEN Descriptors(s, i) ELSE <<>>]]

(* Closing a socket discards what it has not read; if there was any, the   *)
(* other side gets an error after the bytes it still holds.                *)
DropSocket(s, unread) ==
  /\ gone' = gone \cup {s}
  /\ inbox' = [inbox EXCEPT ![s] = <<>>]
  /\ reset' = IF unread # <<>> THEN reset \cup {Other(s)} ELSE reset

(* What one recvmsg into a buffer of n units may return: some of what is   *)
(* there, with the descriptors of at most one sendmsg.                     *)
Carries(units) == {k \in DOMAIN units : units[k].fds # <<>>}

Reads(s, n) == {k \in 1 .. Len(inbox[s]) :
                  k <= n /\ Cardinality(Carries(SubSeq(inbox[s], 1, k))) <= 1}

FdsIn(units) ==
  IF Carries(units) = {} THEN <<>> ELSE units[CHOOSE k \in Carries(units) : TRUE].fds

Left(s, k) == SubSeq(inbox[s], k + 1, Len(inbox[s]))

--------------------------------------------------------------------------
(* The end of an exchange, as each side takes it.                          *)

(* A ? in send_request or serve_connection: the connection is dropped.     *)
Break(s, why, unread) ==
  /\ DropSocket(s, unread)
  /\ task' = [task EXCEPT ![s] = [AtRest EXCEPT !.at = IF s = "client" THEN "gone" ELSE why]]
  /\ IF s = "client" /\ ~IsRaw
     THEN outcomes' = Append(outcomes, [kind |-> why, read |-> <<>>, fds |-> <<>>])
     ELSE UNCHANGED outcomes
  /\ UNCHANGED <<raw, sent, served>>

(* MUTANT of Complete: the client heeds only its own request's close.      *)
CompleteOwnClose(s, t, w, unread) ==
  IF s = "server"
  THEN /\ served' = Append(served, [read |-> t.read, fds |-> t.fds])
       /\ task' = [task EXCEPT ![s] = [t EXCEPT !.at = "service", !.close = Closes(w)]]
       /\ inbox' = [inbox EXCEPT ![s] = unread]
       /\ UNCHANGED <<gone, reset, sent, outcomes, raw>>
  ELSE /\ outcomes' = Append(outcomes, [kind |-> "answered", read |-> t.read, fds |-> t.fds])
       /\ IF t.close
          THEN DropSocket(s, unread) /\ task' = [task EXCEPT ![s] = [AtRest EXCEPT !.at = "gone"]]
          ELSE /\ task' = [task EXCEPT ![s] = [AtRest EXCEPT !.room = t.room]]
               /\ inbox' = [inbox EXCEPT ![s] = unread]
               /\ UNCHANGED <<gone, reset>>
       /\ UNCHANGED <<sent, served, raw>>

(* The message is complete: send_request returns it, keeping the           *)
(* connection unless either side said close; the server calls the service. *)
Complete(s, t, w, unread) ==
  IF s = "server"
  THEN /\ served' = Append(served, [read |-> t.read, fds |-> t.fds])
       /\ task' = [task EXCEPT ![s] = [t EXCEPT !.at = "service", !.close = Closes(w)]]
       /\ inbox' = [inbox EXCEPT ![s] = unread]
       /\ UNCHANGED <<gone, reset, sent, outcomes, raw>>
  ELSE /\ outcomes' = Append(outcomes, [kind |-> "answered", read |-> t.read, fds |-> t.fds])
       /\ IF t.close \/ Closes(w)
          THEN DropSocket(s, unread) /\ task' = [task EXCEPT ![s] = [AtRest EXCEPT !.at = "gone"]]
          ELSE /\ task' = [task EXCEPT ![s] = [AtRest EXCEPT !.room = t.room]]
               /\ inbox' = [inbox EXCEPT ![s] = unread]
               /\ UNCHANGED <<gone, reset>>
       /\ UNCHANGED <<sent, served, raw>>

--------------------------------------------------------------------------
(* Client::send_request, up to its first await: the connection is taken    *)
(* out, and put back if the request cannot be sent.                        *)
Call(m) ==
  /\ ~IsRaw /\ Len(outcomes) < MaxCalls
  /\ task["client"].at = "idle"
  /\ IF PreparedRequest(m) = {}
     THEN /\ outcomes' = Append(outcomes, [kind |-> "unsent", read |-> <<>>, fds |-> <<>>])
          /\ UNCHANGED <<task, sent>>
     ELSE /\ \E w \in PreparedRequest(m) : sent' = [sent EXCEPT !["client"] = Append(@, w)]
          /\ task' = [task EXCEPT !["client"].at = "send", !["client"].written = 0,
                                  !["client"].close = Closes(m)]
          /\ UNCHANGED outcomes
  /\ UNCHANGED <<raw, inbox, gone, reset, served>>

(* The connection was lost with an earlier call: NotConnected.             *)
CallUnconnected ==
  /\ ~IsRaw /\ Len(outcomes) < MaxCalls
  /\ task["client"].at = "gone"
  /\ outcomes' = Append(outcomes, [kind |-> "unconnected", read |-> <<>>, fds |-> <<>>])
  /\ UNCHANGED <<raw, task, inbox, gone, reset, sent, served>>

(* MUTANT of Cancel: the connection is put back.                           *)
CancelKeeps ==
  /\ ~IsRaw
  /\ task["client"].at \in {"send", "head", "body"}
  /\ task' = [task EXCEPT !["client"].at = "idle"]
  /\ outcomes' = Append(outcomes, [kind |-> "cancelled", read |-> <<>>, fds |-> <<>>])
  /\ UNCHANGED <<raw, inbox, gone, reset, sent, served>>

(* The caller drops the future, and with it the connection.                *)
Cancel ==
  /\ ~IsRaw
  /\ task["client"].at \in {"send", "head", "body"}
  /\ Break("client", "cancelled", inbox["client"])

(* The owner of the client drops it.                                       *)
DropClient ==
  /\ ~IsRaw
  /\ task["client"].at = "idle"
  /\ DropSocket("client", inbox["client"])
  /\ task' = [task EXCEPT !["client"].at = "gone"]
  /\ UNCHANGED <<raw, sent, served, outcomes>>

(* The service returns, and the server prepares what it returned.          *)
Serve(m) ==
  /\ task["server"].at = "service"
  /\ LET prepared == PreparedResponse(m, task["server"].close)
     IN IF prepared = {}
        THEN Break("server", "failed", inbox["server"])
        ELSE /\ \E w \in prepared :
                  /\ sent' = [sent EXCEPT !["server"] = Append(@, w)]
                  /\ task' = [task EXCEPT !["server"].at = "send", !["server"].written = 0,
                                          !["server"].close = Closes(w)]
             /\ UNCHANGED <<raw, inbox, gone, reset, served, outcomes>>

ServiceFails ==
  /\ task["server"].at = "service"
  /\ Break("server", "failed", inbox["server"])

(* transport::send: what fits now goes, and the rest later without the     *)
(* descriptors.                                                            *)
Put(s, units) == inbox' = [inbox EXCEPT ![Other(s)] = @ \o units]

Unwritten(s) ==
  LET all == UnitsOf(s, Len(sent[s]))
  IN SubSeq(all, task[s].written + 1, Len(all))

Send(s) ==
  /\ task[s].at = "send"
  /\ Other(s) \notin gone
  /\ \E n \in 1 .. Len(Unwritten(s)) :
       /\ Len(inbox[Other(s)]) + n <= SocketBytes
       /\ Put(s, SubSeq(Unwritten(s), 1, n))
       /\ task' = [task EXCEPT ![s].written = @ + n]
  /\ UNCHANGED <<raw, gone, reset, sent, served, outcomes>>

SendFails(s) ==
  /\ task[s].at = "send" /\ Unwritten(s) # <<>>
  /\ Other(s) \in gone
  /\ Break(s, "failed", inbox[s])

(* The loop of send ends: the client waits for the response, the server    *)
(* for the next request unless it is to close.                             *)
Sent(s) ==
  /\ task[s].at = "send" /\ Unwritten(s) = <<>>
  /\ IF s = "server" /\ task[s].close
     THEN Break(s, "ended", inbox[s])
     ELSE /\ task' = [task EXCEPT ![s] = Receiving(@)]
          /\ UNCHANGED <<raw, inbox, gone, reset, sent, served, outcomes>>

--------------------------------------------------------------------------
(* Connection::receive.                                                    *)

Peer(s) == sent[Other(s)]

(* parse_head finds the head complete.  Units that do not begin a message  *)
(* are no head.                                                            *)
HeadOf(s, read) == Peer(s)[read[1].of]
Garbled(read) == read[1].at # 1
Parsed(s, read) == ~Garbled(read) /\ Len(read) >= HeadSize(HeadOf(s, read))

Unbound(fds) == [i \in DOMAIN fds |-> [open |-> TRUE, name |-> Unnamed]]

(* MUTANT of Grown: the buffer doubles past the limit.                     *)
GrownFreely(n) == 2 * n

Grown(n) == IF 2 * n < MaxHeaderBytes THEN 2 * n ELSE MaxHeaderBytes

ReadHead(s) ==
  /\ task[s].at = "head"
  /\ \E k \in Reads(s, task[s].room - Len(task[s].read)) :
       LET t == task[s]
           units == SubSeq(inbox[s], 1, k)
           read == t.read \o units
           fds == IF t.read = <<>> THEN FdsIn(units) ELSE t.fds
           w == HeadOf(s, read)
           length == IncomingLength(w)
           got == [t EXCEPT !.read = read, !.fds = fds]
       IN \/ /\ \/ t.read # <<>> /\ FdsIn(units) # <<>>
                \/ Garbled(read)
                \/ Parsed(s, read) /\ HeadRefused(w, Len(read) - HeadSize(w), Unbound(fds))
                \/ ~Parsed(s, read) /\ Len(read) >= MaxHeaderBytes
             /\ Break(s, "refused", Left(s, k))
          \/ /\ t.read = <<>> \/ FdsIn(units) = <<>>
             /\ Parsed(s, read) /\ ~HeadRefused(w, Len(read) - HeadSize(w), Unbound(fds))
             /\ IF Len(read) = HeadSize(w) + length
                THEN Complete(s, got, w, Left(s, k))
                ELSE /\ task' = [task EXCEPT ![s] = [got EXCEPT !.at = "body"]]
                     /\ inbox' = [inbox EXCEPT ![s] = Left(s, k)]
                     /\ UNCHANGED <<raw, gone, reset, sent, served, outcomes>>
          \/ /\ t.read = <<>> \/ FdsIn(units) = <<>>
             /\ ~Garbled(read) /\ ~Parsed(s, read) /\ Len(read) < MaxHeaderBytes
             /\ task' = [task EXCEPT ![s] = [got EXCEPT
                           !.room = IF Len(read) = @ THEN Grown(@) ELSE @]]
             /\ inbox' = [inbox EXCEPT ![s] = Left(s, k)]
             /\ UNCHANGED <<raw, gone, reset, sent, served, outcomes>>

(* MUTANT of ReadBody: descriptors are only looked for with the head.      *)
ReadBodyAnyFds(s) ==
  /\ task[s].at = "body"
  /\ LET t == task[s]
         w == HeadOf(s, t.read)
         whole == HeadSize(w) + IncomingLength(w)
     IN \E k \in Reads(s, whole - Len(t.read)) :
          LET got == [t EXCEPT !.read = @ \o SubSeq(inbox[s], 1, k)]
          IN IF Len(got.read) = whole
             THEN Complete(s, got, w, Left(s, k))
             ELSE /\ task' = [task EXCEPT ![s] = got]
                  /\ inbox' = [inbox EXCEPT ![s] = Left(s, k)]
                  /\ UNCHANGED <<raw, gone, reset, sent, served, outcomes>>

(* The rest of the body is read into the body: never past its end.         *)
ReadBody(s) ==
  /\ task[s].at = "body"
  /\ LET t == task[s]
         w == HeadOf(s, t.read)
         whole == HeadSize(w) + IncomingLength(w)
     IN \E k \in Reads(s, whole - Len(t.read)) :
          LET units == SubSeq(inbox[s], 1, k)
              got == [t EXCEPT !.read = @ \o units]
          IN \/ FdsIn(units) # <<>> /\ Break(s, "refused", Left(s, k))
             \/ /\ FdsIn(units) = <<>>
                /\ IF Len(got.read) = whole
                   THEN Complete(s, got, w, Left(s, k))
                   ELSE /\ task' = [task EXCEPT ![s] = got]
                        /\ inbox' = [inbox EXCEPT ![s] = Left(s, k)]
                        /\ UNCHANGED <<raw, gone, reset, sent, served, outcomes>>

(* MUTANT of ReadEnd: the end of the stream goes unseen in a body.         *)
ReadEndOfHead(s) ==
  /\ task[s].at = "head"
  /\ inbox[s] = <<>> /\ Other(s) \in gone
  /\ Break(s, "ended", <<>>)

(* Nothing more comes: the end of a server's connection if it is between   *)
(* two messages, an error anywhere else.                                   *)
ReadEnd(s) ==
  /\ task[s].at \in {"head", "body"}
  /\ inbox[s] = <<>> /\ Other(s) \in gone
  /\ IF s = "server" /\ s \notin reset /\ task[s].read = <<>>
     THEN Break(s, "ended", <<>>)
     ELSE Break(s, "failed", <<>>)

--------------------------------------------------------------------------
(* The peer in the client's place: it writes its stream in any pieces,     *)
(* reads whatever comes, and closes when it likes.                         *)
RawSend ==
  /\ task["client"].at = "raw" /\ "server" \notin gone
  /\ \E n \in 1 .. Len(raw.units) - task["client"].written :
       /\ Len(inbox["server"]) + n <= SocketBytes
       /\ Put("client", SubSeq(raw.units, task["client"].written + 1, task["client"].written + n))
       /\ task' = [task EXCEPT !["client"].written = @ + n]
  /\ UNCHANGED <<raw, gone, reset, sent, served, outcomes>>

RawRead ==
  /\ task["client"].at = "raw" /\ inbox["client"] # <<>>
  /\ inbox' = [inbox EXCEPT !["client"] = <<>>]
  /\ UNCHANGED <<raw, task, gone, reset, sent, served, outcomes>>

RawClose ==
  /\ task["client"].at = "raw"
  /\ Break("client", "gone", inbox["client"])

--------------------------------------------------------------------------
Progress(s) == Send(s) \/ SendFails(s) \/ Sent(s) \/ ReadHead(s) \/ ReadBody(s) \/ ReadEnd(s)

Service == ServiceFails \/ \E m \in Responses : Serve(m)

Owner == \/ \E m \in Requests : Call(m)
         \/ CallUnconnected \/ Cancel \/ DropClient

Raw == RawSend \/ RawRead \/ RawClose

Next == Owner \/ Service \/ Raw \/ (\E s \in Sides : Progress(s))

Spec == Init /\ [][Next]_vars

(* The runtime polls a task whose socket is ready, and the service returns.*)
(* Callers need not call, cancel or drop anything, and a raw peer need not *)
(* do anything.                                                            *)
FairSpec == /\ Spec
            /\ \A s \in Sides : WF_vars(Progress(s))
            /\ WF_vars(Service)
--------------------------------------------------------------------------
(* The variables have their types: a task is at one of its awaits, a       *)
(* socket holds no more than its buffer, reads stay inside their limits.   *)
TypeOK ==
  /\ raw \in RawPeers \cup {NoPeer}
  /\ \A s \in Sides :
       /\ task[s].at \in {"idle", "send", "head", "body", "service", "raw"} \cup Final
       /\ task[s].room \in 1 .. (IF ReadBytes > MaxHeaderBytes THEN ReadBytes ELSE MaxHeaderBytes)
       /\ task[s].at = "head" => Len(task[s].read) < task[s].room
       /\ task[s].at = "body" => Len(task[s].read) < HeadSize(HeadOf(s, task[s].read)) + MaxBodyBytes
       /\ Len(inbox[s]) <= SocketBytes
       /\ sent[s] \in Seq(Messages)
  /\ gone \subseteq Sides /\ reset \subseteq Sides
  /\ Len(outcomes) <= MaxCalls

(* The service is only ever called with a whole request, the units of one  *)
(* message of the peer from its first to its last, with the descriptors    *)
(* that were attached to those units and no others, and with the peer's    *)
(* messages in the order they came: whatever the peer pipelines, cuts      *)
(* short or attaches late, and however the stream is cut into reads.       *)
ServesWholeRequests ==
  \A j \in DOMAIN served :
    LET r == served[j]
        i == r.read[1].of
        w == sent["client"][i]
    IN /\ Len(r.read) = HeadSize(w) + IncomingLength(w)
       /\ \A k \in DOMAIN r.read : r.read[k].of = i /\ r.read[k].at = k
       /\ Carries(r.read) = {} => r.fds = <<>>
       /\ \A k \in Carries(r.read) : r.fds = r.read[k].fds
       /\ \A j2 \in 1 .. j - 1 : served[j2].read[1].of < i

(* What one side of hyper-uds agrees to send, the other accepts: the rules *)
(* for preparing and for reading a head, its length, its names, its size,  *)
(* are the same rules, for every status and both directions.               *)
AcceptsWhatItPrepares ==
  ~IsRaw => /\ task["server"].at # "refused"
            /\ \A c \in DOMAIN outcomes : outcomes[c].kind # "refused"

(* A client that may be called again has a connection with nothing on its  *)
(* way in either direction, and a server on the other end that waits, or   *)
(* is about to, for the first byte of a request: no call starts on what an *)
(* earlier one, cancelled or failed, has left.                             *)
ReusedOnlyClean ==
  task["client"].at = "idle" =>
    /\ inbox["client"] = <<>> /\ inbox["server"] = <<>>
    /\ gone = {}
    /\ \/ task["server"].at = "head" /\ task["server"].read = <<>>
       \/ task["server"].at = "send" /\ Unwritten("server") = <<>> /\ ~task["server"].close

(* When the client is gone, serve_connection returns: a server never       *)
(* waits for the rest of a request, or for room for a response, that       *)
(* nobody is going to send or make.                                        *)
ServerEnds == "client" \in gone ~> "server" \in gone

(* The connection implements RpcExchange: a request is what the client     *)
(* prepared, whole and with its descriptors, when the service gets it, and *)
(* an answer what the server prepared for that request when its call gets  *)
(* it.  A delivery that is anything else counts for none.                  *)
Intact(d, s, j) == d.read = UnitsOf(s, j) /\ d.fds = Descriptors(s, j)

Answered == {c \in DOMAIN outcomes : outcomes[c].kind = "answered"}
Turn(c) == Cardinality({b \in Answered : b <= c})

Rpc == INSTANCE RpcExchange WITH
  sent <- IF IsRaw THEN 0 ELSE Len(sent["client"]),
  served <- IF IsRaw THEN 0
            ELSE Cardinality({j \in DOMAIN served : Intact(served[j], "client", j)}),
  answered <- Cardinality({c \in Answered : Intact(outcomes[c], "server", Turn(c))}),
  open <- task["client"].at \in {"send", "head", "body"},
  up <- task["client"].at # "gone" \/ IsRaw

RpcSpec == Rpc!FairSpec
=============================================================================
