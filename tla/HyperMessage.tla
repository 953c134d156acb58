------------------------------ MODULE HyperMessage ------------------------------
(***************************************************************************)
(* What hyper-uds puts into the head of a message and what it makes of one *)
(* (crates/hyper-uds/src/proto.rs, body.rs): the framing rules, for both   *)
(* directions.                                                             *)
(*                                                                         *)
(* A message keeps of its headers what the code tells apart.  Its length,  *)
(* names and host are the sequences of values of Content-Length, X-FD and  *)
(* Host; connection holds the tokens of Connection; `others' counts the    *)
(* rest.  Sizes are counted in units: the start line is one, a header one, *)
(* and the body has `body' of them.                                        *)
(***************************************************************************)
EXTENDS Integers, Sequences

CONSTANTS
  Texts,           \* names of descriptors and values of headers
  MaxFds,          \* MAX_FDS
  MaxHeaders,      \* MAX_HEADERS
  MaxHeaderBytes,  \* Limits::max_header_bytes
  MaxBodyBytes     \* Limits::max_body_bytes

ASSUME LimitAssumption ==
  MaxFds \in Nat /\ MaxHeaders \in Nat /\ MaxHeaderBytes \in Nat /\ MaxBodyBytes \in Nat

ASSUME TextAssumption == {"", "close", "localhost"} \subseteq Texts

Malformed == -1    \* a Content-Length that is no number or overflows
Unnamed == ""      \* also what an empty X-FD or Host header holds

Values(s) == {s[i] : i \in DOMAIN s}

(* A descriptor a body holds: vacant once take() moved it out.             *)
Slots == [open : BOOLEAN, name : Texts]

Messages ==
  [status : {"request", "200", "204", "205", "304"},
   valid : BOOLEAN,         \* version, method, target or status permitted
   length : Seq(Int), names : Seq(Seq(Texts)), host : Seq(Texts),
   connection : Seq(Texts), unsupported : BOOLEAN, others : Nat,
   body : Nat, fds : Seq(Slots)]

IsRequest(m) == m.status = "request"

HeaderCount(m) ==
  Len(m.length) + Len(m.names) + Len(m.host) + m.others
    + (IF m.connection = <<>> THEN 0 ELSE 1) + (IF m.unsupported THEN 1 ELSE 0)

HeadSize(m) == 1 + HeaderCount(m)

(* inspect_headers and content_length.                                     *)
InspectRefuses(m) ==
  \/ HeaderCount(m) > MaxHeaders
  \/ Len(m.length) > 1 \/ Malformed \in Values(m.length)
  \/ Len(m.names) > 1
  \/ ~(Values(m.connection) \subseteq {"close", "keep-alive"})
  \/ IsRequest(m) /\ (Len(m.host) > 1 \/ "" \in Values(m.host))
  \/ m.unsupported

Closes(m) == "close" \in Values(m.connection)

(* Fds: all its descriptors have a name or none has, no two the same.      *)
Mixes(fds, name) == fds # <<>> /\ (fds[1].name = Unnamed) # (name = Unnamed)

InsertRefuses(fds, name) == Len(fds) = MaxFds \/ Mixes(fds, name)

Insert(fds, name) ==
  IF InsertRefuses(fds, name) THEN fds
  ELSE Append(fds, [open |-> TRUE, name |-> name])

Push(fds) == Insert(fds, Unnamed)

PushNamed(fds, name) ==
  IF name = "" \/ name \in {fds[i].name : i \in DOMAIN fds} THEN fds ELSE Insert(fds, name)

Take(fds, i) == [fds EXCEPT ![i].open = FALSE]

(* What every Fds is, and insert, take and bind_names keep it.             *)
Formed(fds) ==
  /\ Len(fds) <= MaxFds
  /\ \A i \in DOMAIN fds : fds[i].name = Unnamed <=> fds[1].name = Unnamed
  /\ \A i, j \in DOMAIN fds : i # j /\ fds[i].name = fds[j].name => fds[i].name = Unnamed

(* Fds::bind_names: one valid name for every descriptor, none twice, and   *)
(* none other than the one it already has.                                 *)
BindRefuses(fds, names) ==
  \/ Len(names) # Len(fds)
  \/ "" \in Values(names)
  \/ \E i, j \in DOMAIN names : i # j /\ names[i] = names[j]
  \/ \E i \in DOMAIN fds \cap DOMAIN names : fds[i].name \notin {Unnamed, names[i]}

Bind(fds, names) == [i \in DOMAIN fds |-> [fds[i] EXCEPT !.name = names[i]]]

--------------------------------------------------------------------------
(* Preparing a message: the set holds what is sent, and is empty when the  *)
(* code refuses to.                                                        *)

(* The Content-Length header a message goes out with.                      *)
Same(m, n) == IF Values(m.length) \subseteq {n} THEN {<<n>>} ELSE {}

(* MUTANT of OutgoingLengths: a 205 goes out as a 204 does.                *)
OutgoingLengthsBare(m) ==
  CASE m.status \in {"204", "205"} -> IF m.body = 0 /\ m.length = <<>> THEN {<<>>} ELSE {}
    [] m.status = "304" -> IF m.body = 0 THEN {m.length} ELSE {}
    [] OTHER -> Same(m, m.body)

OutgoingLengths(m) ==
  CASE m.status = "204" -> IF m.body = 0 /\ m.length = <<>> THEN {<<>>} ELSE {}
    [] m.status = "304" -> IF m.body = 0 THEN {m.length} ELSE {}
    [] m.status = "205" -> IF m.body = 0 THEN Same(m, 0) ELSE {}
    [] OTHER -> Same(m, m.body)

NamesOf(fds) == [i \in DOMAIN fds |-> fds[i].name]

BoundBody(m) == IF m.names = <<>> THEN m.fds ELSE Bind(m.fds, m.names[1])

(* finish_head and end_head.                                               *)
Fits(w) == HeaderCount(w) <= MaxHeaders /\ HeadSize(w) <= MaxHeaderBytes

Finished(m, close) ==
  IF \/ m.body > MaxBodyBytes
     \/ \E i \in DOMAIN m.fds : ~m.fds[i].open
     \/ m.names # <<>> /\ BindRefuses(m.fds, m.names[1])
  THEN {}
  ELSE LET fds == BoundBody(m)
           named == fds # <<>> /\ fds[1].name # Unnamed
       IN {w \in {[m EXCEPT
                   !.length = l,
                   !.fds = fds,
                   !.names = IF named THEN <<NamesOf(fds)>> ELSE <<>>,
                   !.connection = IF close THEN <<"close">> ELSE @,
                   !.host = IF IsRequest(m) /\ @ = <<>> THEN <<"localhost">> ELSE @]
                   : l \in OutgoingLengths(m)} : Fits(w)}

PreparedRequest(m) ==
  IF ~m.valid \/ InspectRefuses(m) THEN {} ELSE Finished(m, FALSE)

(* A response says close when it wants to, or when the request did.        *)
PreparedResponse(m, close) ==
  IF ~m.valid \/ InspectRefuses(m) THEN {} ELSE Finished(m, close \/ Closes(m))

--------------------------------------------------------------------------
(* Reading a message whose head is complete.                               *)

(* Incoming::body_length: empty when the head does not say how long.       *)
IncomingLengths(w) ==
  CASE w.status = "request" -> IF w.length = <<>> THEN {0} ELSE Values(w.length)
    [] w.status = "204" -> IF w.length = <<>> THEN {0} ELSE {}
    [] w.status = "304" -> {0}
    [] w.status = "205" -> IF w.length = <<0>> THEN {0} ELSE {}
    [] OTHER -> Values(w.length)

(* The head is refused, n being the units of the body already received.    *)
HeadRefused(w, received, fds) ==
  \/ ~w.valid
  \/ HeadSize(w) > MaxHeaderBytes
  \/ InspectRefuses(w)
  \/ IsRequest(w) /\ w.host = <<>>
  \/ \A n \in IncomingLengths(w) : n > MaxBodyBytes \/ received > n
  \/ w.names # <<>> /\ BindRefuses(fds, w.names[1])

IncomingLength(w) == CHOOSE n \in IncomingLengths(w) : TRUE
=============================================================================
