---------------------------- MODULE HyperUds_proofs ----------------------------
(***************************************************************************)
(* What holds of a hyper-uds connection for any messages, limits and sizes *)
(* of buffers.                                                             *)
(***************************************************************************)
EXTENDS HyperUds, SequenceTheorems, FiniteSetTheorems, TLAPS

--------------------------------------------------------------------------------
(* The descriptors of a body.                                              *)
LEMMA InsertFormed ==
  ASSUME NEW fds \in Seq(Slots), Formed(fds), NEW name \in Texts,
         name # Unnamed => \A i \in DOMAIN fds : fds[i].name # name
  PROVE  Insert(fds, name) \in Seq(Slots) /\ Formed(Insert(fds, name))
<1>1. CASE InsertRefuses(fds, name)
  BY <1>1 DEF Insert
<1>2. CASE ~InsertRefuses(fds, name)
  <2> DEFINE x == [open |-> TRUE, name |-> name]
             r == Append(fds, x)
  <2>1. x \in Slots /\ x.name = name /\ Insert(fds, name) = r
    BY <1>2 DEF Insert, Slots
  <2> HIDE DEF x
  <2>2. /\ r \in Seq(Slots) /\ Len(fds) \in Nat /\ Len(r) = Len(fds) + 1 /\ DOMAIN r = 1 .. Len(fds) + 1
        /\ DOMAIN fds = 1 .. Len(fds)
        /\ \A i \in 1 .. Len(fds) : r[i] = fds[i]
        /\ r[Len(fds) + 1] = x
    BY <2>1
  <2> HIDE DEF r
  <2>3. Len(fds) # MaxFds /\ (fds # <<>> => (fds[1].name = Unnamed <=> name = Unnamed))
    BY <1>2 DEF InsertRefuses, Mixes
  <2>4. Len(r) <= MaxFds
    <3>1. Len(fds) <= MaxFds /\ MaxFds \in Nat
      BY LimitAssumption DEF LimitAssumption, Formed
    <3>2. Len(r) = Len(fds) + 1 /\ Len(fds) \in Nat /\ Len(fds) # MaxFds
      BY <2>2, <2>3
    <3> QED
      BY <3>1, <3>2
  <2>5. \A i \in DOMAIN r : r[i].name = Unnamed <=> r[1].name = Unnamed
    <3>1. CASE fds = <<>>
      BY <2>2, <3>1
    <3>2. CASE fds # <<>>
      <4>1. 1 \in 1 .. Len(fds)
        BY <2>2, <3>2
      <4> QED
        BY <2>1, <2>2, <2>3, <3>2, <4>1 DEF Formed
    <3> QED
      BY <3>1, <3>2
  <2>6. \A i, j \in DOMAIN r : i # j /\ r[i].name = r[j].name => r[i].name = Unnamed
    BY <2>1, <2>2 DEF Formed
  <2> QED
    BY <2>1, <2>2, <2>4, <2>5, <2>6 DEF Formed
<1> QED
  BY <1>1, <1>2

(* Fds: push, push_named and take keep at most MAX_FDS descriptors, all    *)
(* with names of their own or none with one.                               *)
THEOREM FdsStayFormed ==
  ASSUME NEW fds \in Seq(Slots), Formed(fds)
  PROVE  /\ Formed(<<>>)
         /\ Formed(Push(fds))
         /\ \A name \in Texts : Formed(PushNamed(fds, name))
         /\ \A i \in DOMAIN fds : Formed(Take(fds, i))
<1>1. Formed(<<>>)
  BY LimitAssumption DEF LimitAssumption, Formed
<1>2. Formed(Push(fds))
  <2>1. Unnamed \in Texts
    BY TextAssumption DEF TextAssumption, Unnamed
  <2> QED
    BY <2>1, InsertFormed DEF Push
<1>3. ASSUME NEW name \in Texts PROVE Formed(PushNamed(fds, name))
  <2>1. CASE name = "" \/ name \in {fds[i].name : i \in DOMAIN fds}
    BY <2>1 DEF PushNamed
  <2>2. CASE ~(name = "" \/ name \in {fds[i].name : i \in DOMAIN fds})
    BY <2>2, InsertFormed DEF PushNamed
  <2> QED
    BY <2>1, <2>2
<1>4. ASSUME NEW i \in DOMAIN fds PROVE Formed(Take(fds, i))
  <2> DEFINE r == Take(fds, i)
  <2>1. Len(r) = Len(fds) /\ DOMAIN r = DOMAIN fds /\ \A j \in DOMAIN fds : r[j].name = fds[j].name
    BY DEF Take, Slots
  <2> HIDE DEF r
  <2>2. DOMAIN fds # {} => 1 \in DOMAIN fds
    OBVIOUS
  <2>3. Formed(r)
    BY <2>1, <2>2 DEF Formed
  <2> QED
    BY <2>3 DEF r
<1> QED
  BY <1>1, <1>2, <1>3, <1>4

--------------------------------------------------------------------------------
(* What a side prepares, the other accepts.                                *)
Sendable(w) ==
  /\ w \in Messages /\ w.valid /\ HeadSize(w) <= MaxHeaderBytes /\ ~InspectRefuses(w)
  /\ IsRequest(w) => w.host # <<>>
  /\ IncomingLengths(w) = {w.body} /\ w.body <= MaxBodyBytes
  /\ w.names # <<>> => ~BindRefuses(Unbound(w.fds), w.names[1])

(* The names a body goes out with are names its descriptors may be bound   *)
(* to, on either side.                                                     *)
LEMMA NamesBind ==
  ASSUME NEW fds \in Seq(Slots), Formed(fds), fds # <<>>, fds[1].name # Unnamed
  PROVE  ~BindRefuses(Unbound(fds), NamesOf(fds))
<1> DEFINE names == NamesOf(fds)
           slots == Unbound(fds)
<1>1. /\ DOMAIN fds = 1 .. Len(fds) /\ Len(fds) \in Nat
      /\ \A i \in DOMAIN fds : fds[i].name # Unnamed
      /\ \A i, j \in DOMAIN fds : i # j => fds[i].name # fds[j].name
  BY DEF Formed
<1>2. /\ names = [i \in 1 .. Len(fds) |-> fds[i].name]
      /\ slots = [i \in 1 .. Len(fds) |-> [open |-> TRUE, name |-> Unnamed]]
  BY <1>1 DEF NamesOf, Unbound
<1>3. /\ Len(names) = Len(fds) /\ Len(slots) = Len(fds)
      /\ DOMAIN names = DOMAIN fds /\ DOMAIN slots = DOMAIN fds
      /\ \A i \in DOMAIN fds : names[i] = fds[i].name /\ slots[i].name = Unnamed
  BY <1>1, <1>2
<1> HIDE DEF names, slots
<1>4. ~BindRefuses(slots, names)
  <2>1. Unnamed \notin Values(names)
    BY <1>1, <1>3 DEF Values
  <2>2. \A i \in DOMAIN slots \cap DOMAIN names : slots[i].name \in {Unnamed, names[i]}
    BY <1>3
  <2>3. ~(\E i, j \in DOMAIN names : i # j /\ names[i] = names[j])
    BY <1>1, <1>3
  <2> QED
    BY <1>3, <2>1, <2>2, <2>3 DEF BindRefuses, Unnamed
<1> QED
  BY <1>4 DEF names, slots

LEMMA BoundFormed ==
  ASSUME NEW fds \in Seq(Slots), Formed(fds), NEW names \in Seq(Texts), ~BindRefuses(fds, names)
  PROVE  Bind(fds, names) \in Seq(Slots) /\ Formed(Bind(fds, names))
         /\ Len(Bind(fds, names)) = Len(fds)
<1> DEFINE r == Bind(fds, names)
<1>1. /\ DOMAIN fds = 1 .. Len(fds) /\ Len(fds) \in Nat /\ DOMAIN names = DOMAIN fds
      /\ \A i \in DOMAIN fds : names[i] # Unnamed /\ names[i] \in Texts
      /\ \A i, j \in DOMAIN fds : i # j => names[i] # names[j]
  <2>1. /\ Len(names) = Len(fds) /\ Unnamed \notin Values(names)
        /\ \A i, j \in DOMAIN names : ~(i # j /\ names[i] = names[j])
    BY DEF BindRefuses, Unnamed
  <2>2. /\ DOMAIN fds = 1 .. Len(fds) /\ Len(fds) \in Nat /\ DOMAIN names = DOMAIN fds
        /\ \A i \in DOMAIN names : names[i] \in Texts
    BY <2>1
  <2> QED
    BY <2>1, <2>2 DEF Values
<1>2. r = [i \in 1 .. Len(fds) |-> [fds[i] EXCEPT !.name = names[i]]]
  BY <1>1 DEF Bind
<1>3. ASSUME NEW i \in 1 .. Len(fds) PROVE r[i] \in Slots /\ r[i].name = names[i]
  <2>1. fds[i] \in Slots /\ names[i] \in Texts
    BY <1>1
  <2>2. r[i] = [fds[i] EXCEPT !.name = names[i]]
    BY <1>2
  <2> QED
    BY <2>1, <2>2 DEF Slots
<1>4. r \in Seq(Slots) /\ Len(r) = Len(fds) /\ DOMAIN r = DOMAIN fds
  BY <1>1, <1>2, <1>3
<1> HIDE DEF r
<1>5. Formed(r)
  <2>1. DOMAIN fds # {} => 1 \in DOMAIN fds
    BY <1>1
  <2> QED
    BY <1>1, <1>3, <1>4, <2>1 DEF Formed
<1> QED
  BY <1>4, <1>5 DEF r

LEMMA MessageFields ==
  ASSUME NEW m \in Messages
  PROVE  /\ m.status \in {"request", "200", "204", "205", "304"} /\ m.valid \in BOOLEAN
         /\ m.length \in Seq(Int) /\ m.names \in Seq(Seq(Texts)) /\ m.host \in Seq(Texts)
         /\ m.connection \in Seq(Texts) /\ m.unsupported \in BOOLEAN /\ m.others \in Nat
         /\ m.body \in Nat /\ m.fds \in Seq(Slots)
BY DEF Messages

(* The headers of what goes out, w, from those asked for, m.               *)
Outgoing(m, w) ==
  /\ w.status = m.status /\ w.valid = m.valid /\ w.body = m.body
  /\ w.unsupported = m.unsupported /\ w.others = m.others
  /\ w.length \in OutgoingLengths(m)
  /\ w.fds = BoundBody(m)
  /\ w.names = IF w.fds # <<>> /\ w.fds[1].name # Unnamed THEN <<NamesOf(w.fds)>> ELSE <<>>
  /\ w.connection \in {m.connection, <<"close">>}
  /\ w.host = m.host \/ w.host = <<"localhost">>
  /\ IsRequest(m) => w.host # <<>>

LEMMA FinishedIs ==
  ASSUME NEW m \in Messages, NEW close, NEW w \in Finished(m, close)
  PROVE  /\ Outgoing(m, w) /\ Fits(w) /\ m.body <= MaxBodyBytes
         /\ m.names # <<>> => ~BindRefuses(m.fds, m.names[1])
         /\ /\ w.length \in Seq(Int) /\ w.fds \in Seq(Slots) /\ w.names \in Seq(Seq(Texts))
            /\ w.connection \in Seq(Texts) /\ w.host \in Seq(Texts)
            => w \in Messages
<1>1. ~(\/ m.body > MaxBodyBytes
        \/ \E i \in DOMAIN m.fds : ~m.fds[i].open
        \/ m.names # <<>> /\ BindRefuses(m.fds, m.names[1]))
  BY DEF Finished
<1>1a. m.body \in Nat /\ MaxBodyBytes \in Nat
  BY LimitAssumption DEF LimitAssumption, Messages
<1> DEFINE fds == BoundBody(m)
           named == fds # <<>> /\ fds[1].name # Unnamed
           names == IF named THEN <<NamesOf(fds)>> ELSE <<>>
           connection == IF close THEN <<"close">> ELSE m.connection
           host == IF IsRequest(m) /\ m.host = <<>> THEN <<"localhost">> ELSE m.host
<1>2. PICK l \in OutgoingLengths(m) :
        w = [m EXCEPT !.length = l, !.fds = fds, !.names = names, !.connection = connection, !.host = host]
  BY DEF Finished
<1>3. Fits(w)
  BY DEF Finished
<1> HIDE DEF fds, names, connection, host
<1>4. /\ w.status = m.status /\ w.valid = m.valid /\ w.body = m.body
      /\ w.unsupported = m.unsupported /\ w.others = m.others
      /\ w.length = l /\ w.fds = fds /\ w.names = names /\ w.connection = connection /\ w.host = host
  BY <1>2 DEF Messages
<1>4a. ASSUME w.length \in Seq(Int), w.fds \in Seq(Slots), w.names \in Seq(Seq(Texts)),
              w.connection \in Seq(Texts), w.host \in Seq(Texts)
       PROVE  w \in Messages
  BY <1>2, <1>4, <1>4a DEF Messages
<1>5. IsRequest(m) => host # <<>>
  BY DEF host
<1> QED
  BY <1>1, <1>1a, <1>3, <1>4, <1>4a, <1>5 DEF Outgoing, fds, names, connection, host


LEMMA OneText ==
  ASSUME NEW x, x \in Texts
  PROVE  <<x>> \in Seq(Texts) /\ Values(<<x>>) = {x} /\ Len(<<x>>) = 1
<1>1. <<x>> \in Seq(Texts) /\ Len(<<x>>) = 1 /\ DOMAIN <<x>> = {1} /\ <<x>>[1] = x
  OBVIOUS
<1> QED
  BY <1>1 DEF Values

LEMMA OneOrMore == \A n \in Nat : n > 1 <=> ~(n <= 1)
OBVIOUS

LEMMA HeadNat ==
  ASSUME NEW m \in Messages
  PROVE  HeaderCount(m) \in Nat /\ HeadSize(m) \in Nat /\ HeadSize(m) >= 1
<1> DEFINE n1 == Len(m.length)
           n2 == Len(m.names)
           n3 == Len(m.host)
           a == IF m.connection = <<>> THEN 0 ELSE 1
           b == IF m.unsupported THEN 1 ELSE 0
<1>1. n1 \in Nat /\ n2 \in Nat /\ n3 \in Nat /\ m.others \in Nat
  BY MessageFields
<1>2. a \in Nat /\ b \in Nat
  OBVIOUS
<1>3. HeaderCount(m) = n1 + n2 + n3 + m.others + a + b
  BY DEF HeaderCount
<1> HIDE DEF n1, n2, n3, a, b
<1>5. HeaderCount(m) \in Nat
  BY <1>1, <1>2, <1>3
<1>6. \A n \in Nat : 1 + n \in Nat /\ 1 + n >= 1
  OBVIOUS
<1> QED
  BY <1>5, <1>6 DEF HeadSize

LEMMA FinishedSendable ==
  ASSUME NEW m \in Messages, Formed(m.fds), m.valid, ~InspectRefuses(m),
         NEW close, NEW w \in Finished(m, close)
  PROVE  Sendable(w)
<1> USE DEF Unnamed, Malformed
<1>1. Outgoing(m, w) /\ Fits(w) /\ m.body <= MaxBodyBytes
  BY FinishedIs
<1>2. /\ Len(m.length) <= 1 /\ Malformed \notin Values(m.length) /\ Len(m.names) <= 1
      /\ Values(m.connection) \subseteq {"close", "keep-alive"} /\ ~m.unsupported
      /\ IsRequest(m) => Len(m.host) <= 1 /\ "" \notin Values(m.host)
  <2>1. Len(m.length) \in Nat /\ Len(m.names) \in Nat /\ Len(m.host) \in Nat
    BY MessageFields
  <2>2. /\ ~(Len(m.length) > 1) /\ Malformed \notin Values(m.length) /\ ~(Len(m.names) > 1)
        /\ Values(m.connection) \subseteq {"close", "keep-alive"} /\ ~m.unsupported
        /\ IsRequest(m) => ~(Len(m.host) > 1) /\ "" \notin Values(m.host)
    BY Zenon DEF InspectRefuses
  <2>3. Len(m.length) <= 1 /\ Len(m.names) <= 1 /\ (~(Len(m.host) > 1) => Len(m.host) <= 1)
    BY <2>1, <2>2, OneOrMore
  <2> QED
    BY <2>2, <2>3
<1>3. /\ w.fds \in Seq(Slots) /\ Formed(w.fds)
  <2>1. CASE m.names = <<>>
    BY <1>1, <2>1, MessageFields DEF Outgoing, BoundBody
  <2>2. CASE m.names # <<>>
    <3>1. m.names[1] \in Seq(Texts) /\ ~BindRefuses(m.fds, m.names[1])
      BY <2>2, FinishedIs, MessageFields
    <3> QED
      BY <1>1, <2>2, <3>1, BoundFormed, MessageFields DEF Outgoing, BoundBody
  <2> QED
    BY <2>1, <2>2
<1>4. /\ w.names \in Seq(Seq(Texts)) /\ Len(w.names) <= 1
      /\ w.names # <<>> => ~BindRefuses(Unbound(w.fds), w.names[1])
  <2>1. CASE w.fds # <<>> /\ w.fds[1].name # Unnamed
    <3>1. w.names = <<NamesOf(w.fds)>>
      BY <1>1, <2>1 DEF Outgoing
    <3>2. NamesOf(w.fds) \in Seq(Texts)
      <4>1. \A i \in DOMAIN w.fds : w.fds[i] \in Slots
        BY <1>3
      <4>2. \A i \in DOMAIN w.fds : w.fds[i].name \in Texts
        BY <4>1 DEF Slots
      <4> QED
        BY <1>3, <4>2 DEF NamesOf
    <3>3. ~BindRefuses(Unbound(w.fds), NamesOf(w.fds))
      BY <1>3, <2>1, NamesBind
    <3> QED
      BY <3>1, <3>2, <3>3
  <2>2. CASE ~(w.fds # <<>> /\ w.fds[1].name # Unnamed)
    <3>1. w.names = <<>>
      BY <1>1, <2>2 DEF Outgoing
    <3> QED
      BY <3>1
  <2> QED
    BY <2>1, <2>2
<1>5. /\ w.length \in Seq(Int) /\ Len(w.length) <= 1 /\ Malformed \notin Values(w.length)
      /\ IncomingLengths(w) = {w.body}
  <2>1. w.length \in OutgoingLengths(m) /\ w.status = m.status /\ w.body = m.body /\ m.body \in Nat
    BY <1>1, MessageFields DEF Outgoing
  <2>2. ASSUME w.length = <<w.body>>
        PROVE  /\ w.length \in Seq(Int) /\ Len(w.length) = 1 /\ w.length # <<>>
               /\ Values(w.length) = {w.body} /\ Malformed \notin Values(w.length)
    BY <2>1, <2>2 DEF Values
  <2>3. w.length \in Same(m, m.body) => w.length = <<w.body>>
    BY <2>1 DEF Same
  <2>4. CASE w.status = "204"
    <3>1. w.length = <<>> /\ w.body = 0
      BY <1>2, <2>1, <2>4, MessageFields DEF OutgoingLengths
    <3> QED
      BY <2>4, <3>1 DEF IncomingLengths, Values
  <2>5. CASE w.status = "304"
    <3>1. w.length = m.length /\ w.body = 0
      BY <1>2, <2>1, <2>5, MessageFields DEF OutgoingLengths
    <3> QED
      BY <1>2, <2>5, <3>1, MessageFields DEF IncomingLengths
  <2>6. CASE w.status = "205"
    <3>1. w.length = <<0>> /\ w.body = 0
      BY <2>1, <2>6 DEF OutgoingLengths, Same
    <3> QED
      BY <2>2, <2>6, <3>1 DEF IncomingLengths
  <2>7. CASE w.status \in {"request", "200"}
    <3>1. w.length \in Same(m, m.body)
      BY <2>1, <2>7 DEF OutgoingLengths
    <3>2. w.length = <<w.body>> /\ w.length # <<>> /\ Values(w.length) = {w.body}
      BY <2>2, <2>3, <3>1
    <3>3. IncomingLengths(w) = Values(w.length)
      <4>1. CASE w.status = "request"
        BY <3>2, <4>1 DEF IncomingLengths
      <4>2. CASE w.status = "200"
        BY <4>2 DEF IncomingLengths
      <4> QED
        BY <2>7, <4>1, <4>2
    <3> QED
      BY <2>2, <3>2, <3>3
  <2> QED
    BY <2>1, <2>4, <2>5, <2>6, <2>7, MessageFields
<1>6. /\ w.connection \in Seq(Texts) /\ Values(w.connection) \subseteq {"close", "keep-alive"}
  <2>1. <<"close">> \in Seq(Texts) /\ Values(<<"close">>) = {"close"}
    BY TextAssumption, OneText DEF TextAssumption
  <2> QED
    BY <1>1, <1>2, <2>1, MessageFields DEF Outgoing
<1>7. /\ w.host \in Seq(Texts) /\ (IsRequest(w) <=> IsRequest(m))
      /\ IsRequest(w) => Len(w.host) <= 1 /\ "" \notin Values(w.host) /\ w.host # <<>>
  <2>1. <<"localhost">> \in Seq(Texts) /\ Values(<<"localhost">>) = {"localhost"}
        /\ Len(<<"localhost">>) = 1
    BY TextAssumption, OneText DEF TextAssumption
  <2>2. IsRequest(w) <=> IsRequest(m)
    BY <1>1 DEF Outgoing, IsRequest
  <2>3. CASE w.host = <<"localhost">>
    <3>1. Len(w.host) <= 1 /\ w.host \in Seq(Texts) /\ w.host # <<>>
      BY <2>1, <2>3
    <3>2. Values(w.host) = {"localhost"}
      BY <2>1, <2>3
    <3> QED
      BY <2>2, <3>1, <3>2
  <2>4. CASE w.host = m.host
    <3>1. m.host \in Seq(Texts) /\ (IsRequest(m) => m.host # <<>>)
      BY <1>1, <2>4, MessageFields DEF Outgoing
    <3> QED
      BY <1>2, <2>2, <2>4, <3>1
  <2> QED
    BY <1>1, <2>3, <2>4 DEF Outgoing
<1>8. w \in Messages
  BY <1>3, <1>4, <1>5, <1>6, <1>7, FinishedIs
<1>9. HeaderCount(w) <= MaxHeaders /\ HeadSize(w) <= MaxHeaderBytes
  BY <1>1 DEF Fits
<1>10. HeaderCount(w) \in Nat
  BY <1>8, HeadNat
<1>11. ~InspectRefuses(w)
  <2>1. ~w.unsupported
    BY <1>1, <1>2 DEF Outgoing
  <2>2. ~(HeaderCount(w) > MaxHeaders) /\ ~(Len(w.length) > 1) /\ ~(Len(w.names) > 1)
    BY <1>4, <1>5, <1>9, <1>10, LimitAssumption DEF LimitAssumption
  <2>3. IsRequest(w) => ~(Len(w.host) > 1)
    <3>1. w.host \in Seq(Texts)
      BY <1>7
    <3>2. Len(w.host) \in Nat
      BY <3>1
    <3>3. IsRequest(w) => Len(w.host) <= 1
      BY Zenon, <1>7
    <3> QED
      BY <3>2, <3>3, OneOrMore
  <2> QED
    BY <1>5, <1>6, <1>7, <2>1, <2>2, <2>3 DEF InspectRefuses
<1> QED
  BY <1>1, <1>4, <1>5, <1>7, <1>8, <1>9, <1>11 DEF Sendable, Outgoing

(* proto.rs: what either side agrees to send, the other accepts.           *)
LEMMA PreparedSendable ==
  ASSUME NEW m \in Requests \cup Responses, NEW close \in BOOLEAN,
         NEW w \in PreparedRequest(m) \cup PreparedResponse(m, close)
  PROVE  Sendable(w)
<1>1. m \in Messages /\ Formed(m.fds)
  BY HyperAssumption DEF HyperAssumption
<1>2. m.valid /\ ~InspectRefuses(m) /\ \E c : w \in Finished(m, c)
  BY DEF PreparedRequest, PreparedResponse
<1> QED
  BY <1>1, <1>2, FinishedSendable

--------------------------------------------------------------------------------
(* Pieces of sequences.                                                    *)
LEMMA Associative == \A S : \A s, t, u \in Seq(S) : (s \o t) \o u = s \o (t \o u)
BY ConcatAssociative

LEMMA Cut ==
  ASSUME NEW S, NEW r \in Seq(S), NEW q \in Seq(S), NEW k \in 1 .. Len(q)
  PROVE  LET a == SubSeq(q, 1, k)
             b == SubSeq(q, k + 1, Len(q))
         IN /\ a \in Seq(S) /\ b \in Seq(S) /\ Len(a) = k /\ Len(b) = Len(q) - k
            /\ r \o a \in Seq(S) /\ Len(r \o a) = Len(r) + k
            /\ \A i \in 1 .. k : a[i] = q[i]
<1> DEFINE a == SubSeq(q, 1, k)
           b == SubSeq(q, k + 1, Len(q))
<1>1. Len(q) \in Nat /\ k \in Int /\ k + 1 \in Int /\ \A i \in 1 .. Len(q) : q[i] \in S
  OBVIOUS
<1>2. a \in Seq(S) /\ Len(a) = k /\ \A i \in 1 .. k : a[i] = q[i]
  BY <1>1, SubSeqProperties
<1>3. b \in Seq(S) /\ Len(b) = Len(q) - k
  BY <1>1, SubSeqProperties
<1> HIDE DEF a, b
<1>4. r \o a \in Seq(S) /\ Len(r \o a) = Len(r) + k
  BY <1>2, ConcatProperties
<1> QED
  BY <1>2, <1>3, <1>4 DEF a, b

LEMMA CutJoins ==
  ASSUME NEW S, NEW r \in Seq(S), NEW q \in Seq(S), NEW k \in 1 .. Len(q)
  PROVE  (r \o SubSeq(q, 1, k)) \o SubSeq(q, k + 1, Len(q)) = r \o q
<1> DEFINE a == SubSeq(q, 1, k)
           b == SubSeq(q, k + 1, Len(q))
<1>1. a \in Seq(S) /\ b \in Seq(S)
  BY Cut
<1>2. a \o b = q
  <2>1. 1 \in 1 .. Len(q) + 1 /\ k \in 1 - 1 .. Len(q) /\ Len(q) \in k .. Len(q)
    OBVIOUS
  <2>2. SubSeq(q, 1, k) \o SubSeq(q, k + 1, Len(q)) = SubSeq(q, 1, Len(q))
    BY <2>1, ConcatAdjacentSubSeq
  <2> QED
    BY <2>2, SubSeqFull
<1> HIDE DEF a, b
<1>3. ASSUME NEW c, NEW d, c \in Seq(S), d \in Seq(S)
      PROVE  (r \o c) \o d = r \o (c \o d)
  BY <1>3, Associative, SMTT(30)
<1>4. (r \o a) \o b = r \o (a \o b)
  BY <1>1, <1>3
<1>5. (r \o a) \o b = r \o q
  BY <1>2, <1>4
<1> QED
  BY <1>5 DEF a, b

(* k units of w have gone, and n more go.                                  *)
LEMMA Extend ==
  ASSUME NEW S, NEW w \in Seq(S), NEW k \in 0 .. Len(w), NEW n \in 1 .. Len(w) - k
  PROVE  LET x == SubSeq(w, k + 1, k + n)
         IN /\ x \in Seq(S) /\ Len(x) = n /\ \A i \in 1 .. n : x[i] = w[k + i]
            /\ Len(SubSeq(w, k + 1, Len(w))) = Len(w) - k
            /\ SubSeq(SubSeq(w, k + 1, Len(w)), 1, n) = x
            /\ SubSeq(w, 1, k) \o x = SubSeq(w, 1, k + n)
<1> DEFINE x == SubSeq(w, k + 1, k + n)
<1>1. Len(w) \in Nat /\ k \in Nat /\ n \in Nat /\ \A i \in 1 .. Len(w) : w[i] \in S
  OBVIOUS
<1>2. Len(SubSeq(w, k + 1, Len(w))) = Len(w) - k
  <2>1. /\ k + 1 \in Int /\ Len(w) \in Int /\ k + 1 <= Len(w)
        /\ \A i \in k + 1 .. Len(w) : w[i] \in S
        /\ Len(w) - (k + 1) + 1 = Len(w) - k
    BY <1>1
  <2> QED
    BY <2>1, SubSeqProperties
<1>3. x \in Seq(S) /\ Len(x) = n /\ \A i \in 1 .. n : x[i] = w[k + i]
  <2>1. /\ k + 1 \in Int /\ k + n \in Int /\ k + 1 <= k + n
        /\ (k + n) - (k + 1) + 1 = n
        /\ \A i \in k + 1 .. k + n : w[i] \in S
    BY <1>1
  <2>2. \A i \in 1 .. n : (k + 1) + i - 1 = k + i
    BY <1>1
  <2> QED
    BY <2>1, <2>2, SubSeqProperties
<1>4. SubSeq(SubSeq(w, k + 1, Len(w)), 1, n) = x
  <2>1. /\ k + 1 \in 1 .. Len(w) /\ Len(w) \in 1 .. Len(w)
        /\ 1 \in 1 .. Len(w) - (k + 1) + 1 /\ n \in 1 .. Len(w) - (k + 1) + 1
        /\ (k + 1) + 1 - 1 = k + 1 /\ (k + 1) + n - 1 = k + n
    BY <1>1
  <2>2. SubSeq(SubSeq(w, k + 1, Len(w)), 1, n) = SubSeq(w, (k + 1) + 1 - 1, (k + 1) + n - 1)
    BY <2>1, SubSeqOfSubSeq
  <2> QED
    BY <2>1, <2>2
<1>5. SubSeq(w, 1, k) \o SubSeq(w, k + 1, k + n) = SubSeq(w, 1, k + n)
  <2>1. 1 \in 1 .. Len(w) + 1 /\ k \in 1 - 1 .. Len(w) /\ k + n \in k .. Len(w)
    BY <1>1
  <2> QED
    BY <2>1, ConcatAdjacentSubSeq
<1> QED
  BY <1>2, <1>3, <1>4, <1>5

(* What was read of a stream and what is left to be, when both together    *)
(* are the first k of w.                                                   *)
LEMMA Prefix ==
  ASSUME NEW S, NEW r \in Seq(S), NEW q \in Seq(S), NEW w \in Seq(S), NEW k \in 0 .. Len(w),
         r \o q = SubSeq(w, 1, k)
  PROVE  /\ Len(r) <= k /\ Len(r) + Len(q) = k /\ \A i \in 1 .. Len(r) : r[i] = w[i]
         /\ \A i \in 1 .. Len(q) : q[i] = w[Len(r) + i]
         /\ Len(r) = Len(w) => r = w /\ q = <<>>
         /\ k = 0 => r = <<>> /\ q = <<>>
<1>1. Len(r) \in Nat /\ Len(q) \in Nat /\ Len(w) \in Nat /\ k \in Nat
  OBVIOUS
<1>2. /\ Len(r \o q) = Len(r) + Len(q)
      /\ \A i \in 1 .. Len(r) + Len(q) : (r \o q)[i] = IF i <= Len(r) THEN r[i] ELSE q[i - Len(r)]
  BY ConcatProperties
<1>3. Len(SubSeq(w, 1, k)) = k /\ \A i \in 1 .. k : SubSeq(w, 1, k)[i] = w[i]
  <2>1. 1 \in Int /\ k \in Int /\ \A i \in 1 .. k : w[i] \in S
    BY <1>1
  <2>2. (IF 1 <= k THEN k - 1 + 1 ELSE 0) = k /\ \A i \in 1 .. k : i \in 1 .. k - 1 + 1 /\ 1 + i - 1 = i
    BY <1>1
  <2> QED
    BY <2>1, <2>2, SubSeqProperties
<1>4. Len(r) + Len(q) = k
  BY <1>2, <1>3
<1>5. \A i \in 1 .. Len(r) : r[i] = w[i]
  <2> TAKE i \in 1 .. Len(r)
  <2>1. i \in 1 .. k /\ i <= Len(r)
    BY <1>1, <1>4
  <2> QED
    BY <1>2, <1>3, <1>4, <2>1
<1>6. \A i \in 1 .. Len(q) : q[i] = w[Len(r) + i]
  <2> TAKE i \in 1 .. Len(q)
  <2>1. Len(r) + i \in 1 .. k /\ ~(Len(r) + i <= Len(r)) /\ (Len(r) + i) - Len(r) = i
    BY <1>1, <1>4
  <2> QED
    BY <1>2, <1>3, <1>4, <2>1
<1>7. Len(r) = Len(w) => r = w /\ Len(q) = 0
  BY <1>1, <1>4, <1>5, SeqEqual
<1>8. k = 0 => Len(r) = 0 /\ Len(q) = 0
  BY <1>1, <1>4
<1>9. (Len(r) = 0 => r = <<>>) /\ (Len(q) = 0 => q = <<>>)
  BY EmptySeq
<1> QED
  BY <1>1, <1>4, <1>5, <1>6, <1>7, <1>8, <1>9

--------------------------------------------------------------------------------
(* The types of the variables, and what holds of each side by itself.      *)
Places == {"idle", "send", "head", "body", "service", "raw", "gone", "ended", "failed", "refused"}
Largest == IF ReadBytes > MaxHeaderBytes THEN ReadBytes ELSE MaxHeaderBytes
Busy == {"send", "head", "body"}

Tasks == [at : Places, written : Nat, read : Seq(Units), fds : Seq(Attached),
          room : 1 .. Largest, close : BOOLEAN]

Deliveries == [read : Seq(Units), fds : Seq(Attached)]
Kinds == {"answered", "unsent", "unconnected", "cancelled", "failed", "refused", "ended", "gone"}
Ends == [kind : Kinds, read : Seq(Units), fds : Seq(Attached)]

TypeInv ==
  /\ raw \in RawPeers \cup {NoPeer}
  /\ task \in [Sides -> Tasks]
  /\ inbox \in [Sides -> Seq(Units)]
  /\ gone \in SUBSET Sides /\ reset \in SUBSET Sides
  /\ sent \in [Sides -> Seq(Messages)]
  /\ served \in Seq(Deliveries)
  /\ outcomes \in Seq(Ends)

(* What was read begins a message of msgs, and is not all of it.           *)
Began(read, msgs) ==
  LET w == msgs[read[1].of]
  IN /\ read # <<>> /\ read[1].at = 1
     /\ HeadSize(w) <= Len(read) /\ Len(read) < HeadSize(w) + IncomingLength(w)
     /\ IncomingLengths(w) # {}
     /\ IncomingLength(w) \in Int /\ IncomingLength(w) <= MaxBodyBytes

(* The descriptors fds came with the units of read.                        *)
Brought(read, fds) ==
  /\ Carries(read) = {} => fds = <<>>
  /\ \A k \in Carries(read) : fds = read[k].fds

(* A side with task t, whose socket holds q, whose peer prepared msgs, and  *)
(* that prepared own.                                                      *)
Sound(t, q, msgs, own) ==
  /\ \A i \in DOMAIN q : q[i].of \in DOMAIN msgs
  /\ \A i \in DOMAIN t.read : t.read[i].of \in DOMAIN msgs
  /\ t.at = "head" => Len(t.read) < t.room
  /\ t.at = "body" => Began(t.read, msgs)
  /\ t.at \in {"head", "body"} => Brought(t.read, t.fds)
  /\ Len(q) <= SocketBytes
  /\ t.at = "send" => own # <<>> /\ t.written <= Total(own[Len(own)])

SoundInv == \A s \in Sides : Sound(task[s], inbox[s], sent[Other(s)], sent[s])

(* The client counts its calls, and a peer in its place makes none.        *)
CallInv ==
  /\ Len(outcomes) <= MaxCalls
  /\ task["client"].at \in Busy => Len(outcomes) < MaxCalls
  /\ IF IsRaw THEN task["client"].at \in {"raw", "gone"} /\ sent["client"] = raw.messages
              ELSE task["client"].at \in Busy \cup {"idle", "gone"}
  /\ task["server"].at \in Busy \cup {"service", "ended", "failed", "refused"}

SideInv == TypeInv /\ SoundInv /\ CallInv

LEMMA SidesAre ==
  /\ "client" \in Sides /\ "server" \in Sides
  /\ Other("client") = "server" /\ Other("server") = "client"
  /\ \A s \in Sides : Other(s) \in Sides /\ Other(s) # s /\ Other(Other(s)) = s
  /\ \A s, o \in Sides : o = s \/ o = Other(s)
BY DEF Sides, Other

LEMMA TaskFields ==
  ASSUME NEW t \in Tasks
  PROVE  /\ t.at \in Places /\ t.written \in Nat /\ t.read \in Seq(Units) /\ t.fds \in Seq(Attached)
         /\ t.room \in 1 .. Largest /\ t.close \in BOOLEAN
BY DEF Tasks

LEMMA LargestNat == Largest \in Nat /\ ReadBytes \in 1 .. Largest /\ MaxHeaderBytes <= Largest
                    /\ MaxHeaderBytes \in Nat /\ SocketBytes \in Nat /\ MaxCalls \in Nat
                    /\ MaxBodyBytes \in Nat
<1>1. ReadBytes \in Nat \ {0} /\ SocketBytes \in Nat /\ MaxCalls \in Nat
  BY HyperAssumption DEF HyperAssumption
<1>2. MaxHeaderBytes \in Nat /\ MaxBodyBytes \in Nat
  BY LimitAssumption DEF LimitAssumption
<1> QED
  BY <1>1, <1>2 DEF Largest

LEMMA RestTyped == AtRest \in Tasks /\ [AtRest EXCEPT !.at = "gone"] \in Tasks
<1>1. <<>> \in Seq(Units) /\ <<>> \in Seq(Attached) /\ 0 \in Nat /\ FALSE \in BOOLEAN
  OBVIOUS
<1> QED
  BY <1>1, LargestNat DEF AtRest, Tasks, Places

(* The units of a message, and their descriptors.                          *)
LEMMA MessageUnits ==
  ASSUME sent \in [Sides -> Seq(Messages)], NEW s \in Sides, NEW i \in DOMAIN sent[s]
  PROVE  /\ sent[s][i] \in Messages /\ Total(sent[s][i]) \in Nat /\ Total(sent[s][i]) >= 1
         /\ UnitsOf(s, i) \in Seq(Units) /\ Len(UnitsOf(s, i)) = Total(sent[s][i])
         /\ Descriptors(s, i) \in Seq(Attached)
         /\ \A k \in 1 .. Total(sent[s][i]) :
              /\ UnitsOf(s, i)[k].of = i /\ UnitsOf(s, i)[k].at = k
              /\ k = 1 => UnitsOf(s, i)[k].fds = Descriptors(s, i)
              /\ k # 1 => UnitsOf(s, i)[k].fds = <<>>
<1>1. sent[s] \in Seq(Messages) /\ i \in Nat /\ sent[s][i] \in Messages
  OBVIOUS
<1> DEFINE n == Total(sent[s][i])
<1>2. n \in Nat /\ n >= 1
  <2>1. HeadSize(sent[s][i]) \in Nat /\ HeadSize(sent[s][i]) >= 1 /\ sent[s][i].body \in Nat
    BY <1>1, HeadNat, MessageFields
  <2> QED
    BY <2>1 DEF Total
<1>3. Descriptors(s, i) \in Seq(Attached)
  <2>1. sent[s][i].fds \in Seq(Slots)
    BY <1>1, MessageFields
  <2>2. Len(sent[s][i].fds) \in Nat
    BY <2>1
  <2>3. \A k \in 1 .. Len(sent[s][i].fds) : [of |-> i, nth |-> k] \in Attached
    BY <1>1 DEF Attached
  <2> QED
    BY <2>2, <2>3 DEF Descriptors
<1> HIDE DEF n
<1>4. UnitsOf(s, i) = [k \in 1 .. n |-> [of |-> i, at |-> k, fds |-> IF k = 1 THEN Descriptors(s, i) ELSE <<>>]]
  BY DEF UnitsOf, n
<1>5. \A k \in 1 .. n : [of |-> i, at |-> k, fds |-> IF k = 1 THEN Descriptors(s, i) ELSE <<>>] \in Units
  <2>1. <<>> \in Seq(Attached)
    OBVIOUS
  <2> QED
    BY <1>1, <1>3, <2>1 DEF Units
<1>6. UnitsOf(s, i) \in Seq(Units) /\ Len(UnitsOf(s, i)) = n
      /\ \A k \in 1 .. n : UnitsOf(s, i)[k] = [of |-> i, at |-> k, fds |-> IF k = 1 THEN Descriptors(s, i) ELSE <<>>]
  BY <1>2, <1>4, <1>5
<1>7. \A k \in 1 .. n :
        /\ UnitsOf(s, i)[k].of = i /\ UnitsOf(s, i)[k].at = k
        /\ k = 1 => UnitsOf(s, i)[k].fds = Descriptors(s, i)
        /\ k # 1 => UnitsOf(s, i)[k].fds = <<>>
  BY <1>6
<1> QED
  BY <1>1, <1>2, <1>3, <1>6, <1>7 DEF n

--------------------------------------------------------------------------------
(* What one read takes.                                                    *)
Taken(s, k) == SubSeq(inbox[s], 1, k)
ReadBy(s, k) == task[s].read \o Taken(s, k)
FdsBy(s, k) == IF task[s].read = <<>> THEN FdsIn(Taken(s, k)) ELSE task[s].fds
Got(s, k) == [task[s] EXCEPT !.read = ReadBy(s, k), !.fds = FdsBy(s, k)]

LEMMA FdsTyped ==
  ASSUME NEW units \in Seq(Units)
  PROVE  /\ FdsIn(units) \in Seq(Attached)
         /\ Carries(units) = {} => FdsIn(units) = <<>>
         /\ FdsIn(units) = <<>> => Carries(units) = {}
         /\ Cardinality(Carries(units)) <= 1 => Brought(units, FdsIn(units))
<1>1. CASE Carries(units) = {}
  BY <1>1 DEF FdsIn, Brought
<1>2. CASE Carries(units) # {}
  <2> DEFINE c == CHOOSE k \in Carries(units) : TRUE
  <2>1. c \in Carries(units)
    BY <1>2
  <2> HIDE DEF c
  <2>2. FdsIn(units) = units[c].fds
    BY <1>2 DEF FdsIn, c
  <2>3. c \in DOMAIN units /\ units[c].fds # <<>>
    BY <2>1 DEF Carries
  <2>4. units[c] \in Units
    BY <2>3
  <2>5. units[c].fds \in Seq(Attached)
    BY <2>4 DEF Units
  <2>6. ASSUME Cardinality(Carries(units)) <= 1 PROVE \A k \in Carries(units) : k = c
    <3>1. Len(units) \in Nat /\ Carries(units) \subseteq 1 .. Len(units)
      BY DEF Carries
    <3>2. IsFiniteSet(1 .. Len(units))
      BY <3>1, FS_Interval
    <3>3. IsFiniteSet(Carries(units)) /\ Cardinality(Carries(units)) \in Nat
      BY <3>1, <3>2, FS_Subset, FS_CardinalityType
    <3>4. Cardinality(Carries(units)) # 0
      BY <3>3, <1>2, FS_EmptySet
    <3>5. Cardinality(Carries(units)) = 1
      BY <2>6, <3>3, <3>4
    <3>6. PICK x : Carries(units) = {x}
      BY <3>3, <3>5, FS_Singleton
    <3> QED
      BY <2>1, <3>6
  <2> QED
    BY <1>2, <2>2, <2>3, <2>5, <2>6 DEF Brought
<1> QED
  BY <1>1, <1>2

(* The descriptors still come with what was read when more is read.        *)
LEMMA BroughtGrows ==
  ASSUME NEW r \in Seq(Units), NEW a \in Seq(Units), NEW fds, Brought(r, fds), FdsIn(a) = <<>>
  PROVE  Brought(r \o a, fds)
<1>1. Carries(a) = {}
  BY FdsTyped
<1>2. Carries(r \o a) = Carries(r) /\ \A k \in Carries(r) : (r \o a)[k] = r[k]
  <2>1. Len(r) \in Nat /\ Len(a) \in Nat /\ DOMAIN r = 1 .. Len(r) /\ DOMAIN a = 1 .. Len(a)
    OBVIOUS
  <2>2. /\ DOMAIN (r \o a) = 1 .. Len(r) + Len(a)
        /\ \A i \in 1 .. Len(r) : (r \o a)[i] = r[i] /\ i \in 1 .. Len(r) + Len(a)
        /\ \A i \in 1 .. Len(r) + Len(a) : i \notin 1 .. Len(r) =>
             i - Len(r) \in DOMAIN a /\ (r \o a)[i] = a[i - Len(r)]
    BY <2>1, ConcatProperties
  <2>3. \A i \in DOMAIN a : ~(a[i].fds # <<>>)
    BY <1>1 DEF Carries
  <2> QED
    BY <2>1, <2>2, <2>3 DEF Carries
<1> QED
  BY <1>2 DEF Brought

LEMMA LengthOf ==
  ASSUME NEW w \in Messages, NEW n \in Nat, NEW fds, ~HeadRefused(w, n, fds)
  PROVE  IncomingLength(w) \in Int /\ n <= IncomingLength(w) /\ IncomingLength(w) <= MaxBodyBytes
         /\ IncomingLengths(w) # {}
<1>1. PICK l \in IncomingLengths(w) : ~(l > MaxBodyBytes \/ n > l)
  BY DEF HeadRefused
<1>2. ~(Len(w.length) > 1)
  BY DEF HeadRefused, InspectRefuses
<1>3. w.length \in Seq(Int) /\ Len(w.length) \in Nat
  BY MessageFields
<1>4. \A x, y \in Values(w.length) : x = y /\ x \in Int
  <2>1. DOMAIN w.length = 1 .. Len(w.length)
    BY <1>3
  <2>2. \A i, j \in DOMAIN w.length : i = j
    BY <1>2, <1>3, <2>1
  <2> QED
    BY <1>3, <2>2 DEF Values
<1>5. \A x, y \in IncomingLengths(w) : x = y /\ x \in Int
  <2>1. CASE w.status = "request"
    BY <1>4, <2>1 DEF IncomingLengths
  <2>2. CASE w.status \in {"204", "205", "304"}
    BY <2>2 DEF IncomingLengths
  <2>3. CASE w.status = "200"
    BY <1>4, <2>3 DEF IncomingLengths
  <2> QED
    BY <2>1, <2>2, <2>3, MessageFields
<1>6. IncomingLength(w) = l /\ l \in Int
  BY <1>5 DEF IncomingLength
<1>7. MaxBodyBytes \in Nat
  BY LargestNat, SMTT(30)
<1> QED
  BY <1>1, <1>6, <1>7

(* A read of k units, in a head or in a body: refused, for one of four     *)
(* reasons, or taken, and then the message is complete or it is not.       *)
Objects(s, k) ==
  LET read == ReadBy(s, k)  w == HeadOf(s, read)
  IN \/ task[s].read # <<>> /\ FdsIn(Taken(s, k)) # <<>>
     \/ task[s].at = "head" /\ Garbled(read)
     \/ Parsed(s, read) /\ HeadRefused(w, Len(read) - HeadSize(w), Unbound(FdsBy(s, k)))
     \/ task[s].at = "head" /\ ~Parsed(s, read) /\ Len(read) >= MaxHeaderBytes

Wanted(s, read) == HeadSize(HeadOf(s, read)) + IncomingLength(HeadOf(s, read))

Goes(s, k, t) ==
  /\ task' = [task EXCEPT ![s] = t]
  /\ inbox' = [inbox EXCEPT ![s] = Left(s, k)]
  /\ UNCHANGED <<raw, gone, reset, sent, served, outcomes>>

(* The head is there: accepted, and so much of the body came.              *)
Headed(s, read) ==
  /\ ~Garbled(read) /\ HeadSize(HeadOf(s, read)) <= Len(read) /\ Len(read) <= Wanted(s, read)
  /\ IncomingLengths(HeadOf(s, read)) # {}
  /\ IncomingLength(HeadOf(s, read)) \in Int /\ IncomingLength(HeadOf(s, read)) <= MaxBodyBytes

TakesUnits(s, k) ==
  LET read == ReadBy(s, k)
  IN /\ task[s].read = <<>> \/ FdsIn(Taken(s, k)) = <<>>
     /\ \/ /\ Headed(s, read) /\ Len(read) = Wanted(s, read)
           /\ Complete(s, Got(s, k), HeadOf(s, read), Left(s, k))
        \/ /\ Headed(s, read) /\ Len(read) < Wanted(s, read)
           /\ Goes(s, k, [Got(s, k) EXCEPT !.at = "body"])
        \/ /\ task[s].at = "head" /\ ~Garbled(read) /\ ~Parsed(s, read) /\ Len(read) < MaxHeaderBytes
           /\ Goes(s, k, [Got(s, k) EXCEPT !.room = IF Len(read) = @ THEN Grown(@) ELSE @])

LEMMA ReadFields ==
  ASSUME TypeInv, SoundInv, NEW s \in Sides, task[s].at \in {"head", "body"},
         NEW k \in 1 .. Len(inbox[s])
  PROVE  /\ task[s] \in Tasks /\ inbox[s] \in Seq(Units) /\ sent[Other(s)] \in Seq(Messages)
         /\ Taken(s, k) \in Seq(Units) /\ Len(Taken(s, k)) = k
         /\ Left(s, k) \in Seq(Units) /\ Len(Left(s, k)) = Len(inbox[s]) - k
         /\ ReadBy(s, k) \in Seq(Units) /\ Len(ReadBy(s, k)) = Len(task[s].read) + k
         /\ ReadBy(s, k) \o Left(s, k) = task[s].read \o inbox[s]
         /\ \A i \in 1 .. Len(ReadBy(s, k)) : ReadBy(s, k)[i].of \in DOMAIN sent[Other(s)]
         /\ \A i \in 1 .. Len(Left(s, k)) : Left(s, k)[i].of \in DOMAIN sent[Other(s)]
         /\ ReadBy(s, k) # <<>> /\ HeadOf(s, ReadBy(s, k)) \in Messages
         /\ task[s].read # <<>> => ReadBy(s, k)[1] = task[s].read[1]
         /\ task[s].read = <<>> => ReadBy(s, k) = Taken(s, k)
         /\ FdsBy(s, k) \in Seq(Attached) /\ Got(s, k) \in Tasks
         /\ Got(s, k).read = ReadBy(s, k) /\ Got(s, k).fds = FdsBy(s, k)
         /\ Got(s, k).at = task[s].at /\ Got(s, k).room = task[s].room /\ Got(s, k).close = task[s].close
<1> DEFINE r == task[s].read
           q == inbox[s]
           a == Taken(s, k)
           b == Left(s, k)
<1>1. /\ task[s] \in Tasks /\ q \in Seq(Units) /\ sent[Other(s)] \in Seq(Messages)
  BY SidesAre DEF TypeInv
<1>2. r \in Seq(Units) /\ task[s].fds \in Seq(Attached)
  BY <1>1, TaskFields
<1>3. Sound(task[s], q, sent[Other(s)], sent[s])
  BY DEF SoundInv
<1>4. /\ a \in Seq(Units) /\ b \in Seq(Units) /\ Len(a) = k /\ Len(b) = Len(q) - k
      /\ r \o a \in Seq(Units) /\ Len(r \o a) = Len(r) + k
  BY <1>1, <1>2, Cut DEF Taken, Left
<1>4a. (r \o a) \o b = r \o q
  BY <1>1, <1>2, CutJoins, Zenon DEF Taken, Left
<1>5. Len(r) \in Nat /\ k \in Nat /\ k >= 1 /\ Len(q) \in Nat /\ k <= Len(q)
  BY <1>1, <1>2
<1>6. \A i \in 1 .. k : a[i] = q[i]
  BY <1>1, <1>2, Cut DEF Taken, Left
<1>7. \A i \in 1 .. Len(q) - k : b[i] = q[k + i]
  <2>1. k + 1 \in Int /\ Len(q) \in Int /\ \A i \in k + 1 .. Len(q) : q[i] \in Units
    BY <1>1, <1>5
  <2>2. \A i \in 1 .. Len(q) - (k + 1) + 1 : SubSeq(q, k + 1, Len(q))[i] = q[(k + 1) + i - 1]
    BY <2>1, SubSeqProperties
  <2>3. Len(q) - (k + 1) + 1 = Len(q) - k /\ \A i \in 1 .. Len(q) - k : (k + 1) + i - 1 = k + i
    BY <1>5
  <2> QED
    BY <2>2, <2>3 DEF Left
<1>8. /\ \A i \in 1 .. Len(q) : q[i].of \in DOMAIN sent[Other(s)]
      /\ \A i \in 1 .. Len(r) : r[i].of \in DOMAIN sent[Other(s)]
  BY <1>1, <1>2, <1>3 DEF Sound
<1>9. ReadBy(s, k) = r \o a
  BY DEF ReadBy
<1> HIDE DEF a, b
<1>10. \A i \in 1 .. Len(r) + k : (r \o a)[i] = IF i <= Len(r) THEN r[i] ELSE a[i - Len(r)]
  BY <1>2, <1>4, ConcatProperties
<1>11. ASSUME NEW i \in 1 .. Len(r) + k PROVE (r \o a)[i].of \in DOMAIN sent[Other(s)]
  <2>1. CASE i <= Len(r)
    <3>1. i \in 1 .. Len(r)
      BY <1>5, <2>1
    <3> QED
      BY <1>8, <1>10, <2>1, <3>1
  <2>2. CASE ~(i <= Len(r))
    <3>1. i - Len(r) \in 1 .. k /\ i - Len(r) \in 1 .. Len(q)
      BY <1>5, <2>2
    <3> QED
      BY <1>6, <1>8, <1>10, <2>2, <3>1
  <2> QED
    BY <2>1, <2>2
<1>12. \A i \in 1 .. Len(b) : b[i].of \in DOMAIN sent[Other(s)]
  <2>1. \A i \in 1 .. Len(q) - k : k + i \in 1 .. Len(q)
    BY <1>5
  <2> QED
    BY <1>4, <1>7, <1>8, <2>1
<1>13. r \o a # <<>> /\ (r \o a)[1].of \in DOMAIN sent[Other(s)] /\ 1 \in 1 .. Len(r) + k
  <2>1. 1 \in 1 .. Len(r) + k
    BY <1>5
  <2> QED
    BY <1>4, <1>5, <1>11, <2>1
<1>14. HeadOf(s, r \o a) \in Messages
  BY <1>1, <1>13 DEF HeadOf, Peer
<1>15. r # <<>> => (r \o a)[1] = r[1]
  <2>1. r # <<>> => 1 <= Len(r)
    BY <1>2, <1>5
  <2> QED
    BY <1>10, <1>13, <2>1
<1>16. r = <<>> => r \o a = a
  BY <1>4, ConcatEmptySeq
<1>17. FdsBy(s, k) \in Seq(Attached)
  BY <1>2, <1>4, FdsTyped DEF FdsBy, a
<1>18. /\ Got(s, k) \in Tasks /\ Got(s, k).read = r \o a /\ Got(s, k).fds = FdsBy(s, k)
       /\ Got(s, k).at = task[s].at /\ Got(s, k).room = task[s].room /\ Got(s, k).close = task[s].close
  BY <1>1, <1>4, <1>9, <1>17 DEF Got, Tasks
<1>19. \A i \in 1 .. Len(r \o a) : (r \o a)[i].of \in DOMAIN sent[Other(s)]
  BY <1>4, <1>11
<1> QED
  BY <1>1, <1>4, <1>4a, <1>9, <1>12, <1>13, <1>14, <1>15, <1>16, <1>17, <1>18, <1>19 DEF a, b

ReadsUnits(s, k) ==
  /\ Cardinality(Carries(Taken(s, k))) <= 1
  /\ task[s].at = "head" => Len(ReadBy(s, k)) <= task[s].room
  /\ \/ Objects(s, k) /\ Break(s, "refused", Left(s, k))
     \/ TakesUnits(s, k)

LEMMA ReadHeadIs ==
  ASSUME TypeInv, SoundInv, NEW s \in Sides, ReadHead(s)
  PROVE  \E k \in 1 .. Len(inbox[s]) : ReadsUnits(s, k)
<1>1. task[s].at = "head"
  BY DEF ReadHead
<1>2. PICK k \in Reads(s, task[s].room - Len(task[s].read)) :
        LET read == ReadBy(s, k)
            w == HeadOf(s, read)
        IN \/ Objects(s, k) /\ Break(s, "refused", Left(s, k))
           \/ /\ task[s].read = <<>> \/ FdsIn(Taken(s, k)) = <<>>
              /\ Parsed(s, read)
              /\ ~HeadRefused(w, Len(read) - HeadSize(w), Unbound(FdsBy(s, k)))
              /\ IF Len(read) = HeadSize(w) + IncomingLength(w)
                 THEN Complete(s, Got(s, k), w, Left(s, k))
                 ELSE Goes(s, k, [Got(s, k) EXCEPT !.at = "body"])
           \/ /\ task[s].read = <<>> \/ FdsIn(Taken(s, k)) = <<>>
              /\ ~Garbled(read) /\ ~Parsed(s, read) /\ Len(read) < MaxHeaderBytes
              /\ Goes(s, k, [Got(s, k) EXCEPT !.room = IF Len(read) = @ THEN Grown(@) ELSE @])
  BY <1>1, Zenon DEF ReadHead, Objects, Goes, ReadBy, Taken, FdsBy, Got
<1>3. k \in 1 .. Len(inbox[s]) /\ k <= task[s].room - Len(task[s].read)
      /\ Cardinality(Carries(Taken(s, k))) <= 1
  BY DEF Reads, Taken
<1> DEFINE read == ReadBy(s, k)
           w == HeadOf(s, read)
<1>4. /\ task[s] \in Tasks /\ read \in Seq(Units) /\ Len(read) = Len(task[s].read) + k
      /\ w \in Messages
  BY <1>1, <1>3, ReadFields
<1>5. /\ Len(task[s].read) \in Nat /\ task[s].room \in Nat /\ k \in Nat /\ Len(read) \in Nat
      /\ HeadSize(w) \in Nat
  BY <1>3, <1>4, TaskFields, HeadNat, LargestNat, SMTT(30)
<1>6. Len(read) <= task[s].room
  BY <1>3, <1>4, <1>5
<1>7. CASE Objects(s, k) /\ Break(s, "refused", Left(s, k))
  BY <1>3, <1>6, <1>7 DEF ReadsUnits
<1>8. CASE /\ task[s].read = <<>> \/ FdsIn(Taken(s, k)) = <<>>
           /\ Parsed(s, read)
           /\ ~HeadRefused(w, Len(read) - HeadSize(w), Unbound(FdsBy(s, k)))
           /\ IF Len(read) = HeadSize(w) + IncomingLength(w)
              THEN Complete(s, Got(s, k), w, Left(s, k))
              ELSE Goes(s, k, [Got(s, k) EXCEPT !.at = "body"])
  <2>1. ~Garbled(read) /\ Len(read) >= HeadSize(w)
    BY <1>8 DEF Parsed
  <2> DEFINE n == Len(read) - HeadSize(w)
  <2>2. n \in Nat
    BY <1>5, <2>1
  <2>3. ~HeadRefused(w, n, Unbound(FdsBy(s, k)))
    BY <1>8
  <2> HIDE DEF n
  <2>4. IncomingLength(w) \in Int /\ n <= IncomingLength(w) /\ IncomingLength(w) <= MaxBodyBytes
        /\ IncomingLengths(w) # {}
    BY <1>4, <2>2, <2>3, LengthOf
  <2>5. HeadSize(w) <= Len(read) /\ Len(read) <= HeadSize(w) + IncomingLength(w)
    BY <1>5, <2>1, <2>4 DEF n
  <2>6. Headed(s, read)
    BY <2>1, <2>4, <2>5 DEF Headed, Wanted
  <2>7. Len(read) # HeadSize(w) + IncomingLength(w) => Len(read) < HeadSize(w) + IncomingLength(w)
    BY <1>5, <2>4, <2>5
  <2>8. TakesUnits(s, k)
    BY <1>8, <2>6, <2>7 DEF TakesUnits, Wanted
  <2> QED
    BY <1>3, <1>6, <2>8 DEF ReadsUnits
<1>9. CASE /\ task[s].read = <<>> \/ FdsIn(Taken(s, k)) = <<>>
           /\ ~Garbled(read) /\ ~Parsed(s, read) /\ Len(read) < MaxHeaderBytes
           /\ Goes(s, k, [Got(s, k) EXCEPT !.room = IF Len(read) = @ THEN Grown(@) ELSE @])
  <2>1. TakesUnits(s, k)
    BY <1>1, <1>9 DEF TakesUnits
  <2> QED
    BY <1>3, <1>6, <2>1 DEF ReadsUnits
<1> QED
  BY <1>2, <1>7, <1>8, <1>9

LEMMA ReadBodyIs ==
  ASSUME TypeInv, SoundInv, NEW s \in Sides, ReadBody(s)
  PROVE  \E k \in 1 .. Len(inbox[s]) : ReadsUnits(s, k)
<1> DEFINE t == task[s]
           whole == HeadSize(HeadOf(s, t.read)) + IncomingLength(HeadOf(s, t.read))
<1>1. t.at = "body" /\ t.read # <<>> /\ Began(t.read, Peer(s))
  BY DEF ReadBody, SoundInv, Sound, Began, Peer
<1>2. PICK k \in Reads(s, whole - Len(t.read)) :
        LET got == [t EXCEPT !.read = @ \o Taken(s, k)]
        IN \/ FdsIn(Taken(s, k)) # <<>> /\ Break(s, "refused", Left(s, k))
           \/ /\ FdsIn(Taken(s, k)) = <<>>
              /\ IF Len(got.read) = whole
                 THEN Complete(s, got, HeadOf(s, t.read), Left(s, k))
                 ELSE Goes(s, k, got)
  BY <1>1, Zenon DEF ReadBody, Goes, Taken
<1>3. k \in 1 .. Len(inbox[s]) /\ k <= whole - Len(t.read)
      /\ Cardinality(Carries(Taken(s, k))) <= 1
  BY DEF Reads, Taken
<1> DEFINE read == ReadBy(s, k)
           w == HeadOf(s, read)
<1>4. /\ t \in Tasks /\ read \in Seq(Units) /\ Len(read) = Len(t.read) + k
      /\ w \in Messages /\ read[1] = t.read[1] /\ Got(s, k) \in Tasks
  BY <1>1, <1>3, ReadFields
<1>5. w = HeadOf(s, t.read)
  BY <1>4 DEF HeadOf
<1>6. /\ ~Garbled(read) /\ HeadSize(w) <= Len(t.read) /\ Len(t.read) < HeadSize(w) + IncomingLength(w)
      /\ IncomingLength(w) <= MaxBodyBytes /\ IncomingLengths(w) # {}
  BY <1>1, <1>4, <1>5 DEF Began, Garbled, HeadOf, Peer
<1>7. /\ Len(t.read) \in Nat /\ k \in Nat /\ Len(read) \in Nat /\ HeadSize(w) \in Nat
  BY <1>3, <1>4, TaskFields, HeadNat
<1>8. IncomingLength(w) \in Int
  BY <1>1, <1>5 DEF Began, HeadOf
<1>9. [t EXCEPT !.read = @ \o Taken(s, k)] = Got(s, k) /\ [Got(s, k) EXCEPT !.at = "body"] = Got(s, k)
  <2>1. FdsBy(s, k) = t.fds
    BY <1>1 DEF FdsBy
  <2> QED
    BY <1>1, <1>4, <2>1 DEF Got, ReadBy, Tasks
<1>10. Got(s, k).read = read
  BY <1>1, <1>3, ReadFields
<1>11. Len(read) <= whole /\ HeadSize(w) <= Len(read)
  BY <1>3, <1>4, <1>5, <1>6, <1>7, <1>8, SMTT(30)
<1>12. CASE FdsIn(Taken(s, k)) # <<>> /\ Break(s, "refused", Left(s, k))
  BY <1>1, <1>3, <1>12 DEF ReadsUnits, Objects
<1>13. CASE /\ FdsIn(Taken(s, k)) = <<>>
            /\ IF Len(read) = whole
               THEN Complete(s, Got(s, k), w, Left(s, k))
               ELSE Goes(s, k, [Got(s, k) EXCEPT !.at = "body"])
  <2>1. Headed(s, read) /\ whole = Wanted(s, read)
    BY <1>5, <1>6, <1>8, <1>11 DEF Headed, Wanted
  <2>2. Len(read) # whole => Len(read) < whole
    BY <1>5, <1>7, <1>8, <1>11
  <2>3. TakesUnits(s, k)
    BY <1>13, <2>1, <2>2 DEF TakesUnits
  <2> QED
    BY <1>1, <1>3, <2>3 DEF ReadsUnits
<1> QED
  BY <1>2, <1>5, <1>9, <1>10, <1>12, <1>13

LEMMA ReadIs ==
  ASSUME TypeInv, SoundInv, NEW s \in Sides, ReadHead(s) \/ ReadBody(s)
  PROVE  task[s].at \in {"head", "body"} /\ \E k \in 1 .. Len(inbox[s]) : ReadsUnits(s, k)
<1>1. task[s].at \in {"head", "body"}
  BY DEF ReadHead, ReadBody
<1> QED
  BY <1>1, ReadHeadIs, ReadBodyIs

--------------------------------------------------------------------------------
(* A socket is dropped.                                                    *)
LEMMA SoundAtRest ==
  ASSUME NEW t, t.read = <<>>, t.at \notin {"head", "body", "send"}, NEW msgs, NEW own
  PROVE  Sound(t, <<>>, msgs, own)
<1>1. Len(<<>>) <= SocketBytes /\ DOMAIN <<>> = {}
  BY LargestNat
<1> QED
  BY <1>1 DEF Sound

LEMMA SoundGrows ==
  ASSUME NEW t, NEW q \in Seq(Units), NEW msgs \in Seq(Messages), NEW w \in Messages,
         t.read \in Seq(Units), NEW own, Sound(t, q, msgs, own)
  PROVE  Sound(t, q, Append(msgs, w), own)
<1>1. \A i \in DOMAIN msgs : i \in DOMAIN Append(msgs, w) /\ Append(msgs, w)[i] = msgs[i]
  OBVIOUS
<1>2. t.at = "body" => Began(t.read, Append(msgs, w))
  <2> HAVE t.at = "body"
  <2>1. t.read # <<>> /\ Began(t.read, msgs)
    BY DEF Sound, Began
  <2>2. 1 \in DOMAIN t.read
    BY <2>1
  <2>3. t.read[1].of \in DOMAIN msgs
    BY <2>2 DEF Sound
  <2>4. Append(msgs, w)[t.read[1].of] = msgs[t.read[1].of]
    BY <1>1, <2>3
  <2> QED
    BY <2>1, <2>4 DEF Began
<1> QED
  BY <1>1, <1>2 DEF Sound

LEMMA BreakKeeps ==
  ASSUME SideInv, NEW s \in Sides, NEW why \in Kinds, NEW unread, Break(s, why, unread),
         s = "server" => why \in {"ended", "failed", "refused"},
         s = "client" /\ ~IsRaw => Len(outcomes) < MaxCalls
  PROVE  SideInv'
<1> DEFINE t == [AtRest EXCEPT !.at = IF s = "client" THEN "gone" ELSE why]
           e == [kind |-> why, read |-> <<>>, fds |-> <<>>]
<1>1. /\ gone' = gone \cup {s} /\ inbox' = [inbox EXCEPT ![s] = <<>>]
      /\ task' = [task EXCEPT ![s] = t]
      /\ reset' \in {reset, reset \cup {Other(s)}}
      /\ outcomes' \in {outcomes, Append(outcomes, e)}
      /\ ~(s = "client" /\ ~IsRaw) => outcomes' = outcomes
      /\ UNCHANGED <<raw, sent, served>>
  BY DEF Break, DropSocket
<1>2. t \in Tasks /\ t.read = <<>> /\ t.at = IF s = "client" THEN "gone" ELSE why
  <2>1. AtRest.read = <<>> /\ AtRest \in Tasks
    BY RestTyped DEF AtRest
  <2>2. (IF s = "client" THEN "gone" ELSE why) \in Places
    BY SidesAre DEF Places, Sides
  <2> QED
    BY <2>1, <2>2 DEF Tasks
<1>3. e \in Ends /\ <<>> \in Seq(Units)
  <2>1. <<>> \in Seq(Units) /\ <<>> \in Seq(Attached)
    OBVIOUS
  <2> QED
    BY <2>1 DEF Ends
<1> HIDE DEF t, e
<1>4. TypeInv'
  <2>1. task' \in [Sides -> Tasks] /\ inbox' \in [Sides -> Seq(Units)]
    BY <1>1, <1>2, <1>3 DEF SideInv, TypeInv
  <2>2. gone' \in SUBSET Sides /\ reset' \in SUBSET Sides
    BY <1>1, SidesAre DEF SideInv, TypeInv
  <2>3. outcomes' \in Seq(Ends)
    <3>1. outcomes \in Seq(Ends)
      BY DEF SideInv, TypeInv
    <3>2. Append(outcomes, e) \in Seq(Ends)
      BY <1>3, <3>1
    <3> QED
      BY <1>1, <3>1, <3>2
  <2> QED
    BY <1>1, <2>1, <2>2, <2>3 DEF SideInv, TypeInv
<1>5. SoundInv'
  <2> SUFFICES ASSUME NEW o \in Sides PROVE Sound(task'[o], inbox'[o], sent'[Other(o)], sent'[o])
    BY DEF SoundInv
  <2>1. CASE o = s
    <3>1. task'[o] = t /\ inbox'[o] = <<>>
      BY <1>1, <2>1 DEF SideInv, TypeInv
    <3>2. t.at \notin {"head", "body", "send"}
      BY <1>2, SidesAre DEF Sides
    <3> QED
      BY <1>2, <3>1, <3>2, SoundAtRest
  <2>2. CASE o # s
    <3>1. task'[o] = task[o] /\ inbox'[o] = inbox[o] /\ sent' = sent
      BY <1>1, <2>2 DEF SideInv, TypeInv
    <3> QED
      BY <3>1 DEF SideInv, SoundInv
  <2> QED
    BY <2>1, <2>2
<1>6. CallInv'
  <2>1. Len(outcomes') <= MaxCalls
    <3>1. outcomes \in Seq(Ends) /\ Len(outcomes) \in Nat /\ MaxCalls \in Nat /\ Len(outcomes) <= MaxCalls
      BY LargestNat DEF SideInv, TypeInv, CallInv
    <3>2. Len(Append(outcomes, e)) = Len(outcomes) + 1
      BY <1>3, <3>1
    <3> QED
      BY <1>1, <3>1, <3>2
  <2>2. CASE s = "client"
    <3>1. task'["client"].at = "gone" /\ task'["server"] = task["server"]
      BY <1>1, <1>2, <2>2, SidesAre DEF SideInv, TypeInv
    <3> QED
      BY <1>1, <2>1, <3>1 DEF SideInv, CallInv, Busy, IsRaw
  <2>3. CASE s = "server"
    <3>1. task'["server"].at = why /\ task'["client"] = task["client"] /\ outcomes' = outcomes
      BY <1>1, <1>2, <2>3, SidesAre DEF SideInv, TypeInv
    <3> QED
      BY <1>1, <2>1, <2>3, <3>1 DEF SideInv, CallInv, Busy, IsRaw
  <2> QED
    BY <2>2, <2>3, SidesAre DEF Sides
<1> QED
  BY <1>4, <1>5, <1>6 DEF SideInv

(* A message is complete, or more of it came.                              *)
LEMMA CompleteKeeps ==
  ASSUME SideInv, NEW s \in Sides, task[s].at \in {"head", "body"}, NEW t \in Tasks, NEW w,
         NEW unread \in Seq(Units), Len(unread) <= SocketBytes,
         \A i \in DOMAIN unread : unread[i].of \in DOMAIN sent[Other(s)],
         \A i \in DOMAIN t.read : t.read[i].of \in DOMAIN sent[Other(s)],
         Complete(s, t, w, unread)
  PROVE  SideInv'
<1> DEFINE d == [read |-> t.read, fds |-> t.fds]
           e == [kind |-> "answered", read |-> t.read, fds |-> t.fds]
           close == Closes(w)
<1>1. d \in Deliveries /\ e \in Ends /\ close \in BOOLEAN
  BY TaskFields DEF Deliveries, Ends, Kinds, Closes
<1> HIDE DEF d, e, close
<1>2. CASE s = "server"
  <2> DEFINE x == [t EXCEPT !.at = "service", !.close = close]
  <2>1. /\ served' = Append(served, d) /\ task' = [task EXCEPT ![s] = x]
        /\ inbox' = [inbox EXCEPT ![s] = unread]
        /\ UNCHANGED <<gone, reset, sent, outcomes, raw>>
    BY <1>2 DEF Complete, d, close
  <2>2. x \in Tasks /\ x.at = "service" /\ x.read = t.read
    BY <1>1 DEF Tasks, Places
  <2> HIDE DEF x
  <2>3. TypeInv'
    <3>1. task' \in [Sides -> Tasks] /\ inbox' \in [Sides -> Seq(Units)] /\ served' \in Seq(Deliveries)
      BY <1>1, <2>1, <2>2 DEF SideInv, TypeInv
    <3> QED
      BY <2>1, <3>1 DEF SideInv, TypeInv
  <2>4. Sound(x, unread, sent[Other(s)], sent[s])
    BY <2>2 DEF Sound
  <2>5. SoundInv'
    <3> SUFFICES ASSUME NEW o \in Sides PROVE Sound(task'[o], inbox'[o], sent'[Other(o)], sent'[o])
      BY DEF SoundInv
    <3>1. CASE o = s
      BY <2>1, <2>4, <3>1 DEF SideInv, TypeInv
    <3>2. CASE o # s
      BY <2>1, <3>2 DEF SideInv, TypeInv, SoundInv
    <3> QED
      BY <3>1, <3>2
  <2>6. CallInv'
    <3>1. task'["server"].at = "service" /\ task'["client"] = task["client"]
      BY <1>2, <2>1, <2>2, SidesAre DEF SideInv, TypeInv
    <3> QED
      BY <2>1, <3>1 DEF SideInv, CallInv, IsRaw
  <2> QED
    BY <2>3, <2>5, <2>6 DEF SideInv
<1>3. CASE s = "client"
  <2>1. PICK x \in {[AtRest EXCEPT !.at = "gone"], [AtRest EXCEPT !.room = t.room]}, u \in {<<>>, unread} :
        /\ task' = [task EXCEPT ![s] = x] /\ inbox' = [inbox EXCEPT ![s] = u]
    BY <1>3 DEF Complete, DropSocket
  <2>2. /\ outcomes' = Append(outcomes, e) /\ UNCHANGED <<sent, served, raw>>
        /\ gone' \in {gone, gone \cup {s}} /\ reset' \in {reset, reset \cup {Other(s)}}
    BY <1>3 DEF Complete, DropSocket, e
  <2>3. x \in Tasks /\ x.at \in {"gone", "idle"} /\ x.read = <<>>
    <3>1. t.room \in 1 .. Largest
      BY TaskFields
    <3> QED
      BY <2>1, <3>1, RestTyped DEF AtRest, Tasks
  <2>4. u \in Seq(Units) /\ Len(u) <= SocketBytes /\ \A i \in DOMAIN u : u[i].of \in DOMAIN sent[Other(s)]
    <3>1. <<>> \in Seq(Units) /\ Len(<<>>) = 0 /\ DOMAIN <<>> = {} /\ SocketBytes \in Nat
      BY LargestNat
    <3>2. CASE u = <<>>
      BY <3>1, <3>2
    <3>3. CASE u = unread
      BY <3>3
    <3> QED
      BY <2>1, <3>2, <3>3
  <2>5. TypeInv'
    <3>1. task' \in [Sides -> Tasks] /\ inbox' \in [Sides -> Seq(Units)] /\ outcomes' \in Seq(Ends)
      BY <1>1, <2>1, <2>2, <2>3, <2>4 DEF SideInv, TypeInv
    <3>2. gone' \in SUBSET Sides /\ reset' \in SUBSET Sides
      BY <2>2, SidesAre DEF SideInv, TypeInv
    <3> QED
      BY <2>2, <3>1, <3>2 DEF SideInv, TypeInv
  <2>6. Sound(x, u, sent[Other(s)], sent[s])
    BY <2>3, <2>4 DEF Sound
  <2>7. SoundInv'
    <3> SUFFICES ASSUME NEW o \in Sides PROVE Sound(task'[o], inbox'[o], sent'[Other(o)], sent'[o])
      BY DEF SoundInv
    <3>1. CASE o = s
      BY <2>1, <2>2, <2>6, <3>1 DEF SideInv, TypeInv
    <3>2. CASE o # s
      BY <2>1, <2>2, <3>2 DEF SideInv, TypeInv, SoundInv
    <3> QED
      BY <3>1, <3>2
  <2>8. CallInv'
    <3>1. task'["client"] = x /\ task'["server"] = task["server"]
      BY <1>3, <2>1, SidesAre DEF SideInv, TypeInv
    <3>2. ~IsRaw /\ Len(outcomes) < MaxCalls
      BY <1>3 DEF SideInv, CallInv, Busy
    <3>3. Len(outcomes') <= MaxCalls
      <4>1. outcomes \in Seq(Ends) /\ Len(outcomes) \in Nat /\ MaxCalls \in Nat
        BY LargestNat DEF SideInv, TypeInv
      <4>2. Len(Append(outcomes, e)) = Len(outcomes) + 1
        BY <1>1, <4>1
      <4> QED
        BY <2>2, <3>2, <4>1, <4>2
    <3> QED
      BY <2>2, <2>3, <3>1, <3>2, <3>3 DEF SideInv, CallInv, IsRaw, Busy
  <2> QED
    BY <2>5, <2>7, <2>8 DEF SideInv
<1> QED
  BY <1>2, <1>3 DEF Sides

LEMMA GoesKeeps ==
  ASSUME SideInv, NEW s \in Sides, task[s].at \in {"head", "body"}, NEW k \in 1 .. Len(inbox[s]),
         NEW t \in Tasks, t.at \in {"head", "body"}, Goes(s, k, t),
         Sound(t, Left(s, k), sent[Other(s)], sent[s]), Left(s, k) \in Seq(Units)
  PROVE  SideInv'
<1>1. /\ task' = [task EXCEPT ![s] = t] /\ inbox' = [inbox EXCEPT ![s] = Left(s, k)]
      /\ UNCHANGED <<raw, gone, reset, sent, served, outcomes>>
  BY DEF Goes
<1>2. TypeInv'
  <2>1. task' \in [Sides -> Tasks] /\ inbox' \in [Sides -> Seq(Units)]
    BY <1>1 DEF SideInv, TypeInv
  <2> QED
    BY <1>1, <2>1 DEF SideInv, TypeInv
<1>3. SoundInv'
  <2> SUFFICES ASSUME NEW o \in Sides PROVE Sound(task'[o], inbox'[o], sent'[Other(o)], sent'[o])
    BY DEF SoundInv
  <2>1. CASE o = s
    BY <1>1, <2>1 DEF SideInv, TypeInv
  <2>2. CASE o # s
    BY <1>1, <2>2 DEF SideInv, TypeInv, SoundInv
  <2> QED
    BY <2>1, <2>2
<1>4. CallInv'
  <2>1. \A o \in Sides : \/ task'[o].at = task[o].at
                         \/ task[o].at \in {"head", "body"} /\ task'[o].at \in {"head", "body"}
    <3> TAKE o \in Sides
    <3>1. task'[o] = IF o = s THEN t ELSE task[o]
      BY <1>1 DEF SideInv, TypeInv
    <3>2. CASE o = s
      BY <3>1, <3>2
    <3>3. CASE o # s
      BY <3>1, <3>3
    <3> QED
      BY <3>2, <3>3
  <2>2. /\ task["client"].at \in {"head", "body"} => Len(outcomes) < MaxCalls /\ ~IsRaw
    BY DEF SideInv, CallInv, Busy
  <2> QED
    BY <1>1, <2>1, <2>2, SidesAre DEF SideInv, CallInv, IsRaw, Busy
<1> QED
  BY <1>2, <1>3, <1>4 DEF SideInv

LEMMA RoomGrows ==
  ASSUME NEW n \in Nat, n >= 1, NEW r \in 1 .. Largest, n <= r, n < MaxHeaderBytes
  PROVE  (IF n = r THEN Grown(r) ELSE r) \in 1 .. Largest /\ n < (IF n = r THEN Grown(r) ELSE r)
BY LargestNat DEF Grown

(* The descriptors kept with a read came with its units.                   *)
LEMMA Brings ==
  ASSUME TypeInv, SoundInv, NEW s \in Sides, task[s].at \in {"head", "body"},
         NEW k \in 1 .. Len(inbox[s]), ReadsUnits(s, k),
         task[s].read = <<>> \/ FdsIn(Taken(s, k)) = <<>>
  PROVE  Brought(ReadBy(s, k), FdsBy(s, k))
<1> DEFINE read == ReadBy(s, k)
<1>1. Taken(s, k) \in Seq(Units) /\ task[s].read \in Seq(Units)
  BY ReadFields, TaskFields
<1>2. CASE task[s].read = <<>>
  <2>1. read = Taken(s, k) /\ FdsBy(s, k) = FdsIn(Taken(s, k))
    BY <1>2, ReadFields DEF FdsBy
  <2>2. Cardinality(Carries(Taken(s, k))) <= 1
    BY DEF ReadsUnits
  <2>3. Brought(Taken(s, k), FdsIn(Taken(s, k)))
    BY <1>1, <2>2, FdsTyped
  <2> QED
    BY <2>1, <2>3
<1>3. CASE task[s].read # <<>> /\ FdsIn(Taken(s, k)) = <<>>
  <2>1. Brought(task[s].read, task[s].fds) /\ FdsBy(s, k) = task[s].fds
    BY <1>3 DEF SoundInv, Sound, FdsBy
  <2> QED
    BY <1>1, <1>3, <2>1, BroughtGrows DEF ReadBy
<1> QED
  BY <1>2, <1>3

LEMMA ReadKeeps ==
  ASSUME SideInv, NEW s \in Sides, ReadHead(s) \/ ReadBody(s)
  PROVE  SideInv'
<1>1. TypeInv /\ SoundInv /\ task[s].at \in {"head", "body"}
  BY ReadIs DEF SideInv
<1>2. PICK k \in 1 .. Len(inbox[s]) : ReadsUnits(s, k)
  BY <1>1, ReadIs
<1> DEFINE read == ReadBy(s, k)
           got == Got(s, k)
<1>3. /\ got \in Tasks /\ got.at = task[s].at /\ got.room = task[s].room
      /\ got.read = read /\ got.fds = FdsBy(s, k)
      /\ read \in Seq(Units) /\ read # <<>> /\ HeadOf(s, read) \in Messages
      /\ \A i \in 1 .. Len(read) : read[i].of \in DOMAIN sent[Other(s)]
      /\ Left(s, k) \in Seq(Units)
      /\ \A i \in 1 .. Len(Left(s, k)) : Left(s, k)[i].of \in DOMAIN sent[Other(s)]
  BY <1>1, ReadFields
<1>4. /\ \A i \in DOMAIN read : read[i].of \in DOMAIN sent[Other(s)]
      /\ \A i \in DOMAIN Left(s, k) : Left(s, k)[i].of \in DOMAIN sent[Other(s)]
  BY <1>3, SMTT(30)
<1>5. Len(Left(s, k)) <= SocketBytes
  <2>1. Len(Left(s, k)) = Len(inbox[s]) - k /\ inbox[s] \in Seq(Units)
    BY <1>1, ReadFields
  <2>2. Len(inbox[s]) <= SocketBytes
    BY <1>1 DEF SoundInv, Sound
  <2>3. Len(inbox[s]) \in Nat /\ k \in Nat /\ SocketBytes \in Nat
    BY <2>1, LargestNat
  <2> QED
    BY <2>1, <2>2, <2>3
<1>6. task[s].read = <<>> \/ FdsIn(Taken(s, k)) = <<>> => Brought(read, FdsBy(s, k))
  BY <1>1, <1>2, Brings
<1>7. CASE Objects(s, k) /\ Break(s, "refused", Left(s, k))
  <2>1. s = "client" => Len(outcomes) < MaxCalls
    BY <1>1 DEF SideInv, CallInv, Busy
  <2> QED
    BY <1>7, <2>1, BreakKeeps DEF Kinds
<1>8. CASE TakesUnits(s, k)
  <2>1. Brought(read, FdsBy(s, k))
    BY <1>6, <1>8 DEF TakesUnits
  <2>2. CASE Complete(s, got, HeadOf(s, read), Left(s, k))
    BY <1>1, <1>3, <1>4, <1>5, <2>2, CompleteKeeps
  <2>3. CASE Headed(s, read) /\ Len(read) < Wanted(s, read) /\ Goes(s, k, [got EXCEPT !.at = "body"])
    <3> DEFINE t == [got EXCEPT !.at = "body"]
    <3>1. t \in Tasks /\ t.at = "body" /\ t.read = read /\ t.fds = FdsBy(s, k)
      BY <1>3 DEF Tasks, Places
    <3> HIDE DEF t
    <3>2. Began(read, sent[Other(s)])
      BY <1>3, <2>3 DEF Began, Headed, Wanted, Garbled, HeadOf, Peer
    <3>3. Sound(t, Left(s, k), sent[Other(s)], sent[s])
      BY <1>4, <1>5, <2>1, <3>1, <3>2 DEF Sound
    <3>4. Goes(s, k, t)
      BY <2>3 DEF t
    <3> QED
      BY <1>1, <1>3, <3>1, <3>3, <3>4, GoesKeeps
  <2>4. CASE /\ task[s].at = "head" /\ Len(read) < MaxHeaderBytes
             /\ Goes(s, k, [got EXCEPT !.room = IF Len(read) = @ THEN Grown(@) ELSE @])
    <3> DEFINE room == IF Len(read) = got.room THEN Grown(got.room) ELSE got.room
               t == [got EXCEPT !.room = room]
    <3>1. room \in 1 .. Largest /\ Len(read) < room
      <4>1. Len(read) \in Nat /\ Len(read) >= 1 /\ got.room \in 1 .. Largest /\ Len(read) <= got.room
        <5>1. Len(read) <= got.room /\ got.room \in 1 .. Largest
          BY <1>2, <1>3, <2>4, TaskFields DEF ReadsUnits
        <5> QED
          BY <1>3, <5>1
      <4> HIDE DEF read, got
      <4> QED
        BY <2>4, <4>1, RoomGrows
    <3> HIDE DEF room
    <3>2. t \in Tasks /\ t.at = "head" /\ t.read = read /\ t.fds = FdsBy(s, k) /\ t.room = room
      BY <1>3, <2>4, <3>1 DEF Tasks
    <3>3. Goes(s, k, t)
      BY <2>4 DEF room
    <3> HIDE DEF t
    <3>4. Sound(t, Left(s, k), sent[Other(s)], sent[s])
      BY <1>4, <1>5, <2>1, <3>1, <3>2 DEF Sound
    <3> QED
      BY <1>1, <1>3, <3>2, <3>3, <3>4, GoesKeeps
  <2> QED
    BY <1>8, <2>2, <2>3, <2>4 DEF TakesUnits
<1> QED
  BY <1>2, <1>7, <1>8 DEF ReadsUnits

--------------------------------------------------------------------------------
(* The other steps of either side.                                         *)
LEMMA SoundPut ==
  ASSUME NEW t, NEW q \in Seq(Units), NEW msgs, NEW own, Sound(t, q, msgs, own),
         NEW x \in Seq(Units), \A i \in DOMAIN x : x[i].of \in DOMAIN msgs,
         Len(q) + Len(x) <= SocketBytes
  PROVE  q \o x \in Seq(Units) /\ Sound(t, q \o x, msgs, own)
<1>1. Len(q) \in Nat /\ Len(x) \in Nat /\ DOMAIN q = 1 .. Len(q) /\ DOMAIN x = 1 .. Len(x)
  OBVIOUS
<1>2. /\ q \o x \in Seq(Units) /\ Len(q \o x) = Len(q) + Len(x)
      /\ \A i \in 1 .. Len(q) + Len(x) : (q \o x)[i] = IF i <= Len(q) THEN q[i] ELSE x[i - Len(q)]
  BY ConcatProperties
<1>3. ASSUME NEW i \in 1 .. Len(q) + Len(x) PROVE (q \o x)[i].of \in DOMAIN msgs
  <2>1. CASE i <= Len(q)
    <3>1. i \in DOMAIN q
      BY <1>1, <2>1
    <3> QED
      BY <1>2, <2>1, <3>1 DEF Sound
  <2>2. CASE ~(i <= Len(q))
    <3>1. i - Len(q) \in DOMAIN x
      BY <1>1, <2>2
    <3> QED
      BY <1>2, <2>2, <3>1
  <2> QED
    BY <2>1, <2>2
<1>4. \A i \in DOMAIN (q \o x) : (q \o x)[i].of \in DOMAIN msgs
  BY <1>2, <1>3
<1>5. Len(q \o x) <= SocketBytes
  BY <1>2
<1> HIDE DEF Sound
<1> QED
  BY <1>2, <1>4, <1>5 DEF Sound

(* Side s prepares w and begins to send it; the close of its task is c.    *)
LEMMA SendsKeep ==
  ASSUME SideInv, NEW s \in Sides, NEW w \in Messages, NEW c \in BOOLEAN,
         task[s].at \notin {"raw", "gone"}, s = "client" => ~IsRaw /\ Len(outcomes) < MaxCalls,
         sent' = [sent EXCEPT ![s] = Append(@, w)],
         task' = [task EXCEPT ![s].at = "send", ![s].written = 0, ![s].close = c],
         UNCHANGED <<raw, inbox, gone, reset, served, outcomes>>
  PROVE  SideInv'
<1> DEFINE t == [task[s] EXCEPT !.at = "send", !.written = 0, !.close = c]
           own == Append(sent[s], w)
<1>1. task[s] \in Tasks /\ sent[s] \in Seq(Messages)
  BY DEF SideInv, TypeInv
<1>2. t \in Tasks /\ t.at = "send" /\ t.written = 0 /\ t.read = task[s].read
  BY <1>1 DEF Tasks, Places
<1>3. task' = [task EXCEPT ![s] = t] /\ sent' = [sent EXCEPT ![s] = own]
  BY DEF SideInv, TypeInv
<1>4. own \in Seq(Messages) /\ own # <<>> /\ own[Len(own)] = w
  BY <1>1
<1>5. Total(w) \in Nat
  <2>1. HeadSize(w) \in Nat /\ w.body \in Nat
    BY HeadNat, MessageFields
  <2> QED
    BY <2>1 DEF Total
<1> HIDE DEF t, own
<1>6. TypeInv'
  <2>1. task' \in [Sides -> Tasks]
    BY <1>2, <1>3 DEF SideInv, TypeInv
  <2>2. sent' \in [Sides -> Seq(Messages)]
    <3>1. sent \in [Sides -> Seq(Messages)]
      BY DEF SideInv, TypeInv
    <3> QED
      BY <1>3, <1>4, <3>1
  <2> QED
    BY <2>1, <2>2 DEF SideInv, TypeInv
<1>7. SoundInv'
  <2> SUFFICES ASSUME NEW o \in Sides PROVE Sound(task'[o], inbox'[o], sent'[Other(o)], sent'[o])
    BY DEF SoundInv
  <2>1. Sound(task[o], inbox[o], sent[Other(o)], sent[o]) /\ inbox[o] \in Seq(Units)
        /\ task[o] \in Tasks /\ Other(o) \in Sides /\ Other(o) # o
    BY SidesAre DEF SideInv, SoundInv, TypeInv
  <2>2. CASE o = s
    <3>1. task'[o] = t /\ inbox'[o] = inbox[o] /\ sent'[Other(o)] = sent[Other(o)] /\ sent'[o] = own
      BY <1>3, <2>1, <2>2 DEF SideInv, TypeInv
    <3>2. t.written <= Total(own[Len(own)])
      BY <1>2, <1>4, <1>5
    <3> QED
      BY <1>2, <1>4, <2>1, <2>2, <3>1, <3>2 DEF Sound
  <2>3. CASE o # s
    <3>1. Other(o) = s
      BY <2>3, SidesAre
    <3>2. task'[o] = task[o] /\ inbox'[o] = inbox[o] /\ sent'[Other(o)] = own /\ sent'[o] = sent[o]
      BY <1>3, <2>1, <2>3, <3>1 DEF SideInv, TypeInv
    <3>3. Sound(task[o], inbox[o], Append(sent[s], w), sent[o])
      BY <1>1, <2>1, <3>1, TaskFields, SoundGrows
    <3> QED
      BY <3>2, <3>3 DEF own
  <2> QED
    BY <2>2, <2>3
<1>8. CallInv'
  <2>1. CASE s = "client"
    <3>1. task'["client"].at = "send" /\ task'["server"] = task["server"]
      BY <1>2, <1>3, <2>1, SidesAre DEF SideInv, TypeInv
    <3> QED
      BY <2>1, <3>1 DEF SideInv, CallInv, IsRaw, Busy
  <2>2. CASE s = "server"
    <3>1. /\ task'["server"].at = "send" /\ task'["client"] = task["client"]
          /\ sent'["client"] = sent["client"]
      BY <1>2, <1>3, <2>2, SidesAre DEF SideInv, TypeInv
    <3> QED
      BY <2>2, <3>1 DEF SideInv, CallInv, IsRaw, Busy
  <2> QED
    BY <2>1, <2>2, SidesAre DEF Sides
<1> QED
  BY <1>6, <1>7, <1>8 DEF SideInv

(* A send of n units of the message side s is sending.                     *)
More(s, n) ==
  SubSeq(UnitsOf(s, Len(sent[s])), task[s].written + 1, task[s].written + n)

SendsUnits(s, n) ==
  /\ inbox' = [inbox EXCEPT ![Other(s)] = @ \o More(s, n)]
  /\ task' = [task EXCEPT ![s].written = @ + n]
  /\ UNCHANGED <<raw, gone, reset, sent, served, outcomes>>
  /\ Len(inbox[Other(s)]) + n <= SocketBytes

LEMMA SendingFacts ==
  ASSUME SideInv, NEW s \in Sides, task[s].at = "send"
  PROVE  /\ Len(sent[s]) \in DOMAIN sent[s] /\ task[s].written \in Nat
         /\ UnitsOf(s, Len(sent[s])) \in Seq(Units)
         /\ task[s].written \in 0 .. Len(UnitsOf(s, Len(sent[s])))
         /\ Len(Unwritten(s)) = Len(UnitsOf(s, Len(sent[s]))) - task[s].written
<1> DEFINE all == UnitsOf(s, Len(sent[s]))
           k == task[s].written
<1>1. /\ sent \in [Sides -> Seq(Messages)] /\ sent[s] \in Seq(Messages) /\ sent[s] # <<>>
      /\ k <= Total(sent[s][Len(sent[s])]) /\ task[s] \in Tasks
  BY DEF SideInv, TypeInv, SoundInv, Sound
<1>2. Len(sent[s]) \in DOMAIN sent[s] /\ k \in Nat
  BY <1>1, TaskFields
<1>3. all \in Seq(Units) /\ Len(all) = Total(sent[s][Len(sent[s])]) /\ Len(all) \in Nat
  BY <1>1, <1>2, MessageUnits
<1> HIDE DEF all, k
<1>4. k \in 0 .. Len(all)
  BY <1>1, <1>2, <1>3 DEF k
<1>5. Unwritten(s) = SubSeq(all, k + 1, Len(all))
  BY DEF Unwritten, all, k
<1>6. Len(SubSeq(all, k + 1, Len(all))) = Len(all) - k
  <2>1. k + 1 \in Int /\ Len(all) \in Int /\ \A i \in k + 1 .. Len(all) : all[i] \in Units
    BY <1>2, <1>3
  <2>2. Len(SubSeq(all, k + 1, Len(all))) = IF k + 1 <= Len(all) THEN Len(all) - (k + 1) + 1 ELSE 0
    BY <2>1, SubSeqProperties
  <2> QED
    BY <1>2, <1>3, <1>4, <2>2
<1> QED
  BY <1>2, <1>3, <1>4, <1>5, <1>6 DEF all, k

LEMMA SendIs ==
  ASSUME SideInv, NEW s \in Sides, Send(s)
  PROVE  /\ task[s].at = "send" /\ Other(s) \notin gone
         /\ \E n \in 1 .. Len(UnitsOf(s, Len(sent[s]))) - task[s].written :
              /\ SendsUnits(s, n)
              /\ More(s, n) \in Seq(Units) /\ Len(More(s, n)) = n
              /\ \A i \in 1 .. n : More(s, n)[i] = UnitsOf(s, Len(sent[s]))[task[s].written + i]
              /\ SubSeq(UnitsOf(s, Len(sent[s])), 1, task[s].written) \o More(s, n)
                   = SubSeq(UnitsOf(s, Len(sent[s])), 1, task[s].written + n)
<1> DEFINE all == UnitsOf(s, Len(sent[s]))
           k == task[s].written
<1>1. task[s].at = "send" /\ Other(s) \notin gone
  BY DEF Send
<1>2. /\ all \in Seq(Units) /\ k \in 0 .. Len(all) /\ Len(Unwritten(s)) = Len(all) - k
  BY <1>1, SendingFacts
<1>3. PICK n \in 1 .. Len(Unwritten(s)) :
        /\ Len(inbox[Other(s)]) + n <= SocketBytes
        /\ inbox' = [inbox EXCEPT ![Other(s)] = @ \o SubSeq(Unwritten(s), 1, n)]
        /\ task' = [task EXCEPT ![s].written = @ + n]
        /\ UNCHANGED <<raw, gone, reset, sent, served, outcomes>>
  BY DEF Send, Put
<1>4. n \in 1 .. Len(all) - k
  BY <1>2, <1>3
<1> DEFINE x == SubSeq(all, k + 1, k + n)
<1>4a. More(s, n) = x /\ Unwritten(s) = SubSeq(all, k + 1, Len(all))
  BY DEF More, Unwritten
<1> HIDE DEF all, k
<1>4b. /\ x \in Seq(Units) /\ Len(x) = n /\ \A i \in 1 .. n : x[i] = all[k + i]
       /\ SubSeq(SubSeq(all, k + 1, Len(all)), 1, n) = x
  BY <1>2, <1>4, Extend
<1>4c. SubSeq(all, 1, k) \o x = SubSeq(all, 1, k + n)
  BY <1>2, <1>4, Extend, Zenon
<1> HIDE DEF x
<1>5. /\ More(s, n) \in Seq(Units) /\ Len(More(s, n)) = n
      /\ \A i \in 1 .. n : More(s, n)[i] = all[k + i]
      /\ SubSeq(Unwritten(s), 1, n) = More(s, n)
      /\ SubSeq(all, 1, k) \o More(s, n) = SubSeq(all, 1, k + n)
  BY <1>4a, <1>4b, <1>4c
<1>6. SendsUnits(s, n)
  BY <1>3, <1>5 DEF SendsUnits
<1> QED
  BY <1>1, <1>4, <1>5, <1>6 DEF all, k

(* n units x reach the other side of s, whose count of them goes up.       *)
LEMMA PutKeeps ==
  ASSUME SideInv, NEW s \in Sides, task[s].at \in {"send", "raw"}, NEW n \in Nat,
         NEW x \in Seq(Units), Len(x) = n, \A i \in DOMAIN x : x[i].of \in DOMAIN sent[s],
         Len(inbox[Other(s)]) + n <= SocketBytes,
         task[s].at = "send" => task[s].written + n <= Total(sent[s][Len(sent[s])]),
         inbox' = [inbox EXCEPT ![Other(s)] = @ \o x],
         task' = [task EXCEPT ![s].written = @ + n],
         UNCHANGED <<raw, gone, reset, sent, served, outcomes>>
  PROVE  SideInv'
<1> DEFINE t == [task[s] EXCEPT !.written = @ + n]
           q == inbox[Other(s)] \o x
<1>1. task[s] \in Tasks /\ inbox[Other(s)] \in Seq(Units) /\ Other(s) \in Sides
  BY SidesAre DEF SideInv, TypeInv
<1>2. t \in Tasks /\ t.at = task[s].at /\ t.read = task[s].read /\ t.fds = task[s].fds
      /\ t.room = task[s].room /\ t.written = task[s].written + n
  <2>1. task[s].written \in Nat
    BY <1>1, TaskFields
  <2>2. task[s].written + n \in Nat
    BY <2>1
  <2> QED
    BY <1>1, <2>2 DEF Tasks
<1>3. task' = [task EXCEPT ![s] = t] /\ inbox' = [inbox EXCEPT ![Other(s)] = q]
  BY DEF SideInv, TypeInv
<1> HIDE DEF t
<1>4. Sound(task[Other(s)], inbox[Other(s)], sent[s], sent[Other(s)])
  BY SidesAre DEF SideInv, SoundInv
<1>5. q \in Seq(Units) /\ Sound(task[Other(s)], q, sent[s], sent[Other(s)])
  BY <1>1, <1>4, SoundPut
<1> HIDE DEF q
<1>6. TypeInv'
  <2>1. task' \in [Sides -> Tasks]
    BY <1>2, <1>3 DEF SideInv, TypeInv
  <2>2. inbox' \in [Sides -> Seq(Units)]
    BY <1>3, <1>5 DEF SideInv, TypeInv
  <2> QED
    BY <2>1, <2>2 DEF SideInv, TypeInv
<1>7. SoundInv'
  <2> SUFFICES ASSUME NEW o \in Sides PROVE Sound(task'[o], inbox'[o], sent'[Other(o)], sent'[o])
    BY DEF SoundInv
  <2>1. Other(s) # s /\ (o = s \/ o = Other(s)) /\ sent' = sent
    BY SidesAre
  <2>2. CASE o = s
    <3>1. task'[o] = t /\ inbox'[o] = inbox[o]
      BY <1>3, <2>1, <2>2 DEF SideInv, TypeInv
    <3>2. Sound(task[s], inbox[s], sent[Other(s)], sent[s])
      BY DEF SideInv, SoundInv
    <3> QED
      BY <1>2, <2>1, <2>2, <3>1, <3>2 DEF Sound
  <2>3. CASE o = Other(s)
    <3>1. task'[o] = task[o] /\ inbox'[o] = q /\ sent[Other(o)] = sent[s]
      BY <1>1, <1>3, <2>1, <2>3, SidesAre DEF SideInv, TypeInv
    <3> QED
      BY <1>5, <2>1, <2>3, <3>1
  <2> QED
    BY <2>1, <2>2, <2>3
<1>8. CallInv'
  <2>1. \A o \in Sides : task'[o].at = task[o].at
    <3> TAKE o \in Sides
    <3>1. CASE o = s
      BY <1>2, <1>3, <3>1 DEF SideInv, TypeInv
    <3>2. CASE o # s
      BY <1>3, <3>2 DEF SideInv, TypeInv
    <3> QED
      BY <3>1, <3>2
  <2> QED
    BY <2>1, SidesAre DEF SideInv, CallInv, IsRaw
<1> QED
  BY <1>6, <1>7, <1>8 DEF SideInv

LEMMA SendKeeps ==
  ASSUME SideInv, NEW s \in Sides, Send(s)
  PROVE  SideInv'
<1>1. task[s].at = "send"
  BY SendIs
<1>2. PICK n \in 1 .. Len(UnitsOf(s, Len(sent[s]))) - task[s].written :
        /\ SendsUnits(s, n)
        /\ More(s, n) \in Seq(Units) /\ Len(More(s, n)) = n
        /\ \A i \in 1 .. n : More(s, n)[i] = UnitsOf(s, Len(sent[s]))[task[s].written + i]
  BY SendIs
<1> DEFINE all == UnitsOf(s, Len(sent[s]))
           j == Len(sent[s])
<1>3. /\ j \in DOMAIN sent[s] /\ task[s].written \in Nat /\ sent \in [Sides -> Seq(Messages)]
      /\ task[s].written \in 0 .. Len(all)
  BY <1>1, SendingFacts DEF SideInv, TypeInv
<1>4. /\ Len(all) = Total(sent[s][j]) /\ Total(sent[s][j]) \in Nat
      /\ \A k \in 1 .. Total(sent[s][j]) : all[k].of = j
  BY <1>3, MessageUnits
<1>5. n \in Nat /\ task[s].written + n <= Total(sent[s][j])
  BY <1>2, <1>3, <1>4
<1>6. \A i \in DOMAIN More(s, n) : More(s, n)[i].of \in DOMAIN sent[s]
  <2> TAKE i \in DOMAIN More(s, n)
  <2>1. i \in 1 .. n
    BY <1>2
  <2>2. task[s].written + i \in 1 .. Total(sent[s][j])
    <3> DEFINE h == task[s].written
               u == Total(sent[s][j])
    <3>1. h \in Nat /\ u \in Nat /\ n \in Nat /\ h + n <= u
      BY <1>3, <1>4, <1>5
    <3> HIDE DEF h, u
    <3>2. h + i \in 1 .. u
      BY <2>1, <3>1
    <3> QED
      BY <3>2 DEF h, u
  <2>3. More(s, n)[i] = all[task[s].written + i]
    BY <1>2, <2>1
  <2>4. all[task[s].written + i].of = j
    BY <1>4, <2>2
  <2> QED
    BY <1>3, <2>3, <2>4
<1> HIDE DEF j
<1> QED
  BY <1>1, <1>2, <1>5, <1>6, PutKeeps DEF SendsUnits, j

(* The send is over: the other side is waited for.                         *)
Turns(s) ==
  /\ task' = [task EXCEPT ![s] = Receiving(@)]
  /\ UNCHANGED <<raw, inbox, gone, reset, sent, served, outcomes>>

LEMMA ReceivingIs ==
  ASSUME NEW t \in Tasks
  PROVE  /\ Receiving(t) \in Tasks /\ Receiving(t).at = "head" /\ Receiving(t).read = <<>>
         /\ Receiving(t).fds = <<>> /\ Receiving(t).room = t.room
<1>1. <<>> \in Seq(Units) /\ <<>> \in Seq(Attached) /\ 0 \in Nat /\ "head" \in Places
  BY DEF Places
<1> QED
  BY <1>1 DEF Receiving, Tasks

LEMMA TurnsKeeps ==
  ASSUME SideInv, NEW s \in Sides, task[s].at = "send", Turns(s)
  PROVE  SideInv'
<1> DEFINE t == Receiving(task[s])
<1>1. task' = [task EXCEPT ![s] = t] /\ UNCHANGED <<raw, inbox, gone, reset, sent, served, outcomes>>
  BY DEF Turns, SideInv, TypeInv
<1>2. t \in Tasks /\ t.at = "head" /\ t.read = <<>> /\ t.fds = <<>> /\ t.room \in 1 .. Largest
  BY ReceivingIs, TaskFields DEF SideInv, TypeInv
<1> HIDE DEF t
<1>3. TypeInv'
  <2>1. task' \in [Sides -> Tasks]
    BY <1>1, <1>2 DEF SideInv, TypeInv
  <2> QED
    BY <1>1, <2>1 DEF SideInv, TypeInv
<1>4. SoundInv'
  <2> SUFFICES ASSUME NEW o \in Sides PROVE Sound(task'[o], inbox'[o], sent'[Other(o)], sent'[o])
    BY DEF SoundInv
  <2>1. Sound(task[o], inbox[o], sent[Other(o)], sent[o])
    BY DEF SideInv, SoundInv
  <2>2. CASE o = s
    <3>1. task'[o] = t /\ inbox' = inbox /\ sent' = sent
      BY <1>1, <2>2 DEF SideInv, TypeInv
    <3>2. Len(<<>>) < t.room /\ Brought(<<>>, <<>>) /\ DOMAIN <<>> = {}
      BY <1>2, LargestNat DEF Brought, Carries
    <3> QED
      BY <1>2, <2>1, <3>1, <3>2 DEF Sound
  <2>3. CASE o # s
    BY <1>1, <2>1, <2>3 DEF SideInv, TypeInv
  <2> QED
    BY <2>2, <2>3
<1>5. CallInv'
  <2>1. \A o \in Sides : task'[o].at = IF o = s THEN "head" ELSE task[o].at
    BY <1>1, <1>2 DEF SideInv, TypeInv
  <2>2. (task["client"].at = "send") => ~IsRaw
    BY DEF SideInv, CallInv
  <2>3. CASE s = "client"
    BY <1>1, <2>1, <2>2, <2>3, SidesAre DEF SideInv, CallInv, IsRaw, Busy
  <2>4. CASE s = "server"
    BY <1>1, <2>1, <2>4, SidesAre DEF SideInv, CallInv, IsRaw, Busy
  <2> QED
    BY <2>3, <2>4, SidesAre DEF Sides
<1> QED
  BY <1>3, <1>4, <1>5 DEF SideInv

(* A call ends without a connection, or without touching it.               *)
Notes(kind) ==
  /\ outcomes' = Append(outcomes, [kind |-> kind, read |-> <<>>, fds |-> <<>>])
  /\ UNCHANGED <<raw, task, inbox, gone, reset, sent, served>>

LEMMA NotesKeeps ==
  ASSUME SideInv, NEW kind \in Kinds, Notes(kind), Len(outcomes) < MaxCalls,
         task["client"].at \in {"idle", "gone"}
  PROVE  SideInv'
<1> DEFINE e == [kind |-> kind, read |-> <<>>, fds |-> <<>>]
<1>1. e \in Ends /\ outcomes' = Append(outcomes, e)
  <2>1. <<>> \in Seq(Units) /\ <<>> \in Seq(Attached)
    OBVIOUS
  <2> QED
    BY <2>1 DEF Ends, Notes
<1> HIDE DEF e
<1>2. outcomes' \in Seq(Ends) /\ Len(outcomes') = Len(outcomes) + 1 /\ Len(outcomes) \in Nat
  <2>1. outcomes \in Seq(Ends)
    BY DEF SideInv, TypeInv
  <2> QED
    BY <1>1, <2>1
<1>3. Len(outcomes') <= MaxCalls
  BY <1>2, LargestNat
<1>4. TypeInv'
  BY <1>2 DEF SideInv, TypeInv, Notes
<1>5. SoundInv'
  BY DEF SideInv, SoundInv, Notes
<1>6. CallInv'
  BY <1>3 DEF SideInv, CallInv, Notes, IsRaw, Busy
<1> QED
  BY <1>4, <1>5, <1>6 DEF SideInv

(* What the client's side holds is discarded.                              *)
LEMMA EmptiesKeeps ==
  ASSUME SideInv, task["client"].at \in {"idle", "raw"},
         inbox' = [inbox EXCEPT !["client"] = <<>>],
         \/ task' = task
         \/ task["client"].at = "idle" /\ task' = [task EXCEPT !["client"].at = "gone"],
         gone' \in {gone, gone \cup {"client"}}, reset' \in {reset, reset \cup {"server"}},
         UNCHANGED <<raw, sent, served, outcomes>>
  PROVE  SideInv'
<1> DEFINE t == task'["client"]
<1>1. /\ task' = [task EXCEPT !["client"] = t] /\ t \in Tasks
      /\ t.at = task["client"].at \/ (task["client"].at = "idle" /\ t.at = "gone")
      /\ t.read = task["client"].read
  <2>1. task["client"] \in Tasks
    BY SidesAre DEF SideInv, TypeInv
  <2>2. CASE task' = task
    BY <2>1, <2>2 DEF SideInv, TypeInv
  <2>3. CASE task["client"].at = "idle" /\ task' = [task EXCEPT !["client"].at = "gone"]
    <3>1. [task["client"] EXCEPT !.at = "gone"] \in Tasks
      BY <2>1 DEF Tasks, Places
    <3>2. t = [task["client"] EXCEPT !.at = "gone"]
      BY <2>3, SidesAre DEF SideInv, TypeInv
    <3> QED
      BY <2>1, <2>3, <3>1, <3>2 DEF Tasks, SideInv, TypeInv
  <2> QED
    BY <2>2, <2>3
<1> HIDE DEF t
<1>2. TypeInv'
  <2>1. task' \in [Sides -> Tasks] /\ inbox' \in [Sides -> Seq(Units)]
    <3>1. <<>> \in Seq(Units)
      OBVIOUS
    <3> QED
      BY <1>1, <3>1 DEF SideInv, TypeInv
  <2>2. gone' \in SUBSET Sides /\ reset' \in SUBSET Sides
    BY SidesAre DEF SideInv, TypeInv
  <2> QED
    BY <2>1, <2>2 DEF SideInv, TypeInv
<1>3. SoundInv'
  <2> SUFFICES ASSUME NEW o \in Sides PROVE Sound(task'[o], inbox'[o], sent'[Other(o)], sent'[o])
    BY DEF SoundInv
  <2>1. Sound(task[o], inbox[o], sent[Other(o)], sent[o])
    BY DEF SideInv, SoundInv
  <2>2. CASE o = "client"
    <3>1. task'[o] = t /\ inbox'[o] = <<>>
      BY <1>1, <2>2 DEF SideInv, TypeInv
    <3>2. DOMAIN <<>> = {} /\ Len(<<>>) <= SocketBytes
      BY LargestNat
    <3>3. t.at \notin {"head", "body", "send"}
      BY <1>1
    <3> QED
      BY <1>1, <2>1, <2>2, <3>1, <3>2, <3>3 DEF Sound
  <2>3. CASE o # "client"
    BY <1>1, <2>1, <2>3 DEF SideInv, TypeInv
  <2> QED
    BY <2>2, <2>3
<1>4. CallInv'
  <2>1. task'["server"] = task["server"] /\ task'["client"] = t
    BY <1>1, SidesAre DEF SideInv, TypeInv
  <2> QED
    BY <1>1, <2>1 DEF SideInv, CallInv, IsRaw, Busy
<1> QED
  BY <1>2, <1>3, <1>4 DEF SideInv

LEMMA RawSendKeeps ==
  ASSUME SideInv, RawSend
  PROVE  SideInv'
<1>1. PICK n \in 1 .. Len(raw.units) - task["client"].written :
        /\ Len(inbox["server"]) + n <= SocketBytes
        /\ inbox' = [inbox EXCEPT !["server"] = @ \o
             SubSeq(raw.units, task["client"].written + 1, task["client"].written + n)]
        /\ task' = [task EXCEPT !["client"].written = @ + n]
  BY SidesAre DEF RawSend, Put
<1>2. task["client"].at = "raw" /\ UNCHANGED <<raw, gone, reset, sent, served, outcomes>>
  BY DEF RawSend
<1>3. IsRaw /\ raw \in RawPeers /\ sent["client"] = raw.messages
  BY <1>2 DEF SideInv, CallInv, TypeInv, IsRaw, Busy
<1> DEFINE h == task["client"].written
           u == raw.units
           x == SubSeq(u, h + 1, h + n)
<1>4. u \in Seq(Units) /\ \A a \in DOMAIN u : u[a].of \in DOMAIN sent["client"]
  BY <1>3, RawAssumption DEF RawAssumption
<1>5. h \in Nat
  BY SidesAre, TaskFields DEF SideInv, TypeInv
<1>6. Len(u) \in Nat /\ DOMAIN u = 1 .. Len(u)
  BY <1>4
<1>7. n \in 1 .. Len(u) - h /\ n \in Nat
  BY <1>1, <1>5, <1>6
<1> HIDE DEF h, u
<1>8. h \in 0 .. Len(u)
  BY <1>5, <1>6, <1>7
<1>9. x \in Seq(Units) /\ Len(x) = n /\ \A i \in 1 .. n : x[i] = u[h + i]
  BY <1>4, <1>7, <1>8, Extend
<1>10. \A i \in DOMAIN x : x[i].of \in DOMAIN sent["client"]
  <2> TAKE i \in DOMAIN x
  <2>1. i \in 1 .. n /\ h + i \in DOMAIN u
    BY <1>5, <1>6, <1>7, <1>9
  <2> QED
    BY <1>4, <1>9, <2>1
<1>11. inbox' = [inbox EXCEPT !["server"] = @ \o x]
  BY <1>1 DEF h, u
<1> HIDE DEF x
<1>12. /\ "client" \in Sides /\ task["client"].at \in {"send", "raw"}
       /\ Len(inbox[Other("client")]) + n <= SocketBytes
       /\ task["client"].at = "send" =>
            task["client"].written + n <= Total(sent["client"][Len(sent["client"])])
       /\ inbox' = [inbox EXCEPT ![Other("client")] = @ \o x]
  BY <1>1, <1>2, <1>11, SidesAre
<1>13. task' = [task EXCEPT !["client"].written = @ + n] /\ x \in Seq(Units) /\ Len(x) = n
  BY <1>1, <1>9
<1> QED
  BY <1>2, <1>7, <1>10, <1>12, <1>13, PutKeeps

--------------------------------------------------------------------------------
(* Every step keeps them.                                                  *)
LEMMA ResponsePrepared ==
  ASSUME NEW m \in Responses, NEW close \in BOOLEAN, NEW w \in PreparedResponse(m, close)
  PROVE  Sendable(w) /\ w \in Messages /\ Closes(w) \in BOOLEAN
<1>1. Sendable(w)
  BY PreparedSendable
<1> QED
  BY <1>1 DEF Sendable, Closes

LEMMA RequestPrepared ==
  ASSUME NEW m \in Requests, NEW w \in PreparedRequest(m)
  PROVE  Sendable(w) /\ w \in Messages /\ Closes(m) \in BOOLEAN
<1>1. Sendable(w)
  BY PreparedSendable
<1> QED
  BY <1>1 DEF Sendable, Closes

LEMMA SideStep == SideInv /\ [Next]_vars => SideInv'
<1> SUFFICES ASSUME SideInv, [Next]_vars PROVE SideInv'
  OBVIOUS
<1> USE SidesAre
<1>1. task["client"].at \in Busy => Len(outcomes) < MaxCalls /\ ~IsRaw
  BY DEF SideInv, CallInv, Busy
<1>2. ASSUME NEW m \in Requests, Call(m) PROVE SideInv'
  <2>1. ~IsRaw /\ Len(outcomes) < MaxCalls /\ task["client"].at = "idle"
    BY <1>2 DEF Call
  <2>2. CASE PreparedRequest(m) = {}
    <3>1. Notes("unsent")
      BY <1>2, <2>2 DEF Call, Notes
    <3> QED
      BY <2>1, <3>1, NotesKeeps DEF Kinds
  <2>3. CASE PreparedRequest(m) # {}
    <3>1. PICK w \in PreparedRequest(m) : sent' = [sent EXCEPT !["client"] = Append(@, w)]
      BY <1>2, <2>3 DEF Call
    <3>2. /\ task' = [task EXCEPT !["client"].at = "send", !["client"].written = 0,
                                  !["client"].close = Closes(m)]
          /\ UNCHANGED <<raw, inbox, gone, reset, served, outcomes>>
      BY <1>2, <2>3 DEF Call
    <3> QED
      BY <2>1, <3>1, <3>2, RequestPrepared, SendsKeep
  <2> QED
    BY <2>2, <2>3
<1>3. ASSUME CallUnconnected PROVE SideInv'
  <2>1. Notes("unconnected") /\ Len(outcomes) < MaxCalls /\ task["client"].at = "gone"
    BY <1>3 DEF CallUnconnected, Notes
  <2> QED
    BY <2>1, NotesKeeps DEF Kinds
<1>4. ASSUME Cancel PROVE SideInv'
  <2>1. Break("client", "cancelled", inbox["client"]) /\ task["client"].at \in Busy
    BY <1>4 DEF Cancel, Busy
  <2> QED
    BY <1>1, <2>1, BreakKeeps DEF Kinds
<1>5. ASSUME DropClient PROVE SideInv'
  <2>1. /\ task["client"].at = "idle" /\ inbox' = [inbox EXCEPT !["client"] = <<>>]
        /\ task' = [task EXCEPT !["client"].at = "gone"]
        /\ gone' = gone \cup {"client"} /\ reset' \in {reset, reset \cup {"server"}}
        /\ UNCHANGED <<raw, sent, served, outcomes>>
    BY <1>5 DEF DropClient, DropSocket
  <2> QED
    BY <2>1, EmptiesKeeps
<1>6. ASSUME NEW m \in Responses, Serve(m) PROVE SideInv'
  <2>1. task["server"].at = "service" /\ task["server"].close \in BOOLEAN
    BY <1>6, TaskFields DEF Serve, SideInv, TypeInv
  <2>2. CASE PreparedResponse(m, task["server"].close) = {}
    <3>1. Break("server", "failed", inbox["server"])
      BY <1>6, <2>2 DEF Serve
    <3> QED
      BY <3>1, BreakKeeps DEF Kinds
  <2>3. CASE PreparedResponse(m, task["server"].close) # {}
    <3>1. PICK w \in PreparedResponse(m, task["server"].close) :
            /\ sent' = [sent EXCEPT !["server"] = Append(@, w)]
            /\ task' = [task EXCEPT !["server"].at = "send", !["server"].written = 0,
                                    !["server"].close = Closes(w)]
      BY <1>6, <2>3 DEF Serve
    <3>2. UNCHANGED <<raw, inbox, gone, reset, served, outcomes>>
      BY <1>6, <2>3 DEF Serve
    <3> QED
      BY <2>1, <3>1, <3>2, ResponsePrepared, SendsKeep
  <2> QED
    BY <2>2, <2>3
<1>7. ASSUME ServiceFails PROVE SideInv'
  <2>1. Break("server", "failed", inbox["server"])
    BY <1>7 DEF ServiceFails
  <2> QED
    BY <2>1, BreakKeeps DEF Kinds
<1>8. ASSUME NEW s \in Sides, Progress(s) PROVE SideInv'
  <2>1. CASE Send(s)
    BY <2>1, SendKeeps
  <2>2. CASE SendFails(s)
    <3>1. Break(s, "failed", inbox[s]) /\ task[s].at \in Busy
      BY <2>2 DEF SendFails, Busy
    <3> QED
      BY <1>1, <3>1, BreakKeeps DEF Kinds
  <2>3. CASE Sent(s)
    <3>1. CASE s = "server" /\ task[s].close
      <4>1. Break(s, "ended", inbox[s])
        BY <2>3, <3>1 DEF Sent
      <4> QED
        BY <3>1, <4>1, BreakKeeps DEF Kinds
    <3>2. CASE ~(s = "server" /\ task[s].close)
      <4>1. task[s].at = "send" /\ Turns(s)
        BY <2>3, <3>2 DEF Sent, Turns
      <4> QED
        BY <4>1, TurnsKeeps
    <3> QED
      BY <3>1, <3>2
  <2>4. CASE ReadHead(s) \/ ReadBody(s)
    BY <2>4, ReadKeeps
  <2>5. CASE ReadEnd(s)
    <3>1. task[s].at \in Busy
      BY <2>5 DEF ReadEnd, Busy
    <3>2. CASE s = "server"
      <4>1. PICK why \in {"ended", "failed"} : Break(s, why, <<>>)
        BY <2>5 DEF ReadEnd
      <4> QED
        BY <3>2, <4>1, BreakKeeps DEF Kinds
    <3>3. CASE s = "client"
      <4>1. Break(s, "failed", <<>>)
        BY <2>5, <3>3 DEF ReadEnd
      <4> QED
        BY <1>1, <3>1, <3>3, <4>1, BreakKeeps DEF Kinds
    <3> QED
      BY <3>2, <3>3 DEF Sides
  <2> QED
    BY <1>8, <2>1, <2>2, <2>3, <2>4, <2>5 DEF Progress
<1>9. ASSUME RawSend PROVE SideInv'
  BY <1>9, RawSendKeeps
<1>10. ASSUME RawRead PROVE SideInv'
  <2>1. /\ task["client"].at = "raw" /\ inbox' = [inbox EXCEPT !["client"] = <<>>]
        /\ UNCHANGED <<raw, task, gone, reset, sent, served, outcomes>>
    BY <1>10 DEF RawRead
  <2> QED
    BY <2>1, EmptiesKeeps
<1>11. ASSUME RawClose PROVE SideInv'
  <2>1. Break("client", "gone", inbox["client"]) /\ task["client"].at = "raw"
    BY <1>11 DEF RawClose
  <2>2. IsRaw
    BY <2>1 DEF SideInv, CallInv, Busy
  <2> QED
    BY <2>1, <2>2, BreakKeeps DEF Kinds
<1>12. ASSUME UNCHANGED vars PROVE SideInv'
  BY <1>12 DEF vars, SideInv, TypeInv, SoundInv, CallInv, IsRaw
<1> QED
  BY <1>2, <1>3, <1>4, <1>5, <1>6, <1>7, <1>8, <1>9, <1>10, <1>11, <1>12
     DEF Next, Owner, Service, Raw

LEMMA SideInit == Init => SideInv
<1> SUFFICES ASSUME Init PROVE SideInv
  OBVIOUS
<1>1. AtRest \in Tasks /\ AtRest.at = "idle" /\ AtRest.read = <<>> /\ AtRest.fds = <<>>
      /\ AtRest.room = ReadBytes
  BY RestTyped DEF AtRest
<1> DEFINE t == [AtRest EXCEPT !.at = "raw"]
           h == Receiving(AtRest)
<1>2. t \in Tasks /\ t.at = "raw" /\ t.read = <<>>
  BY <1>1 DEF Tasks, Places
<1>3. h \in Tasks /\ h.at = "head" /\ h.read = <<>> /\ h.fds = <<>> /\ h.room = ReadBytes
  BY <1>1, ReceivingIs
<1>4. /\ task["server"] = h /\ task["client"] = (IF IsRaw THEN t ELSE AtRest)
      /\ task \in [Sides -> Tasks]
  BY <1>1, <1>2, <1>3, SidesAre DEF Init
<1> HIDE DEF t, h
<1>5. /\ inbox \in [Sides -> Seq(Units)] /\ \A s \in Sides : inbox[s] = <<>>
      /\ gone = {} /\ reset = {} /\ served = <<>> /\ outcomes = <<>>
      /\ raw \in RawPeers \cup {NoPeer}
  <2>1. <<>> \in Seq(Units)
    OBVIOUS
  <2> QED
    BY <2>1 DEF Init
<1>6. raw.messages \in Seq(Messages) /\ sent = [s \in Sides |-> IF s = "client" THEN raw.messages ELSE <<>>]
  <2>1. <<>> \in Seq(Messages)
    OBVIOUS
  <2> QED
    <3>1. ASSUME raw = NoPeer PROVE raw.messages \in Seq(Messages)
      BY <2>1, <3>1 DEF NoPeer
    <3>2. ASSUME raw \in RawPeers PROVE raw.messages \in Seq(Messages)
      BY <3>2, RawAssumption DEF RawAssumption
    <3>3. raw.messages \in Seq(Messages)
      BY <1>5, <3>1, <3>2
    <3> QED
      BY <3>3 DEF Init
<1>7. TypeInv
  <2>1. <<>> \in Seq(Deliveries) /\ <<>> \in Seq(Ends) /\ <<>> \in Seq(Messages)
    OBVIOUS
  <2>2. sent \in [Sides -> Seq(Messages)]
    BY <1>6, <2>1
  <2> QED
    BY <1>4, <1>5, <2>1, <2>2 DEF TypeInv
<1>8. SoundInv
  <2>1. DOMAIN <<>> = {} /\ Len(<<>>) = 0 /\ Brought(<<>>, <<>>)
    BY DEF Brought, Carries
  <2>2. 0 < ReadBytes /\ 0 <= SocketBytes
    BY LargestNat
  <2>3. Sound(task["server"], <<>>, sent["client"], sent["server"])
    BY <1>3, <1>4, <2>1, <2>2 DEF Sound
  <2>4. Sound(task["client"], <<>>, sent["server"], sent["client"])
    BY <1>1, <1>2, <1>4, <2>1, <2>2 DEF Sound
  <2> QED
    BY <1>5, <2>3, <2>4, SidesAre DEF SoundInv, Sides
<1>9. CallInv
  <2>1. Len(outcomes) <= MaxCalls
    BY <1>5, LargestNat
  <2>2. IsRaw => sent["client"] = raw.messages
    BY <1>6, SidesAre
  <2> QED
    BY <1>1, <1>2, <1>3, <1>4, <2>1, <2>2 DEF CallInv, Busy
<1> QED
  BY <1>7, <1>8, <1>9 DEF SideInv

(* The variables have their types, and reads stay inside their limits.     *)
THEOREM TypeCorrect == Spec => []TypeOK
<1>1. SideInv => TypeOK
  <2> SUFFICES ASSUME SideInv PROVE TypeOK
    OBVIOUS
  <2>1. ASSUME NEW s \in Sides
        PROVE  /\ task[s].at \in {"idle", "send", "head", "body", "service", "raw"} \cup Final
               /\ task[s].room \in 1 .. Largest
               /\ task[s].at = "head" => Len(task[s].read) < task[s].room
               /\ task[s].at = "body" =>
                    Len(task[s].read) < HeadSize(HeadOf(s, task[s].read)) + MaxBodyBytes
               /\ Len(inbox[s]) <= SocketBytes
               /\ sent[s] \in Seq(Messages)
    <3>1. task[s] \in Tasks /\ sent[s] \in Seq(Messages) /\ sent[Other(s)] \in Seq(Messages)
      BY SidesAre DEF SideInv, TypeInv
    <3>2. Sound(task[s], inbox[s], sent[Other(s)], sent[s])
      BY DEF SideInv, SoundInv
    <3>3. ASSUME task[s].at = "body"
          PROVE  Len(task[s].read) < HeadSize(HeadOf(s, task[s].read)) + MaxBodyBytes
      <4> DEFINE w == HeadOf(s, task[s].read)
                 n == Len(task[s].read)
      <4>1. /\ n < HeadSize(w) + IncomingLength(w) /\ IncomingLength(w) \in Int
            /\ IncomingLength(w) <= MaxBodyBytes /\ task[s].read # <<>>
        BY <3>2, <3>3 DEF Sound, Began, HeadOf, Peer
      <4>2. task[s].read \in Seq(Units)
        BY <3>1, TaskFields
      <4>3. w \in Messages /\ n \in Nat
        <5>1. 1 \in DOMAIN task[s].read
          BY <4>1, <4>2
        <5>2. task[s].read[1].of \in DOMAIN sent[Other(s)]
          BY <3>2, <5>1 DEF Sound
        <5> QED
          BY <3>1, <4>2, <5>2 DEF HeadOf, Peer
      <4>4. HeadSize(w) \in Nat /\ MaxBodyBytes \in Nat
        BY <4>3, HeadNat, LargestNat
      <4> HIDE DEF w, n
      <4>5. n < HeadSize(w) + MaxBodyBytes
        BY <4>1, <4>3, <4>4
      <4> QED
        BY <4>5 DEF w, n
    <3> QED
      BY <3>1, <3>2, <3>3, TaskFields DEF Sound, Final, Places
  <2> QED
    BY <2>1 DEF TypeOK, SideInv, TypeInv, CallInv, Largest
<1> QED
  BY <1>1, SideInit, SideStep, PTL DEF Spec

--------------------------------------------------------------------------------
(* A client and a server: what is on its way.  A request is pending until  *)
(* its response is prepared.                                               *)
Last(s) == sent[s][Len(sent[s])]
Whole(s) == UnitsOf(s, Len(sent[s]))
Pending == Len(sent["client"]) = Len(sent["server"]) + 1

(* What side o has of the message it waits for, read or not.               *)
Stream(o) == IF task[o].at \in {"head", "body"} THEN task[o].read \o inbox[o] ELSE inbox[o]

(* A message may be on its way to o.                                       *)
Due(o) ==
  IF o = "server" THEN Pending /\ task["server"].at # "service"
                  ELSE ~Pending /\ task["client"].at \in Busy

(* The first k units of it are there: what was written so far, all of it   *)
(* if its sender waits, and a server that hung up has written all of a     *)
(* response that said close.                                               *)
OnTheWay(o, k) ==
  /\ sent[Other(o)] # <<>>
  /\ k \in 0 .. Len(Whole(Other(o)))
  /\ Stream(o) = SubSeq(Whole(Other(o)), 1, k)
  /\ task[Other(o)].at = "send" => k = task[Other(o)].written
  /\ task[Other(o)].at \in {"head", "body"} => k = Len(Whole(Other(o)))
  /\ o = "client" /\ "server" \in gone => k = Len(Whole("server")) /\ Closes(Last("server"))

Flows(o) ==
  o \notin gone =>
    /\ Due(o) => \E k \in Nat : OnTheWay(o, k)
    /\ ~Due(o) => Stream(o) = <<>>

FlowInv == \A o \in Sides : Flows(o)

(* Requests and responses take turns, and a client that may be called is   *)
(* answered, by a server that is there.                                    *)
CountInv ==
  /\ Pending \/ Len(sent["client"]) = Len(sent["server"])
  /\ task["server"].at = "service" => Pending
  /\ task["client"].at = "idle" => ~Pending /\ "server" \notin gone

(* Who dropped its socket is not at work; who sends what nobody waits for  *)
(* has sent all of it; a server means to close what says close, and then   *)
(* nobody asks it again.                                                   *)
StandInv ==
  /\ \A s \in Sides : s \in gone <=> task[s].at \in {"gone", "ended", "failed"}
  /\ task["server"].at # "refused"
  /\ \A s \in Sides :
       task[s].at = "send" /\ Other(s) \notin gone /\ ~Due(Other(s)) => task[s].written = Len(Whole(s))
  /\ task["server"].at = "send" =>
       /\ task["server"].close = Closes(Last("server"))
       /\ Pending \/ task["client"].at = "idle" => ~task["server"].close

SendableInv == \A s \in Sides : \A i \in DOMAIN sent[s] : Sendable(sent[s][i])

Net == FlowInv /\ CountInv /\ StandInv /\ SendableInv

LEMMA WholeFacts ==
  ASSUME SideInv, SendableInv, NEW s \in Sides, sent[s] # <<>>
  PROVE  /\ Len(sent[s]) \in DOMAIN sent[s] /\ Last(s) \in Messages /\ Sendable(Last(s))
         /\ Whole(s) \in Seq(Units) /\ Len(Whole(s)) = Total(Last(s)) /\ Len(Whole(s)) \in Nat
         /\ Len(Whole(s)) >= 1
         /\ \A k \in 1 .. Len(Whole(s)) :
              /\ Whole(s)[k].of = Len(sent[s]) /\ Whole(s)[k].at = k
              /\ k = 1 => Whole(s)[k].fds = Descriptors(s, Len(sent[s]))
              /\ k # 1 => Whole(s)[k].fds = <<>>
         /\ HeadSize(Last(s)) \in Nat /\ Last(s).body \in Nat
         /\ HeadSize(Last(s)) <= Len(Whole(s)) /\ IncomingLength(Last(s)) = Last(s).body
         /\ HeadSize(Last(s)) + IncomingLength(Last(s)) = Len(Whole(s))
<1>1. sent \in [Sides -> Seq(Messages)] /\ sent[s] \in Seq(Messages)
  BY DEF SideInv, TypeInv
<1>2. Len(sent[s]) \in DOMAIN sent[s]
  BY <1>1
<1>3. /\ Last(s) \in Messages /\ Whole(s) \in Seq(Units) /\ Len(Whole(s)) = Total(Last(s))
      /\ Total(Last(s)) \in Nat /\ Total(Last(s)) >= 1
      /\ \A k \in 1 .. Total(Last(s)) :
           /\ Whole(s)[k].of = Len(sent[s]) /\ Whole(s)[k].at = k
           /\ k = 1 => Whole(s)[k].fds = Descriptors(s, Len(sent[s]))
           /\ k # 1 => Whole(s)[k].fds = <<>>
  BY <1>1, <1>2, MessageUnits DEF Last, Whole
<1>4. Sendable(Last(s))
  BY <1>2 DEF SendableInv, Last
<1>5. IncomingLength(Last(s)) = Last(s).body
  BY <1>4 DEF Sendable, IncomingLength
<1>6. HeadSize(Last(s)) \in Nat /\ Last(s).body \in Nat
  BY <1>3, HeadNat, MessageFields
<1>7. Total(Last(s)) = HeadSize(Last(s)) + Last(s).body
  BY DEF Total
<1>8. HeadSize(Last(s)) <= Total(Last(s))
  BY <1>6, <1>7
<1> QED
  BY <1>2, <1>3, <1>4, <1>5, <1>6, <1>7, <1>8

(* A read by a side that follows the protocol: of the message it waits     *)
(* for, which it does not refuse.                                          *)
LEMMA ReadNet ==
  ASSUME SideInv, Net, NEW s \in Sides, NEW k \in 1 .. Len(inbox[s]),
         task[s].at \in {"head", "body"}, ReadsUnits(s, k)
  PROVE  /\ s \notin gone /\ Due(s) /\ sent[Other(s)] # <<>>
         /\ HeadOf(s, ReadBy(s, k)) = Last(Other(s))
         /\ ~Objects(s, k) /\ TakesUnits(s, k) /\ ReadBy(s, k) \o Left(s, k) = Stream(s)
         /\ Len(ReadBy(s, k)) = Len(Whole(Other(s))) =>
              /\ ReadBy(s, k) = Whole(Other(s)) /\ Left(s, k) = <<>>
              /\ FdsBy(s, k) = Descriptors(Other(s), Len(sent[Other(s)]))
              /\ OnTheWay(s, Len(Whole(Other(s))))
<1> DEFINE o == Other(s)
           W == Whole(o)
           w == Last(o)
           read == ReadBy(s, k)
           rest == Left(s, k)
           old == task[s].read
<1>1. o \in Sides /\ TypeInv /\ SoundInv
  BY SidesAre DEF SideInv
<1>2. /\ task[s] \in Tasks /\ read \in Seq(Units) /\ rest \in Seq(Units) /\ read # <<>>
      /\ Taken(s, k) \in Seq(Units) /\ Len(Taken(s, k)) = k
      /\ Len(read) = Len(old) + k /\ read \o rest = old \o inbox[s]
      /\ (old = <<>> => read = Taken(s, k))
  BY <1>1, ReadFields
<1>3. old \in Seq(Units) /\ Len(old) \in Nat /\ k \in Nat /\ k >= 1
  BY <1>2, TaskFields
<1>4. s \notin gone
  BY DEF Net, StandInv
<1>5. Stream(s) = read \o rest
  BY <1>2 DEF Stream
<1>6. Stream(s) # <<>>
  BY <1>2, <1>5, ConcatEqualIffEmpty
<1>7. Due(s)
  BY <1>4, <1>6 DEF Net, FlowInv, Flows
<1>8. PICK n \in Nat : OnTheWay(s, n)
  BY <1>4, <1>7 DEF Net, FlowInv, Flows
<1>9. sent[o] # <<>> /\ n \in 0 .. Len(W) /\ read \o rest = SubSeq(W, 1, n)
  BY <1>5, <1>8 DEF OnTheWay
<1>10. /\ w \in Messages /\ Sendable(w) /\ W \in Seq(Units) /\ Len(W) \in Nat
       /\ HeadSize(w) \in Nat /\ w.body \in Nat /\ IncomingLength(w) = w.body
       /\ HeadSize(w) + w.body = Len(W)
       /\ \A i \in 1 .. Len(W) :
            /\ W[i].of = Len(sent[o]) /\ W[i].at = i
            /\ i = 1 => W[i].fds = Descriptors(o, Len(sent[o]))
            /\ i # 1 => W[i].fds = <<>>
  BY <1>1, <1>9, WholeFacts DEF Net
<1> HIDE DEF W, w, read, rest, o
<1>11. /\ Len(read) <= n /\ Len(read) + Len(rest) = n /\ \A i \in 1 .. Len(read) : read[i] = W[i]
       /\ (Len(read) = Len(W) => read = W /\ rest = <<>>)
  <2>1. read \in Seq(Units) /\ rest \in Seq(Units) /\ W \in Seq(Units)
        /\ n \in 0 .. Len(W) /\ read \o rest = SubSeq(W, 1, n)
    BY <1>2, <1>9, <1>10
  <2> QED
    BY <2>1, Prefix
<1>12. Len(read) \in Nat /\ Len(read) >= 1 /\ Len(read) <= Len(W)
  <2>1. Len(read) \in Nat /\ n \in Nat /\ n <= Len(W)
    BY <1>2, <1>9, <1>10
  <2>2. Len(read) = Len(old) + k /\ Len(read) <= n
    BY <1>2, <1>11
  <2> QED
    BY <1>3, <1>10, <2>1, <2>2, SMTT(30)
<1>13. read[1] = W[1] /\ read[1].of = Len(sent[o]) /\ read[1].at = 1
  <2>1. 1 \in 1 .. Len(read) /\ 1 \in 1 .. Len(W)
    BY <1>10, <1>12
  <2> QED
    BY <1>10, <1>11, <2>1
<1>14. HeadOf(s, read) = w
  BY <1>13 DEF HeadOf, Peer, Last, w, o
<1>15. \A i \in 1 .. Len(Taken(s, k)) : i # 1 \/ old # <<>> => Taken(s, k)[i].fds = <<>>
  <2> SUFFICES ASSUME NEW i \in 1 .. Len(Taken(s, k)), i # 1 \/ old # <<>>
               PROVE  Taken(s, k)[i].fds = <<>>
    OBVIOUS
  <2>1. i \in 1 .. k
    BY <1>2
  <2>2. read[Len(old) + i] = Taken(s, k)[i]
    <3>1. Len(old) + i \in 1 .. Len(old) + Len(Taken(s, k)) /\ ~(Len(old) + i <= Len(old))
          /\ (Len(old) + i) - Len(old) = i
      BY <1>2, <1>3, <2>1
    <3> QED
      BY <1>2, <1>3, <3>1, ConcatProperties DEF ReadBy, read
  <2>3. Len(old) + i \in 1 .. Len(read) /\ Len(old) + i # 1 /\ Len(old) + i \in 1 .. Len(W)
    <3>1. old # <<>> => Len(old) # 0
      BY <1>3
    <3>2. Len(old) + i \in 1 .. Len(read) /\ Len(old) + i # 1
      BY <1>2, <1>3, <2>1, <3>1
    <3> QED
      BY <1>10, <1>12, <3>2
  <2> QED
    BY <1>10, <1>11, <2>2, <2>3
<1>16. old # <<>> => FdsIn(Taken(s, k)) = <<>>
  <2> SUFFICES ASSUME old # <<>> PROVE FdsIn(Taken(s, k)) = <<>>
    OBVIOUS
  <2>1. Carries(Taken(s, k)) = {}
    BY <1>2, <1>15 DEF Carries
  <2> QED
    BY <1>2, <2>1, FdsTyped
<1>17. FdsBy(s, k) = Descriptors(o, Len(sent[o]))
  <2> DEFINE D == Descriptors(o, Len(sent[o]))
  <2> SUFFICES FdsBy(s, k) = D
    OBVIOUS
  <2>1. W[1].fds = D
    BY <1>10, <1>12
  <2> HIDE DEF D
  <2>2. CASE old = <<>>
    <3>1. FdsBy(s, k) = FdsIn(Taken(s, k)) /\ Taken(s, k) = read
      BY <1>2, <2>2 DEF FdsBy, read
    <3>2. Brought(read, FdsIn(read))
      BY <1>2, <3>1, FdsTyped DEF ReadsUnits
    <3>3. 1 \in DOMAIN read /\ read[1].fds = D
      BY <1>2, <1>12, <1>13, <2>1
    <3>4. CASE D = <<>>
      <4>1. Carries(read) = {}
        BY <1>2, <1>15, <2>2, <3>1, <3>3, <3>4 DEF Carries
      <4> QED
        BY <1>2, <3>1, <3>4, <4>1, FdsTyped
    <3>5. CASE D # <<>>
      <4>1. 1 \in Carries(read)
        BY <3>3, <3>5 DEF Carries
      <4> QED
        BY <3>1, <3>2, <3>3, <4>1 DEF Brought
    <3> QED
      BY <3>4, <3>5
  <2>3. CASE old # <<>>
    <3>1. FdsBy(s, k) = task[s].fds /\ Brought(old, task[s].fds)
      BY <2>3, <1>1 DEF FdsBy, SoundInv, Sound
    <3>2. 1 \in DOMAIN old /\ 1 \in 1 .. Len(old)
      BY <1>3, <2>3
    <3>3. \A i \in 1 .. Len(old) : old[i] = W[i]
      <4>1. \A i \in 1 .. Len(old) : read[i] = old[i] /\ i \in 1 .. Len(read)
        <5>1. \A i \in 1 .. Len(old) :
                i \in 1 .. Len(old) + Len(Taken(s, k)) /\ i <= Len(old) /\ i \in 1 .. Len(read)
          BY <1>2, <1>3
        <5> QED
          BY <1>2, <1>3, <5>1, ConcatProperties DEF ReadBy, read
      <4> QED
        BY <1>11, <4>1
    <3>4. CASE D = <<>>
      <4>1. Carries(old) = {}
        <5>1. \A i \in 1 .. Len(old) : i \in 1 .. Len(W)
          BY <1>2, <1>3, <1>10, <1>12
        <5>2. \A i \in 1 .. Len(old) : old[i].fds = <<>>
          BY <1>10, <2>1, <3>3, <3>4, <5>1
        <5> QED
          BY <1>3, <5>2 DEF Carries
      <4> QED
        BY <3>1, <3>4, <4>1 DEF Brought
    <3>5. CASE D # <<>>
      <4>1. 1 \in Carries(old) /\ old[1].fds = D
        BY <2>1, <3>2, <3>3, <3>5 DEF Carries
      <4> QED
        BY <3>1, <4>1 DEF Brought
    <3> QED
      BY <3>4, <3>5
  <2> QED
    BY <2>2, <2>3 DEF D
<1>18. Unbound(FdsBy(s, k)) = Unbound(w.fds)
  <2>1. w = sent[o][Len(sent[o])] /\ w.fds \in Seq(Slots)
    BY <1>10, MessageFields DEF w, Last
  <2>2. Len(w.fds) \in Nat /\ DOMAIN w.fds = 1 .. Len(w.fds)
    BY <2>1
  <2>3. DOMAIN FdsBy(s, k) = 1 .. Len(w.fds)
    BY <1>17, <2>1 DEF Descriptors
  <2> QED
    BY <2>2, <2>3 DEF Unbound
<1>19. ~Objects(s, k)
  <2>1. ~(old # <<>> /\ FdsIn(Taken(s, k)) # <<>>)
    BY <1>16
  <2>2. ~Garbled(read)
    BY <1>13 DEF Garbled
  <2>3. /\ w.valid /\ HeadSize(w) <= MaxHeaderBytes /\ ~InspectRefuses(w)
        /\ (IsRequest(w) => w.host # <<>>)
        /\ IncomingLengths(w) = {w.body} /\ w.body <= MaxBodyBytes
        /\ (w.names # <<>> => ~BindRefuses(Unbound(w.fds), w.names[1]))
    BY <1>10 DEF Sendable
  <2>4. ASSUME Len(read) >= HeadSize(w)
        PROVE  ~HeadRefused(w, Len(read) - HeadSize(w), Unbound(FdsBy(s, k)))
    <3> DEFINE d == Len(read) - HeadSize(w)
    <3>1. d <= w.body /\ ~(d > w.body) /\ ~(w.body > MaxBodyBytes) /\ ~(HeadSize(w) > MaxHeaderBytes)
      BY <1>10, <1>12, <2>3, <2>4, LargestNat
    <3> HIDE DEF d
    <3>2. ~HeadRefused(w, d, Unbound(w.fds))
      BY <2>3, <3>1 DEF HeadRefused
    <3> QED
      BY <1>18, <3>2 DEF d
  <2>5. ASSUME Parsed(s, read)
        PROVE  ~HeadRefused(w, Len(read) - HeadSize(w), Unbound(FdsBy(s, k)))
    BY <1>14, <2>4, <2>5 DEF Parsed
  <2>6. ~(~Parsed(s, read) /\ Len(read) >= MaxHeaderBytes)
    <3>1. Len(read) >= MaxHeaderBytes => Len(read) >= HeadSize(w)
      BY <1>10, <1>12, <2>3, LargestNat
    <3> QED
      BY <1>14, <2>2, <3>1 DEF Parsed
  <2> QED
    BY <1>14, <2>1, <2>2, <2>5, <2>6 DEF Objects, read
<1>20. TakesUnits(s, k)
  BY <1>19 DEF ReadsUnits
<1>21. Len(read) = Len(W) => n = Len(W)
  BY <1>9, <1>10, <1>11, <1>12
<1> QED
  BY <1>4, <1>5, <1>7, <1>8, <1>9, <1>11, <1>14, <1>17, <1>19, <1>20, <1>21 DEF read, rest, W, w, o

--------------------------------------------------------------------------------
(* What each kind of step does to it.                                      *)
LEMMA SameMessages ==
  ASSUME NEW s, sent'[s] = sent[s]
  PROVE  /\ Whole(s)' = Whole(s) /\ Last(s)' = Last(s)
         /\ \A i : Descriptors(s, i)' = Descriptors(s, i) /\ UnitsOf(s, i)' = UnitsOf(s, i)
BY DEF Whole, Last, UnitsOf, Descriptors

LEMMA NetPlaces ==
  ASSUME SideInv, ~IsRaw
  PROVE  /\ task["client"].at \in Busy \cup {"idle", "gone"}
         /\ task["server"].at \in Busy \cup {"service", "ended", "failed", "refused"}
BY DEF SideInv, CallInv

(* The client drops its socket.                                            *)
LEMMA ClientQuits ==
  ASSUME SideInv, Net, ~IsRaw,
         task'["client"].at = "gone", task'["server"] = task["server"],
         inbox'["server"] = inbox["server"], gone' = gone \cup {"client"}, sent' = sent
  PROVE  Net'
<1> USE SidesAre
<1>1. /\ \A s \in Sides : Whole(s)' = Whole(s) /\ Last(s)' = Last(s)
      /\ Pending' <=> Pending
  BY SameMessages DEF Pending
<1>2. (Due("server")' <=> Due("server")) /\ Stream("server")' = Stream("server")
  BY <1>1 DEF Due, Stream
<1>3. FlowInv'
  <2>1. Flows("client")'
    BY DEF Flows
  <2>2. ASSUME NEW k \in Nat, OnTheWay("server", k) PROVE OnTheWay("server", k)'
    BY <1>1, <1>2, <2>2 DEF OnTheWay
  <2>3. "server" \notin gone' => "server" \notin gone
    OBVIOUS
  <2>4. Flows("server")'
    BY <1>2, <2>2, <2>3 DEF Flows, Net, FlowInv
  <2> QED
    BY <2>1, <2>4 DEF FlowInv, Sides
<1>4. CountInv'
  BY <1>1 DEF CountInv, Net
<1>5. StandInv'
  <2>1. \A s \in Sides : s \in gone' <=> task'[s].at \in {"gone", "ended", "failed"}
    BY DEF Net, StandInv, Sides
  <2>2. "client" \in gone'
    OBVIOUS
  <2> QED
    BY <1>1, <2>1, <2>2 DEF StandInv, Net, Sides
<1>6. SendableInv'
  BY DEF SendableInv, Net
<1> QED
  BY <1>3, <1>4, <1>5, <1>6 DEF Net

(* The server drops its socket: nothing was due to a client that is there, *)
(* or all of a response that said close is on its way.                     *)
LEMMA ServerQuits ==
  ASSUME SideInv, Net, ~IsRaw,
         task'["server"].at \in {"ended", "failed"}, task'["client"] = task["client"],
         inbox'["client"] = inbox["client"], gone' = gone \cup {"server"}, sent' = sent,
         \/ "client" \in gone
         \/ /\ task["client"].at \in Busy
            /\ \/ Pending
               \/ /\ task["server"].at = "send" /\ Closes(Last("server"))
                  /\ task["server"].written = Len(Whole("server"))
  PROVE  Net'
<1> USE SidesAre
<1>1. /\ \A s \in Sides : Whole(s)' = Whole(s) /\ Last(s)' = Last(s)
      /\ Pending' <=> Pending
  BY SameMessages DEF Pending
<1>2. (Due("client")' <=> Due("client")) /\ Stream("client")' = Stream("client")
  BY <1>1 DEF Due, Stream
<1>3. FlowInv'
  <2>1. Flows("server")'
    BY DEF Flows
  <2>2. ASSUME NEW k \in Nat, OnTheWay("client", k), "client" \notin gone, Due("client")
        PROVE  OnTheWay("client", k)'
    <3>1. /\ task["server"].at = "send" /\ Closes(Last("server"))
          /\ task["server"].written = Len(Whole("server"))
      BY <2>2 DEF Due
    <3>2. k = Len(Whole("server"))
      BY <2>2, <3>1 DEF OnTheWay
    <3> QED
      BY <1>1, <1>2, <2>2, <3>1, <3>2 DEF OnTheWay
  <2>3. "client" \notin gone' => "client" \notin gone
    OBVIOUS
  <2>4. Flows("client")'
    BY <1>2, <2>2, <2>3 DEF Flows, Net, FlowInv
  <2> QED
    BY <2>1, <2>4 DEF FlowInv, Sides
<1>4. CountInv'
  <2>1. task["client"].at # "idle"
    <3>1. "client" \in gone => task["client"].at # "idle"
      BY DEF Net, StandInv
    <3> QED
      BY <3>1 DEF Busy
  <2> QED
    BY <1>1, <2>1 DEF CountInv, Net
<1>5. StandInv'
  <2>1. \A s \in Sides : s \in gone' <=> task'[s].at \in {"gone", "ended", "failed"}
    BY DEF Net, StandInv, Sides
  <2>2. "server" \in gone'
    OBVIOUS
  <2> QED
    BY <1>1, <2>1, <2>2 DEF StandInv, Net, Sides
<1>6. SendableInv'
  BY DEF SendableInv, Net
<1> QED
  BY <1>3, <1>4, <1>5, <1>6 DEF Net

(* A side that nothing is on its way to.                                   *)
LEMMA StreamEmpty ==
  ASSUME SideInv, Net, NEW o \in Sides, o \notin gone, ~Due(o)
  PROVE  /\ Stream(o) = <<>> /\ inbox[o] = <<>> /\ task[o].at # "body"
         /\ task[o].at = "head" => task[o].read = <<>>
<1>1. Stream(o) = <<>>
  BY DEF Net, FlowInv, Flows
<1>2. task[o].read \in Seq(Units) /\ inbox[o] \in Seq(Units)
  BY TaskFields DEF SideInv, TypeInv
<1>3. CASE task[o].at \in {"head", "body"}
  <2>1. task[o].read = <<>> /\ inbox[o] = <<>>
    BY <1>1, <1>2, <1>3, ConcatEqualIffEmpty DEF Stream
  <2>2. task[o].at = "body" => task[o].read # <<>>
    BY DEF SideInv, SoundInv, Sound, Began
  <2> QED
    BY <1>1, <2>1, <2>2
<1>4. CASE task[o].at \notin {"head", "body"}
  BY <1>1, <1>4 DEF Stream
<1> QED
  BY <1>3, <1>4

LEMMA WholeTyped ==
  SideInv /\ SendableInv => \A s \in Sides : sent[s] # <<>> => Whole(s) \in Seq(Units)
BY WholeFacts

LEMMA WholeTypedNext ==
  SideInv' /\ SendableInv' => (\A s \in Sides : sent[s] # <<>> => Whole(s) \in Seq(Units))'
BY WholeTyped, PTL

LEMMA NothingYet ==
  ASSUME SideInv', SendableInv', NEW s \in Sides, sent'[s] # <<>>
  PROVE  0 \in 0 .. Len(Whole(s)') /\ SubSeq(Whole(s)', 1, 0) = <<>>
<1>1. Whole(s)' \in Seq(Units)
  BY WholeTypedNext
<1>2. \A q : SubSeq(q, 1, 0) = <<>>
  BY SubSeqEmpty
<1> QED
  BY <1>1, <1>2

(* The messages of s with one more.                                        *)
LEMMA OneMore ==
  ASSUME SideInv, SendableInv, NEW s \in Sides, NEW w \in Messages, Sendable(w),
         sent' = [sent EXCEPT ![s] = Append(@, w)]
  PROVE  /\ Len(sent'[s]) = Len(sent[s]) + 1 /\ Len(sent[s]) \in Nat /\ sent'[s] # <<>>
         /\ Last(s)' = w /\ sent'[Other(s)] = sent[Other(s)] /\ SendableInv'
<1>1. sent[s] \in Seq(Messages) /\ sent \in [Sides -> Seq(Messages)]
  BY DEF SideInv, TypeInv
<1>2. sent'[s] = Append(sent[s], w) /\ \A o \in Sides : o # s => sent'[o] = sent[o]
  BY <1>1
<1>3. /\ Len(sent'[s]) = Len(sent[s]) + 1 /\ Len(sent[s]) \in Nat /\ sent'[s] # <<>>
      /\ sent'[s][Len(sent'[s])] = w
      /\ \A i \in DOMAIN sent'[s] : i = Len(sent[s]) + 1 \/ (i \in DOMAIN sent[s] /\ sent'[s][i] = sent[s][i])
  <2>1. /\ Append(sent[s], w) \in Seq(Messages) /\ Append(sent[s], w) # <<>>
        /\ Len(Append(sent[s], w)) = Len(sent[s]) + 1
        /\ \A i \in 1 .. Len(sent[s]) : Append(sent[s], w)[i] = sent[s][i]
        /\ Append(sent[s], w)[Len(sent[s]) + 1] = w
    BY <1>1, AppendProperties
  <2>2. Len(sent[s]) \in Nat /\ DOMAIN sent[s] = 1 .. Len(sent[s])
    BY <1>1
  <2> QED
    BY <1>2, <2>1, <2>2
<1>4. SendableInv'
  <2> SUFFICES ASSUME NEW o \in Sides, NEW i \in DOMAIN sent'[o] PROVE Sendable(sent'[o][i])
    BY DEF SendableInv
  <2>1. CASE o = s
    BY <1>3, <2>1 DEF SendableInv
  <2>2. CASE o # s
    BY <1>2, <2>2 DEF SendableInv
  <2> QED
    BY <2>1, <2>2
<1> QED
  BY <1>2, <1>3, <1>4, SidesAre DEF Last

(* A call begins: the request is pending, and none of it is on its way.    *)
LEMMA CallNet ==
  ASSUME SideInv, Net, ~IsRaw, SideInv',
         task["client"].at = "idle", NEW w \in Messages, Sendable(w),
         task'["client"].at = "send", task'["client"].written = 0,
         task'["server"] = task["server"], sent' = [sent EXCEPT !["client"] = Append(@, w)],
         UNCHANGED <<inbox, gone>>
  PROVE  Net'
<1> USE SidesAre
<1>1. /\ ~Pending /\ Len(sent["client"]) = Len(sent["server"]) /\ "server" \notin gone
      /\ "client" \notin gone
  BY DEF Net, CountInv, StandInv
<1>2. ~Due("client") /\ ~Due("server")
  BY <1>1 DEF Due, Busy
<1>3. /\ Len(sent'["client"]) = Len(sent["client"]) + 1 /\ Len(sent["client"]) \in Nat
      /\ sent'["client"] # <<>> /\ sent'["server"] = sent["server"] /\ SendableInv'
  BY OneMore DEF Net
<1>4. Pending'
  BY <1>1, <1>3 DEF Pending
<1>5. Whole("server")' = Whole("server") /\ Last("server")' = Last("server")
  BY <1>3, SameMessages
<1>6. task["server"].at # "service"
  BY <1>1 DEF Net, CountInv
<1>7. FlowInv'
  <2>1. Stream("server")' = <<>> /\ Stream("client")' = <<>>
    <3>1. Stream("server") = <<>> /\ inbox["client"] = <<>>
      BY <1>1, <1>2, StreamEmpty
    <3> QED
      BY <3>1 DEF Stream
  <2>2. ~Due("client")'
    BY <1>4 DEF Due
  <2>3. OnTheWay("server", 0)'
    <3>1. 0 \in 0 .. Len(Whole("client")') /\ SubSeq(Whole("client")', 1, 0) = <<>>
      BY <1>3, NothingYet
    <3> QED
      BY <1>3, <2>1, <3>1 DEF OnTheWay
  <2> QED
    BY <2>1, <2>2, <2>3 DEF FlowInv, Flows, Sides
<1>8. CountInv'
  BY <1>3, <1>4 DEF CountInv
<1>9. StandInv'
  <2>1. Due("server")'
    BY <1>4, <1>6 DEF Due
  <2>2. \A s \in Sides : s \in gone' <=> task'[s].at \in {"gone", "ended", "failed"}
    BY <1>1 DEF Net, StandInv, Sides
  <2>3. task["server"].at = "send" => task["server"].written = Len(Whole("server"))
                                      /\ ~task["server"].close
    BY <1>1, <1>2 DEF Net, StandInv
  <2> QED
    BY <1>5, <2>1, <2>2, <2>3 DEF StandInv, Net, Sides
<1> QED
  BY <1>3, <1>7, <1>8, <1>9 DEF Net

(* The response to the pending request is prepared.                        *)
LEMMA ServeNet ==
  ASSUME SideInv, Net, ~IsRaw, SideInv',
         task["server"].at = "service", NEW w \in Messages, Sendable(w),
         task'["server"].at = "send", task'["server"].written = 0,
         task'["server"].close = Closes(w),
         task'["client"] = task["client"], sent' = [sent EXCEPT !["server"] = Append(@, w)],
         UNCHANGED <<inbox, gone>>
  PROVE  Net'
<1> USE SidesAre
<1>1. /\ Pending /\ "server" \notin gone /\ ~Due("client") /\ ~Due("server")
      /\ task["client"].at # "idle"
  BY DEF Net, CountInv, StandInv, Due
<1>2. /\ Len(sent'["server"]) = Len(sent["server"]) + 1 /\ Len(sent["server"]) \in Nat
      /\ sent'["server"] # <<>> /\ sent'["client"] = sent["client"] /\ SendableInv'
      /\ Last("server")' = w
  BY OneMore DEF Net
<1>3. ~Pending' /\ Len(sent'["client"]) = Len(sent'["server"])
  BY <1>1, <1>2 DEF Pending
<1>4. Whole("client")' = Whole("client") /\ Last("client")' = Last("client")
  BY <1>2, SameMessages
<1>5. "client" \notin gone => task["client"].at \in Busy
  <2>1. task["client"].at # "gone" => task["client"].at \in Busy
    BY <1>1, NetPlaces
  <2>2. task["client"].at = "gone" => "client" \in gone
    BY DEF Net, StandInv
  <2> QED
    BY <2>1, <2>2
<1>6. FlowInv'
  <2>1. Stream("server")' = <<>>
    BY <1>1, StreamEmpty DEF Stream
  <2>2. ~Due("server")'
    BY <1>3 DEF Due
  <2>3. ASSUME "client" \notin gone PROVE OnTheWay("client", 0)'
    <3>1. 0 \in 0 .. Len(Whole("server")') /\ SubSeq(Whole("server")', 1, 0) = <<>>
      BY <1>2, NothingYet
    <3>2. Stream("client")' = <<>>
      BY <1>1, <2>3, StreamEmpty DEF Stream
    <3> QED
      BY <1>1, <1>2, <3>1, <3>2 DEF OnTheWay
  <2>4. ASSUME "client" \notin gone PROVE Due("client")'
    BY <1>3, <1>5, <2>4 DEF Due
  <2> QED
    BY <2>1, <2>2, <2>3, <2>4 DEF FlowInv, Flows, Sides
<1>7. CountInv'
  BY <1>1, <1>3 DEF CountInv
<1>8. StandInv'
  <2>1. \A s \in Sides : s \in gone' <=> task'[s].at \in {"gone", "ended", "failed"}
    BY <1>1 DEF Net, StandInv, Sides
  <2>2. task["client"].at = "send" => task["client"].written = Len(Whole("client"))
    BY <1>1 DEF Net, StandInv
  <2>3. "client" \notin gone => Due("client")'
    BY <1>3, <1>5 DEF Due
  <2> QED
    BY <1>1, <1>2, <1>3, <1>4, <2>1, <2>2, <2>3 DEF StandInv, Sides
<1> QED
  BY <1>2, <1>6, <1>7, <1>8 DEF Net

(* Tasks and sockets move, and nothing else: who waits for what is as it   *)
(* was.                                                                    *)
LEMMA SameFrame ==
  ASSUME UNCHANGED <<sent, gone>>
  PROVE  /\ \A s : Whole(s)' = Whole(s) /\ Last(s)' = Last(s)
         /\ Pending' <=> Pending
         /\ SendableInv' <=> SendableInv
BY SameMessages DEF Pending, SendableInv

LEMMA UnitsAssociative ==
  ASSUME NEW a \in Seq(Units), NEW b \in Seq(Units), NEW c \in Seq(Units)
  PROVE  a \o (b \o c) = (a \o b) \o c
BY Associative

LEMMA SendNet ==
  ASSUME SideInv, Net, ~IsRaw, NEW s \in Sides, Send(s)
  PROVE  Net'
<1> USE SidesAre
<1> PICK o \in Sides : o = Other(s)
  OBVIOUS
<1> DEFINE W == Whole(s)
           h == task[s].written
<1>1. task[s].at = "send" /\ o \notin gone /\ o \in Sides /\ o # s
  BY SendIs
<1>2. PICK n \in 1 .. Len(W) - h :
        /\ SendsUnits(s, n)
        /\ More(s, n) \in Seq(Units)
        /\ SubSeq(W, 1, h) \o More(s, n) = SubSeq(W, 1, h + n)
  BY SendIs DEF Whole
<1>3. /\ task[s] \in Tasks /\ task[o] \in Tasks /\ h \in Nat /\ h \in 0 .. Len(W)
      /\ W \in Seq(Units) /\ Len(W) \in Nat /\ inbox[o] \in Seq(Units)
      /\ task \in [Sides -> Tasks] /\ inbox \in [Sides -> Seq(Units)]
  BY <1>1, SendingFacts DEF Whole, SideInv, TypeInv
<1> HIDE DEF W, h
<1>4. /\ task'[s] = [task[s] EXCEPT !.written = h + n] /\ task'[o] = task[o]
      /\ inbox'[s] = inbox[s] /\ inbox'[o] = inbox[o] \o More(s, n)
      /\ UNCHANGED <<raw, gone, sent>>
  BY <1>1, <1>2, <1>3 DEF SendsUnits, h
<1>5. task'[s].at = "send" /\ task'[s].written = h + n /\ task'[s].close = task[s].close
  BY <1>1, <1>3, <1>4 DEF Tasks
<1>6. /\ \A r : Whole(r)' = Whole(r) /\ Last(r)' = Last(r)
      /\ (Pending' <=> Pending) /\ SendableInv'
  BY <1>4, SameFrame DEF Net
<1>7. \A r \in Sides : r = s \/ r = o
  OBVIOUS
<1>8. \A r \in Sides : (Due(r)' <=> Due(r)) /\ task'[r].at = task[r].at
  <2>1. task'[s].at = task[s].at /\ task'[o].at = task[o].at
    BY <1>1, <1>4, <1>5
  <2>2. task'["client"].at = task["client"].at /\ task'["server"].at = task["server"].at
    BY <1>7, <2>1
  <2>3. \A r \in Sides : Due(r)' <=> Due(r)
    BY <1>6, <2>2 DEF Due
  <2> QED
    BY <1>7, <2>1, <2>3
<1>9. h # Len(W) /\ h + n \in 0 .. Len(W) /\ h + n \in Nat
  BY <1>2, <1>3
<1>10. Due(o)
  BY <1>1, <1>9 DEF Net, StandInv, W, h
<1>11. Flows(o)'
  <2>1. PICK k \in Nat : OnTheWay(o, k)
    BY <1>1, <1>10 DEF Net, FlowInv, Flows
  <2>2. Other(o) = s
    OBVIOUS
  <2>3. sent[s] # <<>> /\ k = h /\ Stream(o) = SubSeq(W, 1, h)
        /\ (o = "client" => "server" \notin gone)
    <3>1. o = "client" => s = "server" /\ s \notin gone
      BY <1>1, <2>2 DEF Net, StandInv
    <3> QED
      BY <1>1, <2>1, <2>2, <3>1 DEF OnTheWay, W, h
  <2>4. Stream(o)' = Stream(o) \o More(s, n)
    <3>1. CASE task[o].at \in {"head", "body"}
      <4>1. task[o].read \in Seq(Units)
        BY <1>3, TaskFields
      <4>2. task[o].read \o (inbox[o] \o More(s, n)) = (task[o].read \o inbox[o]) \o More(s, n)
        <5>1. inbox[o] \in Seq(Units) /\ More(s, n) \in Seq(Units)
          BY <1>2, <1>3
        <5> QED
          BY ONLY <4>1, <5>1, UnitsAssociative
      <4> QED
        BY <1>4, <3>1, <4>2 DEF Stream
    <3>2. CASE task[o].at \notin {"head", "body"}
      BY <1>4, <3>2 DEF Stream
    <3> QED
      BY <3>1, <3>2
  <2>5. Stream(o)' = SubSeq(W, 1, h + n)
    BY <1>2, <2>3, <2>4
  <2>6. PICK j \in Nat : j = h + n
    BY <1>9
  <2>7. OnTheWay(o, j)'
    BY <1>4, <1>5, <1>6, <1>9, <2>2, <2>3, <2>5, <2>6 DEF OnTheWay, W
  <2> QED
    BY <1>8, <1>10, <2>7 DEF Flows
<1>12. Flows(s)'
  <2>1. Stream(s)' = Stream(s)
    BY <1>4, <1>8 DEF Stream
  <2>2. ASSUME NEW k \in Nat, OnTheWay(s, k) PROVE OnTheWay(s, k)'
    BY <1>4, <1>6, <2>1, <2>2 DEF OnTheWay
  <2> QED
    BY <1>4, <1>8, <2>1, <2>2 DEF Flows, Net, FlowInv
<1>13. CountInv'
  BY <1>4, <1>6, <1>8 DEF CountInv, Net
<1>14. StandInv'
  <2>1. task'["server"].close = task["server"].close
    BY <1>4, <1>5, <1>7
  <2>2. ASSUME NEW r \in Sides, task'[r].at = "send", Other(r) \notin gone', ~Due(Other(r))'
        PROVE  task'[r].written = Len(Whole(r)')
    <3>1. r # s
      BY <1>8, <1>10, <2>2
    <3>2. task'[r] = task[r]
      BY <1>4, <1>7, <3>1
    <3> QED
      BY <1>4, <1>6, <1>8, <2>2, <3>2 DEF Net, StandInv
  <2> QED
    BY <1>4, <1>6, <1>8, <2>1, <2>2 DEF StandInv, Net
<1> QED
  BY <1>6, <1>7, <1>11, <1>12, <1>13, <1>14 DEF Net, FlowInv

(* A side that has sent its message, or read some of one, reads on.        *)
LEMMA ReadsOn ==
  ASSUME SideInv, Net, NEW s \in Sides, UNCHANGED <<sent, gone>>,
         task[s].at \in Busy, task'[s].at \in {"head", "body"},
         task[s].at = "send" => task[s].written = Len(Whole(s)),
         task'[Other(s)] = task[Other(s)], \A r \in Sides : Stream(r)' = Stream(r)
  PROVE  Net'
<1> USE SidesAre
<1> PICK o \in Sides : o = Other(s)
  OBVIOUS
<1>1. /\ \A r : Whole(r)' = Whole(r) /\ Last(r)' = Last(r)
      /\ (Pending' <=> Pending) /\ SendableInv'
  BY SameFrame DEF Net
<1>2. \A r \in Sides : r = s \/ r = o
  OBVIOUS
<1>3. task'[o] = task[o] /\ o # s
  OBVIOUS
<1>4. \A r \in Sides :
        /\ task'[r].at \in Busy <=> task[r].at \in Busy
        /\ task'[r].at = "service" <=> task[r].at = "service"
        /\ task'[r].at = "idle" <=> task[r].at = "idle"
        /\ task'[r].at \in {"gone", "ended", "failed"} <=> task[r].at \in {"gone", "ended", "failed"}
        /\ task'[r].at = "refused" <=> task[r].at = "refused"
        /\ task'[r].at = "send" => r = o
  <2> TAKE r \in Sides
  <2>1. CASE r = s
    BY <2>1 DEF Busy
  <2>2. CASE r = o
    BY <1>3, <2>2
  <2> QED
    BY <1>2, <2>1, <2>2
<1>5. \A r \in Sides : Due(r)' <=> Due(r)
  BY <1>1, <1>4 DEF Due
<1>6. ASSUME NEW r \in Sides, NEW k \in Nat, OnTheWay(r, k) PROVE OnTheWay(r, k)'
  <2>1. CASE r = s
    BY <1>1, <1>3, <1>6, <2>1 DEF OnTheWay
  <2>2. CASE r = o
    <3>1. Other(r) = s
      BY <2>2
    <3>2. task[s].at \in {"send", "head", "body"} => k = Len(Whole(s))
      BY <1>6, <3>1 DEF OnTheWay
    <3> QED
      BY <1>1, <1>6, <3>1, <3>2 DEF OnTheWay, Busy
  <2> QED
    BY <1>2, <2>1, <2>2
<1>7. FlowInv'
  BY <1>5, <1>6 DEF FlowInv, Flows, Net
<1>8. CountInv'
  BY <1>1, <1>4 DEF CountInv, Net
<1>9. StandInv'
  <2>1. \A r \in Sides : task'[r].at = "send" => task'[r] = task[r]
    BY <1>3, <1>4
  <2> QED
    BY <1>1, <1>4, <1>5, <2>1 DEF StandInv, Net
<1> QED
  BY <1>1, <1>7, <1>8, <1>9 DEF Net

LEMMA TurnsNet ==
  ASSUME SideInv, Net, NEW s \in Sides, task[s].at = "send", Unwritten(s) = <<>>, Turns(s)
  PROVE  Net'
<1> USE SidesAre
<1>1. task[s].written = Len(Whole(s))
  <2>1. /\ task[s].written \in 0 .. Len(Whole(s)) /\ Len(Unwritten(s)) = Len(Whole(s)) - task[s].written
        /\ Whole(s) \in Seq(Units)
    BY SendingFacts DEF Whole
  <2>2. Len(Unwritten(s)) = 0 /\ Len(Whole(s)) \in Nat
    BY <2>1
  <2> QED
    BY <2>1, <2>2
<1>2. /\ task'[s] = Receiving(task[s]) /\ \A r \in Sides : r # s => task'[r] = task[r]
      /\ UNCHANGED <<sent, gone, inbox>>
  BY DEF Turns, SideInv, TypeInv
<1>3. task'[s].at = "head" /\ task'[s].read = <<>>
  BY <1>2, ReceivingIs DEF SideInv, TypeInv
<1>4. \A r \in Sides : Stream(r)' = Stream(r)
  <2> TAKE r \in Sides
  <2>1. CASE r = s
    <3>1. <<>> \o inbox[s] = inbox[s]
      BY ConcatEmptySeq DEF SideInv, TypeInv
    <3> QED
      BY <1>2, <1>3, <2>1, <3>1 DEF Stream
  <2>2. CASE r # s
    BY <1>2, <2>2 DEF Stream
  <2> QED
    BY <2>1, <2>2
<1> QED
  BY <1>1, <1>2, <1>3, <1>4, ReadsOn DEF Busy

LEMMA GoesNet ==
  ASSUME SideInv, Net, NEW s \in Sides, NEW k \in 1 .. Len(inbox[s]), NEW t \in Tasks,
         task[s].at \in {"head", "body"}, Goes(s, k, t), t.at \in {"head", "body"},
         t.read = ReadBy(s, k), ReadBy(s, k) \o Left(s, k) = Stream(s)
  PROVE  Net'
<1> USE SidesAre
<1>1. /\ task'[s] = t /\ inbox'[s] = Left(s, k)
      /\ \A r \in Sides : r # s => task'[r] = task[r] /\ inbox'[r] = inbox[r]
      /\ UNCHANGED <<sent, gone>>
  BY DEF Goes, SideInv, TypeInv
<1>2. \A r \in Sides : Stream(r)' = Stream(r)
  <2> TAKE r \in Sides
  <2>1. CASE r = s
    <3>1. Stream(r)' = t.read \o Left(s, k)
      BY <1>1, <2>1 DEF Stream
    <3> QED
      BY <2>1, <3>1
  <2>2. CASE r # s
    BY <1>1, <2>2 DEF Stream
  <2> QED
    BY <2>1, <2>2
<1> QED
  BY <1>1, <1>2, ReadsOn DEF Busy

(* A request is read to its end.                                           *)
LEMMA RequestNet ==
  ASSUME SideInv, Net, ~IsRaw, task["server"].at \in {"head", "body"}, "server" \notin gone,
         Due("server"), OnTheWay("server", Len(Whole("client"))),
         task'["server"].at = "service", task'["client"] = task["client"],
         inbox'["server"] = <<>>, inbox'["client"] = inbox["client"], UNCHANGED <<sent, gone>>
  PROVE  Net'
<1> USE SidesAre
<1>1. /\ \A r : Whole(r)' = Whole(r) /\ Last(r)' = Last(r)
      /\ (Pending' <=> Pending) /\ SendableInv'
  BY SameFrame DEF Net
<1>2. Pending
  BY DEF Due
<1>3. FlowInv'
  <2>1. ~Due("server")' /\ ~Due("client")' /\ ~Due("client")
    BY <1>1, <1>2 DEF Due
  <2>2. Stream("server")' = <<>> /\ Stream("client")' = Stream("client")
    BY DEF Stream
  <2> QED
    BY <2>1, <2>2 DEF FlowInv, Flows, Net, Sides
<1>4. CountInv'
  BY <1>1, <1>2 DEF CountInv, Net
<1>5. StandInv'
  <2>1. \A s \in Sides : s \in gone' <=> task'[s].at \in {"gone", "ended", "failed"}
    BY DEF Net, StandInv, Sides
  <2>2. task["client"].at = "send" => task["client"].written = Len(Whole("client"))
    BY DEF OnTheWay
  <2> QED
    BY <1>1, <2>1, <2>2 DEF StandInv, Sides
<1> QED
  BY <1>1, <1>3, <1>4, <1>5 DEF Net

(* A response is read to its end, and nobody said close.                   *)
LEMMA ResponseNet ==
  ASSUME SideInv, Net, ~IsRaw, task["client"].at \in {"head", "body"}, "client" \notin gone,
         Due("client"), OnTheWay("client", Len(Whole("server"))), ~Closes(Last("server")),
         task'["client"].at = "idle", task'["server"] = task["server"],
         inbox'["client"] = <<>>, inbox'["server"] = inbox["server"], UNCHANGED <<sent, gone>>
  PROVE  Net'
<1> USE SidesAre
<1>1. /\ \A r : Whole(r)' = Whole(r) /\ Last(r)' = Last(r)
      /\ (Pending' <=> Pending) /\ SendableInv'
  BY SameFrame DEF Net
<1>2. ~Pending /\ "server" \notin gone
  BY DEF Due, OnTheWay
<1>3. FlowInv'
  <2>1. ~Due("server")' /\ ~Due("client")' /\ ~Due("server")
    BY <1>1, <1>2 DEF Due, Busy
  <2>2. Stream("client")' = <<>> /\ Stream("server")' = Stream("server")
    BY DEF Stream
  <2> QED
    BY <2>1, <2>2 DEF FlowInv, Flows, Net, Sides
<1>4. CountInv'
  BY <1>1, <1>2 DEF CountInv, Net
<1>5. StandInv'
  <2>1. \A s \in Sides : s \in gone' <=> task'[s].at \in {"gone", "ended", "failed"}
    BY DEF Net, StandInv, Sides
  <2>2. task["server"].at = "send" =>
          /\ task["server"].written = Len(Whole("server")) /\ ~task["server"].close
          /\ task["server"].close = Closes(Last("server"))
    BY DEF OnTheWay, Net, StandInv
  <2>3. task["server"].at # "refused"
    BY DEF Net, StandInv
  <2> QED
    BY <1>1, <2>1, <2>2, <2>3 DEF StandInv, Sides
<1> QED
  BY <1>1, <1>3, <1>4, <1>5 DEF Net

LEMMA NothingMoves ==
  ASSUME Net, UNCHANGED <<task, sent, inbox, gone>>
  PROVE  Net'
<1>1. /\ \A r : Whole(r)' = Whole(r) /\ Last(r)' = Last(r)
      /\ (Pending' <=> Pending) /\ SendableInv'
  BY SameFrame DEF Net
<1>2. \A r \in Sides : (Due(r)' <=> Due(r)) /\ Stream(r)' = Stream(r)
  BY <1>1 DEF Due, Stream
<1>3. \A r \in Sides, k \in Nat : OnTheWay(r, k) => OnTheWay(r, k)'
  BY <1>1, <1>2 DEF OnTheWay
<1>4. FlowInv'
  BY <1>2, <1>3 DEF FlowInv, Flows, Net
<1>5. CountInv' /\ StandInv'
  BY <1>1, <1>2, SidesAre DEF CountInv, StandInv, Net
<1> QED
  BY <1>1, <1>4, <1>5 DEF Net

LEMMA BreakIs ==
  ASSUME SideInv, NEW s \in Sides, NEW why, NEW unread, Break(s, why, unread)
  PROVE  /\ task'[s].at = IF s = "client" THEN "gone" ELSE why
         /\ task'[Other(s)] = task[Other(s)] /\ inbox'[Other(s)] = inbox[Other(s)]
         /\ gone' = gone \cup {s} /\ sent' = sent /\ raw' = raw /\ served' = served
<1> USE SidesAre
<1> DEFINE t == [AtRest EXCEPT !.at = IF s = "client" THEN "gone" ELSE why]
<1>1. t.at = IF s = "client" THEN "gone" ELSE why
  BY DEF AtRest
<1>2. task' = [task EXCEPT ![s] = t] /\ inbox' = [inbox EXCEPT ![s] = <<>>]
      /\ gone' = gone \cup {s} /\ sent' = sent /\ raw' = raw /\ served' = served
  BY DEF Break, DropSocket
<1> HIDE DEF t
<1> QED
  BY <1>1, <1>2 DEF SideInv, TypeInv

LEMMA ClientBreaks ==
  ASSUME SideInv, Net, ~IsRaw, NEW why, NEW unread, Break("client", why, unread)
  PROVE  Net'
<1> USE SidesAre
<1>1. /\ task'["client"].at = "gone" /\ task'["server"] = task["server"]
      /\ inbox'["server"] = inbox["server"] /\ gone' = gone \cup {"client"} /\ sent' = sent
  BY BreakIs
<1> QED
  BY <1>1, ClientQuits

LEMMA ServerBreaks ==
  ASSUME SideInv, Net, ~IsRaw, NEW why \in {"ended", "failed"}, NEW unread,
         Break("server", why, unread),
         \/ "client" \in gone
         \/ task["server"].at = "service"
         \/ task["server"].at = "send" /\ Unwritten("server") = <<>> /\ task["server"].close
  PROVE  Net'
<1> USE SidesAre
<1>1. /\ task'["server"].at \in {"ended", "failed"} /\ task'["client"] = task["client"]
      /\ inbox'["client"] = inbox["client"] /\ gone' = gone \cup {"server"} /\ sent' = sent
  BY BreakIs
<1>2. "client" \notin gone => task["client"].at \in Busy \cup {"idle"}
  <2>1. task["client"].at = "gone" => "client" \in gone
    BY DEF Net, StandInv
  <2> QED
    BY <2>1, NetPlaces
<1>3. CASE "client" \in gone
  BY <1>1, <1>3, ServerQuits
<1>4. CASE "client" \notin gone /\ task["server"].at = "service"
  <2>1. Pending /\ task["client"].at \in Busy
    BY <1>2, <1>4 DEF Net, CountInv
  <2> QED
    BY <1>1, <2>1, ServerQuits
<1>5. CASE "client" \notin gone /\ task["server"].at = "send" /\ Unwritten("server") = <<>>
           /\ task["server"].close
  <2>1. task["server"].written = Len(Whole("server"))
    <3>1. /\ task["server"].written \in 0 .. Len(Whole("server")) /\ Whole("server") \in Seq(Units)
          /\ Len(Unwritten("server")) = Len(Whole("server")) - task["server"].written
      BY <1>5, SendingFacts DEF Whole
    <3>2. Len(Unwritten("server")) = 0 /\ Len(Whole("server")) \in Nat
      BY <1>5, <3>1
    <3> QED
      BY <3>1, <3>2
  <2>2. Closes(Last("server")) /\ task["client"].at # "idle"
    BY <1>5 DEF Net, StandInv
  <2> QED
    BY <1>1, <1>2, <1>5, <2>1, <2>2, ServerQuits
<1> QED
  BY <1>3, <1>4, <1>5

LEMMA ReadsNet ==
  ASSUME SideInv, Net, ~IsRaw, NEW s \in Sides, ReadHead(s) \/ ReadBody(s)
  PROVE  Net'
<1> USE SidesAre
<1>1. TypeInv /\ SoundInv /\ task[s].at \in {"head", "body"}
  BY ReadIs DEF SideInv
<1>2. PICK k \in 1 .. Len(inbox[s]) : ReadsUnits(s, k)
  BY <1>1, ReadIs
<1>3. /\ s \notin gone /\ Due(s) /\ HeadOf(s, ReadBy(s, k)) = Last(Other(s))
      /\ TakesUnits(s, k) /\ ReadBy(s, k) \o Left(s, k) = Stream(s)
  BY <1>1, <1>2, ReadNet
<1>4. Len(ReadBy(s, k)) = Len(Whole(Other(s))) =>
         Left(s, k) = <<>> /\ OnTheWay(s, Len(Whole(Other(s))))
  BY <1>1, <1>2, ReadNet
<1>5. /\ Got(s, k).at = task[s].at /\ Got(s, k).read = ReadBy(s, k) /\ Got(s, k) \in Tasks
  BY <1>1, ReadFields
<1>6. CASE /\ Len(ReadBy(s, k)) = Wanted(s, ReadBy(s, k))
           /\ Complete(s, Got(s, k), HeadOf(s, ReadBy(s, k)), Left(s, k))
  <2>1. Wanted(s, ReadBy(s, k)) = Len(Whole(Other(s)))
    <3>1. sent[Other(s)] # <<>>
      BY <1>1, <1>2, ReadNet
    <3>2. HeadSize(Last(Other(s))) + IncomingLength(Last(Other(s))) = Len(Whole(Other(s)))
      BY <3>1, WholeFacts DEF Net
    <3> QED
      BY <1>3, <3>2 DEF Wanted
  <2>2. Left(s, k) = <<>> /\ OnTheWay(s, Len(Whole(Other(s))))
    BY <1>4, <1>6, <2>1
  <2>3. Complete(s, Got(s, k), Last(Other(s)), <<>>)
    BY <1>3, <1>6, <2>2
  <2> DEFINE t == Got(s, k)
  <2>4. CASE s = "server"
    <3>1. /\ task' = [task EXCEPT ![s] = [t EXCEPT !.at = "service", !.close = Closes(Last("client"))]]
          /\ inbox' = [inbox EXCEPT ![s] = <<>>] /\ UNCHANGED <<sent, gone>>
      BY <2>3, <2>4 DEF Complete
    <3>2. task'["server"].at = "service"
      BY <1>1, <1>5, <2>4, <3>1 DEF Tasks, TypeInv
    <3>3. /\ inbox'["server"] = <<>> /\ inbox'["client"] = inbox["client"]
          /\ task'["client"] = task["client"]
      BY <1>1, <2>4, <3>1 DEF TypeInv
    <3> QED
      BY <1>1, <1>3, <2>2, <2>4, <3>1, <3>2, <3>3, RequestNet
  <2>5. CASE s = "client" /\ (t.close \/ Closes(Last("server")))
    <3>1. /\ DropSocket("client", <<>>) /\ sent' = sent
          /\ task' = [task EXCEPT !["client"] = [AtRest EXCEPT !.at = "gone"]]
      BY <2>3, <2>5 DEF Complete
    <3>2. task'["client"].at = "gone" /\ task'["server"] = task["server"]
      BY <1>1, <3>1, RestTyped DEF TypeInv, AtRest
    <3>3. inbox'["server"] = inbox["server"] /\ gone' = gone \cup {"client"}
      BY <1>1, <3>1 DEF DropSocket, TypeInv
    <3> QED
      BY <3>1, <3>2, <3>3, ClientQuits
  <2>6. CASE s = "client" /\ ~(t.close \/ Closes(Last("server")))
    <3>1. /\ task' = [task EXCEPT !["client"] = [AtRest EXCEPT !.room = t.room]]
          /\ inbox' = [inbox EXCEPT !["client"] = <<>>] /\ UNCHANGED <<sent, gone>>
      BY <2>3, <2>6 DEF Complete
    <3>2. task'["client"].at = "idle" /\ task'["server"] = task["server"]
      BY <1>1, <3>1 DEF TypeInv, AtRest
    <3>3. inbox'["client"] = <<>> /\ inbox'["server"] = inbox["server"]
      BY <1>1, <3>1 DEF TypeInv
    <3> QED
      BY <1>1, <1>3, <2>2, <2>6, <3>1, <3>2, <3>3, ResponseNet
  <2> QED
    BY <2>4, <2>5, <2>6 DEF Sides
<1>7. ASSUME NEW t \in Tasks, t.at \in {"head", "body"}, t.read = ReadBy(s, k), Goes(s, k, t)
      PROVE  Net'
  <2>1. /\ task[s].at \in {"head", "body"} /\ Goes(s, k, t) /\ t.at \in {"head", "body"}
        /\ t.read = ReadBy(s, k) /\ ReadBy(s, k) \o Left(s, k) = Stream(s)
    BY <1>1, <1>3, <1>7
  <2> QED
    BY <2>1, GoesNet
<1>8. CASE Goes(s, k, [Got(s, k) EXCEPT !.at = "body"])
  <2> DEFINE t == [Got(s, k) EXCEPT !.at = "body"]
  <2>1. t.at = "body" /\ t.read = ReadBy(s, k) /\ t \in Tasks
    BY <1>5 DEF Tasks, Places
  <2> HIDE DEF t
  <2>2. Goes(s, k, t)
    BY <1>8 DEF t
  <2> QED
    BY <1>7, <2>1, <2>2
<1>9. CASE /\ task[s].at = "head" /\ Len(ReadBy(s, k)) < MaxHeaderBytes
           /\ Goes(s, k, [Got(s, k) EXCEPT !.room = IF Len(ReadBy(s, k)) = @ THEN Grown(@) ELSE @])
  <2> DEFINE n == Len(ReadBy(s, k))
             old == Got(s, k).room
             room == IF n = old THEN Grown(old) ELSE old
             t == [Got(s, k) EXCEPT !.room = room]
  <2>1. n \in Nat /\ n >= 1 /\ n <= old /\ old \in 1 .. Largest
    <3>1. old = task[s].room /\ old \in 1 .. Largest
      BY <1>1, <1>5, ReadFields, TaskFields
    <3>2. ReadBy(s, k) \in Seq(Units) /\ ReadBy(s, k) # <<>>
      BY <1>1, ReadFields
    <3> QED
      BY <1>2, <1>9, <3>1, <3>2 DEF ReadsUnits
  <2>2. room \in 1 .. Largest
    <3> HIDE DEF n, old
    <3>1. n < MaxHeaderBytes
      BY <1>9 DEF n
    <3> QED
      BY <2>1, <3>1, RoomGrows
  <2>3. Goes(s, k, t)
    BY <1>9
  <2> HIDE DEF room
  <2>4. t \in Tasks /\ t.at = "head" /\ t.read = ReadBy(s, k)
    BY <1>5, <1>9, <2>2 DEF Tasks
  <2> HIDE DEF t
  <2> QED
    BY <1>7, <2>3, <2>4
<1> QED
  BY <1>3, <1>6, <1>8, <1>9 DEF TakesUnits

(* Without a raw peer every step keeps it.                                 *)
LEMMA NetStep ==
  ASSUME SideInv, Net, ~IsRaw, SideInv', [Next]_vars
  PROVE  Net'
<1> USE SidesAre
<1>1. ASSUME NEW m \in Requests, Call(m) PROVE Net'
  <2>1. task["client"].at = "idle"
    BY <1>1 DEF Call
  <2>2. CASE PreparedRequest(m) = {}
    <3>1. UNCHANGED <<task, sent, inbox, gone>>
      BY <1>1, <2>2 DEF Call
    <3> QED
      BY <3>1, NothingMoves
  <2>3. CASE PreparedRequest(m) # {}
    <3>1. PICK w \in PreparedRequest(m) : sent' = [sent EXCEPT !["client"] = Append(@, w)]
      BY <1>1, <2>3 DEF Call
    <3>2. /\ task' = [task EXCEPT !["client"].at = "send", !["client"].written = 0,
                                  !["client"].close = Closes(m)]
          /\ UNCHANGED <<inbox, gone>>
      BY <1>1, <2>3 DEF Call
    <3>3. /\ task'["client"].at = "send" /\ task'["client"].written = 0
          /\ task'["server"] = task["server"]
      BY <3>2 DEF SideInv, TypeInv, Tasks
    <3>4. w \in Messages /\ Sendable(w)
      BY RequestPrepared
    <3> QED
      BY <2>1, <3>1, <3>2, <3>3, <3>4, CallNet
  <2> QED
    BY <2>2, <2>3
<1>3. ASSUME CallUnconnected \/ UNCHANGED vars PROVE Net'
  <2>1. UNCHANGED <<task, sent, inbox, gone>>
    BY <1>3 DEF CallUnconnected, vars
  <2> QED
    BY <2>1, NothingMoves
<1>4. ASSUME Cancel PROVE Net'
  BY <1>4, ClientBreaks DEF Cancel
<1>5. ASSUME DropClient PROVE Net'
  <2>1. /\ DropSocket("client", inbox["client"]) /\ sent' = sent
        /\ task' = [task EXCEPT !["client"].at = "gone"]
    BY <1>5 DEF DropClient
  <2>2. task'["client"].at = "gone" /\ task'["server"] = task["server"]
    BY <2>1 DEF SideInv, TypeInv, Tasks
  <2>3. inbox'["server"] = inbox["server"] /\ gone' = gone \cup {"client"}
    BY <2>1 DEF DropSocket, SideInv, TypeInv
  <2> QED
    BY <2>1, <2>2, <2>3, ClientQuits
<1>6. ASSUME NEW m \in Responses, Serve(m) PROVE Net'
  <2>1. task["server"].at = "service" /\ task["server"].close \in BOOLEAN
    BY <1>6, TaskFields DEF Serve, SideInv, TypeInv
  <2>2. CASE PreparedResponse(m, task["server"].close) = {}
    <3>1. Break("server", "failed", inbox["server"])
      BY <1>6, <2>2 DEF Serve
    <3> QED
      BY <2>1, <3>1, ServerBreaks
  <2>3. CASE PreparedResponse(m, task["server"].close) # {}
    <3>1. PICK w \in PreparedResponse(m, task["server"].close) :
            /\ sent' = [sent EXCEPT !["server"] = Append(@, w)]
            /\ task' = [task EXCEPT !["server"].at = "send", !["server"].written = 0,
                                    !["server"].close = Closes(w)]
      BY <1>6, <2>3 DEF Serve
    <3>2. UNCHANGED <<inbox, gone>>
      BY <1>6, <2>3 DEF Serve
    <3>3. /\ task'["server"].at = "send" /\ task'["server"].written = 0
          /\ task'["server"].close = Closes(w) /\ task'["client"] = task["client"]
      BY <3>1 DEF SideInv, TypeInv, Tasks
    <3>4. w \in Messages /\ Sendable(w)
      BY <2>1, ResponsePrepared
    <3> QED
      BY <2>1, <3>1, <3>2, <3>3, <3>4, ServeNet
  <2> QED
    BY <2>2, <2>3
<1>7. ASSUME ServiceFails PROVE Net'
  BY <1>7, ServerBreaks DEF ServiceFails
<1>8. ASSUME NEW s \in Sides, Progress(s) PROVE Net'
  <2>1. CASE Send(s)
    BY <2>1, SendNet
  <2>2. CASE SendFails(s)
    <3>1. Break(s, "failed", inbox[s]) /\ Other(s) \in gone
      BY <2>2 DEF SendFails
    <3>2. CASE s = "server"
      BY <3>1, <3>2, ServerBreaks
    <3>3. CASE s = "client"
      BY <3>1, <3>3, ClientBreaks
    <3> QED
      BY <3>2, <3>3 DEF Sides
  <2>3. CASE Sent(s)
    <3>1. task[s].at = "send" /\ Unwritten(s) = <<>>
      BY <2>3 DEF Sent
    <3>2. CASE s = "server" /\ task[s].close
      <4>1. Break(s, "ended", inbox[s])
        BY <2>3, <3>2 DEF Sent
      <4> QED
        BY <3>1, <3>2, <4>1, ServerBreaks
    <3>3. CASE ~(s = "server" /\ task[s].close)
      <4>1. Turns(s)
        BY <2>3, <3>3 DEF Sent, Turns
      <4> QED
        BY <3>1, <4>1, TurnsNet
    <3> QED
      BY <3>2, <3>3
  <2>4. CASE ReadHead(s) \/ ReadBody(s)
    BY <2>4, ReadsNet
  <2>5. CASE ReadEnd(s)
    <3>1. Other(s) \in gone
      BY <2>5 DEF ReadEnd
    <3>2. PICK why \in {"ended", "failed"} : Break(s, why, <<>>)
      BY <2>5 DEF ReadEnd
    <3>3. CASE s = "server"
      BY <3>1, <3>2, <3>3, ServerBreaks
    <3>4. CASE s = "client"
      BY <3>2, <3>4, ClientBreaks
    <3> QED
      BY <3>3, <3>4 DEF Sides
  <2> QED
    BY <1>8, <2>1, <2>2, <2>3, <2>4, <2>5 DEF Progress
<1>9. ~(RawSend \/ RawRead \/ RawClose)
  <2>1. task["client"].at # "raw"
    BY NetPlaces DEF Busy
  <2> QED
    BY <2>1 DEF RawSend, RawRead, RawClose
<1> QED
  BY <1>1, <1>3, <1>4, <1>5, <1>6, <1>7, <1>8, <1>9 DEF Next, Owner, Service, Raw

LEMMA NetInit ==
  ASSUME Init, ~IsRaw
  PROVE  Net
<1> USE SidesAre
<1>1. /\ raw = NoPeer /\ inbox = [s \in Sides |-> <<>>] /\ gone = {}
      /\ task = [s \in Sides |-> IF s = "server" THEN Receiving(AtRest) ELSE AtRest]
      /\ sent = [s \in Sides |-> IF s = "client" THEN raw.messages ELSE <<>>]
  BY DEF Init, IsRaw
<1>2. sent["client"] = <<>> /\ sent["server"] = <<>>
  BY <1>1 DEF NoPeer
<1>3. /\ task["server"].at = "head" /\ task["server"].read = <<>> /\ task["client"].at = "idle"
      /\ inbox["server"] = <<>> /\ inbox["client"] = <<>>
  BY <1>1, ReceivingIs, RestTyped DEF AtRest
<1>4. Len(sent["client"]) = 0 /\ Len(sent["server"]) = 0
  BY <1>2
<1>5. ~Pending /\ CountInv
  BY <1>1, <1>3, <1>4 DEF CountInv, Pending
<1>6. FlowInv
  <2>1. Stream("server") = <<>> /\ Stream("client") = <<>>
    BY <1>3 DEF Stream
  <2>2. ~Due("server") /\ ~Due("client")
    BY <1>3, <1>5 DEF Due, Busy
  <2> QED
    BY <2>1, <2>2 DEF FlowInv, Flows, Sides
<1>7. StandInv
  BY <1>1, <1>3 DEF StandInv, Sides
<1>8. SendableInv
  BY <1>2 DEF SendableInv, Sides
<1> QED
  BY <1>5, <1>6, <1>7, <1>8 DEF Net

LEMMA RawStays == [Next]_vars => raw' = raw
<1>1. \A s, why, unread : Break(s, why, unread) => raw' = raw
  BY DEF Break
<1>2. \A s, t, w, unread : Complete(s, t, w, unread) => raw' = raw
  BY DEF Complete
<1>3. Owner => raw' = raw
  BY <1>1 DEF Owner, Call, CallUnconnected, Cancel, DropClient
<1>4. Service => raw' = raw
  BY <1>1 DEF Service, ServiceFails, Serve
<1>5. Raw => raw' = raw
  BY <1>1 DEF Raw, RawSend, RawRead, RawClose
<1>6. ASSUME NEW s \in Sides, Progress(s) PROVE raw' = raw
  <2>1. ReadHead(s) => raw' = raw
    BY <1>1, <1>2 DEF ReadHead
  <2>2. ReadBody(s) => raw' = raw
    BY <1>1, <1>2 DEF ReadBody
  <2>3. Send(s) \/ SendFails(s) \/ Sent(s) \/ ReadEnd(s) => raw' = raw
    BY <1>1 DEF Send, SendFails, Sent, ReadEnd
  <2> QED
    BY <1>6, <2>1, <2>2, <2>3 DEF Progress
<1> QED
  BY <1>3, <1>4, <1>5, <1>6 DEF Next, vars

NetInv == SideInv /\ (~IsRaw => Net)

LEMMA NetInvariant == Spec => []NetInv
<1>1. Init => NetInv
  BY SideInit, NetInit DEF NetInv
<1>2. NetInv /\ [Next]_vars => NetInv'
  BY SideStep, NetStep, RawStays DEF NetInv, IsRaw
<1> QED
  BY <1>1, <1>2, PTL DEF Spec

(* No call starts on what an earlier one has left: a client that may be    *)
(* called again has a connection with nothing on its way in either         *)
(* direction, and a server on the other end for a new request.             *)
THEOREM CallsStartClean == Spec => []ReusedOnlyClean
<1> USE SidesAre
<1>1. NetInv => ReusedOnlyClean
  <2> SUFFICES ASSUME NetInv, task["client"].at = "idle" PROVE ReusedOnlyClean
    BY DEF ReusedOnlyClean
  <2>1. SideInv /\ ~IsRaw
    BY DEF NetInv, SideInv, CallInv
  <2>2. Net
    BY <2>1 DEF NetInv
  <2>3. ~Pending /\ "server" \notin gone /\ "client" \notin gone
    BY <2>2 DEF Net, CountInv, StandInv
  <2>4. ~Due("client") /\ ~Due("server")
    BY <2>3 DEF Due, Busy
  <2>5. inbox["client"] = <<>> /\ inbox["server"] = <<>>
    BY <2>1, <2>2, <2>3, <2>4, StreamEmpty
  <2>6. task["server"].at # "body" /\ (task["server"].at = "head" => task["server"].read = <<>>)
    BY <2>1, <2>2, <2>3, <2>4, StreamEmpty
  <2>7. gone = {}
    BY <2>1, <2>3 DEF SideInv, TypeInv, Sides
  <2>8. task["server"].at \in {"head", "send"}
    <3>1. task["server"].at \notin {"service", "ended", "failed", "refused"}
      BY <2>2, <2>3 DEF Net, CountInv, StandInv
    <3> QED
      BY <2>1, <2>6, <3>1, NetPlaces DEF Busy
  <2>9. task["server"].at = "send" => Unwritten("server") = <<>> /\ ~task["server"].close
    <3> HAVE task["server"].at = "send"
    <3>1. task["server"].written = Len(Whole("server")) /\ ~task["server"].close
      BY <2>2, <2>3, <2>4 DEF Net, StandInv
    <3>2. Len(Unwritten("server")) = Len(Whole("server")) - task["server"].written
          /\ Len(Whole("server")) \in Nat /\ Whole("server") \in Seq(Units)
      BY <2>1, SendingFacts DEF Whole
    <3>3. Unwritten("server") \in Seq(Units)
      <4>1. Unwritten("server") = SubSeq(Whole("server"), task["server"].written + 1, Len(Whole("server")))
        BY DEF Unwritten, Whole
      <4> QED
        BY <3>1, <3>2, <4>1
    <3>4. Len(Unwritten("server")) = 0
      BY <3>1, <3>2
    <3> QED
      BY <3>1, <3>3, <3>4, EmptySeq
  <2> QED
    BY <2>5, <2>6, <2>7, <2>8, <2>9 DEF ReusedOnlyClean
<1> QED
  BY <1>1, NetInvariant, PTL

(* What one side of hyper-uds agrees to send, the other accepts.           *)
Accepted == ~IsRaw => \A c \in DOMAIN outcomes : outcomes[c].kind # "refused"

LEMMA NotedAccepted ==
  ASSUME SideInv, NEW e, outcomes' = Append(outcomes, e), e.kind # "refused",
         \A c \in DOMAIN outcomes : outcomes[c].kind # "refused"
  PROVE  \A c \in DOMAIN outcomes' : outcomes'[c].kind # "refused"
<1>1. outcomes \in Seq(Ends)
  BY DEF SideInv, TypeInv
<1> QED
  BY <1>1

LEMMA AcceptedStep == NetInv /\ Accepted /\ [Next]_vars => Accepted'
<1> SUFFICES ASSUME NetInv, Accepted, [Next]_vars, ~IsRaw
             PROVE  \A c \in DOMAIN outcomes' : outcomes'[c].kind # "refused"
  BY RawStays DEF Accepted, IsRaw
<1> USE SidesAre
<1>1. SideInv /\ Net /\ \A c \in DOMAIN outcomes : outcomes[c].kind # "refused"
  BY DEF NetInv, Accepted
<1>2. ASSUME outcomes' = outcomes PROVE \A c \in DOMAIN outcomes' : outcomes'[c].kind # "refused"
  BY <1>1, <1>2
<1>3. ASSUME NEW e, outcomes' = Append(outcomes, e), e.kind # "refused"
      PROVE  \A c \in DOMAIN outcomes' : outcomes'[c].kind # "refused"
  BY <1>1, <1>3, NotedAccepted
<1>4. ASSUME NEW s \in Sides, NEW why, why # "refused", NEW unread, Break(s, why, unread)
      PROVE  \A c \in DOMAIN outcomes' : outcomes'[c].kind # "refused"
  <2>1. \/ outcomes' = outcomes
        \/ outcomes' = Append(outcomes, [kind |-> why, read |-> <<>>, fds |-> <<>>])
    BY <1>4 DEF Break
  <2>2. [kind |-> why, read |-> <<>>, fds |-> <<>>].kind # "refused"
    BY <1>4
  <2> QED
    BY <1>2, <1>3, <2>1, <2>2
<1>5. CASE Owner
  <2>1. \/ outcomes' = outcomes
        \/ outcomes' = Append(outcomes, [kind |-> "unsent", read |-> <<>>, fds |-> <<>>])
        \/ outcomes' = Append(outcomes, [kind |-> "unconnected", read |-> <<>>, fds |-> <<>>])
        \/ Break("client", "cancelled", inbox["client"])
    BY <1>5 DEF Owner, Call, CallUnconnected, Cancel, DropClient
  <2>2. /\ [kind |-> "unsent", read |-> <<>>, fds |-> <<>>].kind # "refused"
        /\ [kind |-> "unconnected", read |-> <<>>, fds |-> <<>>].kind # "refused"
    OBVIOUS
  <2> QED
    BY <1>2, <1>3, <1>4, <2>1, <2>2
<1>6. CASE Service \/ UNCHANGED vars
  <2>1. outcomes' = outcomes \/ Break("server", "failed", inbox["server"])
    BY <1>6 DEF Service, ServiceFails, Serve, vars
  <2> QED
    BY <1>2, <1>4, <2>1
<1>7. ~Raw
  <2>1. task["client"].at # "raw"
    BY <1>1, NetPlaces DEF Busy
  <2> QED
    BY <2>1 DEF Raw, RawSend, RawRead, RawClose
<1>8. ASSUME NEW s \in Sides, Progress(s)
      PROVE  \A c \in DOMAIN outcomes' : outcomes'[c].kind # "refused"
  <2>1. CASE ReadHead(s) \/ ReadBody(s)
    <3>1. /\ TypeInv /\ SoundInv /\ task[s].at \in {"head", "body"}
      BY <1>1, <2>1, ReadIs DEF SideInv
    <3>2. PICK k \in 1 .. Len(inbox[s]) : ReadsUnits(s, k)
      BY <2>1, <3>1, ReadIs
    <3>3. TakesUnits(s, k) /\ ~Objects(s, k)
      BY <1>1, <3>1, <3>2, ReadNet
    <3>4. \/ outcomes' = outcomes
          \/ \E r, f : outcomes' = Append(outcomes, [kind |-> "answered", read |-> r, fds |-> f])
      BY <3>3 DEF TakesUnits, Goes, Complete
    <3>5. \A r, f : [kind |-> "answered", read |-> r, fds |-> f].kind # "refused"
      OBVIOUS
    <3> QED
      BY <1>2, <1>3, <3>4, <3>5
  <2>2. CASE Send(s) \/ SendFails(s) \/ Sent(s) \/ ReadEnd(s)
    <3>1. \/ outcomes' = outcomes
          \/ \E why \in {"failed", "ended"} : \E unread : Break(s, why, unread)
      BY <2>2 DEF Send, SendFails, Sent, ReadEnd
    <3> QED
      BY <1>2, <1>4, <3>1
  <2> QED
    BY <1>8, <2>1, <2>2 DEF Progress
<1> QED
  BY <1>5, <1>6, <1>7, <1>8 DEF Next

(* What prepare_request and prepare_response let out, receive at the other *)
(* end takes: no head of a hyper-uds side is refused by a hyper-uds side.  *)
THEOREM PreparedIsAccepted == Spec => []AcceptsWhatItPrepares
<1>1. Init => Accepted
  BY DEF Init, Accepted
<1>2. NetInv /\ Accepted => AcceptsWhatItPrepares
  BY DEF NetInv, Net, StandInv, Accepted, AcceptsWhatItPrepares
<1> QED
  BY <1>1, <1>2, AcceptedStep, NetInvariant, PTL DEF Spec

--------------------------------------------------------------------------------
(* What the service is called with: a delivery that is one message of msgs, *)
(* whole, with the descriptors that came with it.                          *)
Entire(r, msgs) ==
  LET w == msgs[r.read[1].of]
  IN /\ r.read # <<>> /\ r.read[1].of \in DOMAIN msgs
     /\ IncomingLengths(w) # {} /\ Len(r.read) = HeadSize(w) + IncomingLength(w)
     /\ \A k \in DOMAIN r.read : r.read[k].of = r.read[1].of /\ r.read[k].at = k
     /\ Brought(r.read, r.fds)

InOrder(q) == \A j \in DOMAIN q : \A i \in 1 .. j - 1 : q[i].read[1].of < q[j].read[1].of

ServedInv == (\A j \in DOMAIN served : Entire(served[j], sent["client"])) /\ InOrder(served)

(* A client of hyper-uds: what was served is answered, or being answered.  *)
TurnInv ==
  task["server"].at \in Busy => \A j \in DOMAIN served : served[j].read[1].of <= Len(sent["server"])

(* A raw peer: q is the stream u from after p to n.                        *)
Cuts(q, u, p, n) == Len(q) = n - p /\ \A i \in 1 .. n - p : q[i] = u[p + i]

(* What was served began and ended in the first p units of the stream.     *)
Covered(p) ==
  \A j \in DOMAIN served : \E a \in 1 .. p :
    /\ a + Len(served[j].read) - 1 <= p
    /\ raw.units[a].at = 1 /\ raw.units[a].of = served[j].read[1].of

ServerAlive == task["server"].at \in Busy \cup {"service"}

Passed(n, p) ==
  /\ ServerAlive => Cuts(Stream("server"), raw.units, p, n)
  /\ ServerAlive /\ task["client"].at = "raw" => task["client"].written = n
  /\ Covered(p)

RawInv == \E n \in 0 .. Len(raw.units) : \E p \in 0 .. n : Passed(n, p)

ServeInv == ServedInv /\ (~IsRaw => TurnInv) /\ (IsRaw => RawInv)

(* The server has read a request to its end.                               *)
Serves(k) ==
  /\ task["server"].at \in {"head", "body"} /\ ReadsUnits("server", k)
  /\ task["server"].read = <<>> \/ FdsIn(Taken("server", k)) = <<>>
  /\ Headed("server", ReadBy("server", k))
  /\ Len(ReadBy("server", k)) = Wanted("server", ReadBy("server", k))
  /\ Complete("server", Got("server", k), HeadOf("server", ReadBy("server", k)), Left("server", k))

LEMMA ServedSteps ==
  ASSUME SideInv, [Next]_vars
  PROVE  served' = served \/ \E k \in 1 .. Len(inbox["server"]) : Serves(k)
<1> USE SidesAre
<1>1. \A s, why, unread : Break(s, why, unread) => served' = served
  BY DEF Break
<1>2. Owner => served' = served
  BY <1>1 DEF Owner, Call, CallUnconnected, Cancel, DropClient
<1>3. Service => served' = served
  BY <1>1 DEF Service, ServiceFails, Serve
<1>4. Raw => served' = served
  BY <1>1 DEF Raw, RawSend, RawRead, RawClose
<1>5. ASSUME NEW s \in Sides, Progress(s)
      PROVE  served' = served \/ \E k \in 1 .. Len(inbox["server"]) : Serves(k)
  <2>1. CASE ReadHead(s) \/ ReadBody(s)
    <3>1. TypeInv /\ SoundInv /\ task[s].at \in {"head", "body"}
      BY <2>1, ReadIs DEF SideInv
    <3>2. PICK k \in 1 .. Len(inbox[s]) : ReadsUnits(s, k)
      BY <2>1, <3>1, ReadIs
    <3>3. Objects(s, k) /\ Break(s, "refused", Left(s, k)) => served' = served
      BY <1>1
    <3>4. \A t : Goes(s, k, t) => served' = served
      BY DEF Goes
    <3>5. CASE s = "client"
      <4>1. \A t, w, unread : Complete(s, t, w, unread) => served' = served
        BY <3>5 DEF Complete
      <4> QED
        BY <3>2, <3>3, <3>4, <4>1 DEF ReadsUnits, TakesUnits
    <3>6. CASE s = "server"
      BY <3>1, <3>2, <3>3, <3>4, <3>6 DEF ReadsUnits, TakesUnits, Serves
    <3> QED
      BY <3>5, <3>6 DEF Sides
  <2>2. Send(s) \/ SendFails(s) \/ Sent(s) \/ ReadEnd(s) => served' = served
    BY <1>1 DEF Send, SendFails, Sent, ReadEnd
  <2> QED
    BY <1>5, <2>1, <2>2 DEF Progress
<1> QED
  BY <1>2, <1>3, <1>4, <1>5 DEF Next, vars

LEMMA SentSteps ==
  ASSUME SideInv, [Next]_vars
  PROVE  sent'["client"] = sent["client"] \/ \E w : sent'["client"] = Append(sent["client"], w)
<1> USE SidesAre
<1>1. \A s, why, unread : Break(s, why, unread) => sent' = sent
  BY DEF Break
<1>2. \A s, t, w, unread : Complete(s, t, w, unread) => sent' = sent
  BY DEF Complete
<1>3. ASSUME NEW m \in Requests, Call(m)
      PROVE  sent'["client"] = sent["client"] \/ \E w : sent'["client"] = Append(sent["client"], w)
  <2>1. sent' = sent \/ \E w : sent' = [sent EXCEPT !["client"] = Append(@, w)]
    BY <1>3 DEF Call
  <2>2. ASSUME NEW w, sent' = [sent EXCEPT !["client"] = Append(@, w)]
        PROVE  sent'["client"] = Append(sent["client"], w)
    BY <2>2 DEF SideInv, TypeInv
  <2> QED
    BY <2>1, <2>2
<1>4. ASSUME NEW m \in Responses, Serve(m) PROVE sent'["client"] = sent["client"]
  <2>1. sent' = sent \/ \E w : sent' = [sent EXCEPT !["server"] = Append(@, w)]
    BY <1>1, <1>4 DEF Serve
  <2> QED
    BY <2>1 DEF SideInv, TypeInv
<1>5. CallUnconnected \/ Cancel \/ DropClient \/ ServiceFails \/ Raw => sent' = sent
  BY <1>1 DEF CallUnconnected, Cancel, DropClient, ServiceFails, Raw, RawSend, RawRead, RawClose
<1>6. ASSUME NEW s \in Sides, Progress(s) PROVE sent' = sent
  <2>1. ReadHead(s) => sent' = sent
    BY <1>1, <1>2 DEF ReadHead
  <2>2. ReadBody(s) => sent' = sent
    BY <1>1, <1>2 DEF ReadBody
  <2>3. Send(s) \/ SendFails(s) \/ Sent(s) \/ ReadEnd(s) => sent' = sent
    BY <1>1 DEF Send, SendFails, Sent, ReadEnd
  <2> QED
    BY <1>6, <2>1, <2>2, <2>3 DEF Progress
<1> QED
  BY <1>3, <1>4, <1>5, <1>6 DEF Next, Owner, Service, vars

LEMMA EntireStays ==
  ASSUME NEW r, NEW msgs \in Seq(Messages), NEW w, Entire(r, msgs)
  PROVE  Entire(r, Append(msgs, w))
<1>1. \A i \in DOMAIN msgs : i \in DOMAIN Append(msgs, w) /\ Append(msgs, w)[i] = msgs[i]
  OBVIOUS
<1>2. r.read[1].of \in DOMAIN msgs
  BY DEF Entire
<1>3. r.read[1].of \in DOMAIN Append(msgs, w) /\ Append(msgs, w)[r.read[1].of] = msgs[r.read[1].of]
  BY <1>1, <1>2
<1> QED
  BY <1>3 DEF Entire

(* The server begins to send, or reads on, after what it was doing.        *)
LEMMA TurnSteps ==
  ASSUME SideInv, [Next]_vars, task'["server"].at \in Busy
  PROVE  \/ task["server"].at \in Busy /\ sent'["server"] = sent["server"]
         \/ /\ task["server"].at = "service"
            /\ \E w \in Messages : Sendable(w) /\ sent' = [sent EXCEPT !["server"] = Append(@, w)]
<1> USE SidesAre
<1> DEFINE Stays == task'["server"] = task["server"] /\ sent'["server"] = sent["server"]
<1>1. ASSUME NEW why, NEW unread, Break("client", why, unread) PROVE Stays
  BY <1>1, BreakIs
<1>2. ASSUME NEW why \in {"ended", "failed", "refused"}, NEW unread, Break("server", why, unread)
      PROVE  FALSE
  <2>1. task'["server"].at = why
    BY <1>2, BreakIs
  <2> QED
    BY <2>1 DEF Busy
<1>3. Owner => Stays
  <2>1. ASSUME NEW m \in Requests, Call(m) PROVE Stays
    <3>1. CASE PreparedRequest(m) = {}
      BY <2>1, <3>1 DEF Call
    <3>2. CASE PreparedRequest(m) # {}
      <4>1. PICK w \in PreparedRequest(m) : sent' = [sent EXCEPT !["client"] = Append(@, w)]
        BY <2>1, <3>2 DEF Call
      <4>2. task' = [task EXCEPT !["client"].at = "send", !["client"].written = 0,
                                  !["client"].close = Closes(m)]
        BY <2>1, <3>2 DEF Call
      <4> QED
        BY <4>1, <4>2 DEF SideInv, TypeInv
    <3> QED
      BY <3>1, <3>2
  <2>2. CallUnconnected => Stays
    BY DEF CallUnconnected
  <2>3. Cancel => Stays
    BY <1>1 DEF Cancel
  <2>4. DropClient => Stays
    BY DEF DropClient, SideInv, TypeInv
  <2> QED
    BY <2>1, <2>2, <2>3, <2>4 DEF Owner
<1>4. Raw => Stays
  <2>1. RawSend => Stays
    BY DEF RawSend, SideInv, TypeInv
  <2>2. RawRead => Stays
    BY DEF RawRead
  <2>3. RawClose => Stays
    BY <1>1 DEF RawClose
  <2> QED
    BY <2>1, <2>2, <2>3 DEF Raw
<1>5. ASSUME NEW m \in Responses, Serve(m)
      PROVE  /\ task["server"].at = "service"
             /\ \E w \in Messages : Sendable(w) /\ sent' = [sent EXCEPT !["server"] = Append(@, w)]
  <2>1. task["server"].at = "service" /\ task["server"].close \in BOOLEAN
    BY <1>5, TaskFields DEF Serve, SideInv, TypeInv
  <2>2. \E w \in PreparedResponse(m, task["server"].close) :
           sent' = [sent EXCEPT !["server"] = Append(@, w)]
    BY <1>2, <1>5 DEF Serve
  <2> QED
    BY <2>1, <2>2, ResponsePrepared
<1>6. ~ServiceFails
  BY <1>2 DEF ServiceFails
<1>7. ASSUME Progress("server")
      PROVE  task["server"].at \in Busy /\ sent'["server"] = sent["server"]
  <2>1. task["server"].at \in Busy
    BY <1>7 DEF Progress, Busy, Send, SendFails, Sent, ReadHead, ReadBody, ReadEnd
  <2>2. \A s, why, unread : Break(s, why, unread) => sent' = sent
    BY DEF Break
  <2>3. \A s, t, w, unread : Complete(s, t, w, unread) => sent' = sent
    BY DEF Complete
  <2>4. ReadHead("server") => sent' = sent
    BY <2>2, <2>3 DEF ReadHead
  <2>5. ReadBody("server") => sent' = sent
    BY <2>2, <2>3 DEF ReadBody
  <2>6. Send("server") \/ SendFails("server") \/ Sent("server") \/ ReadEnd("server") => sent' = sent
    BY <2>2 DEF Send, SendFails, Sent, ReadEnd
  <2> QED
    BY <1>7, <2>1, <2>4, <2>5, <2>6, Zenon DEF Progress
<1>8. ASSUME Progress("client") PROVE Stays
  <2>1. CASE ReadHead("client") \/ ReadBody("client")
    <3>1. TypeInv /\ SoundInv /\ task["client"].at \in {"head", "body"}
      BY <2>1, ReadIs DEF SideInv
    <3>2. PICK k \in 1 .. Len(inbox["client"]) : ReadsUnits("client", k)
      BY <2>1, <3>1, ReadIs
    <3>3. \A t : Goes("client", k, t) => Stays
      BY DEF Goes, SideInv, TypeInv
    <3>4. \A t, w, unread : Complete("client", t, w, unread) => Stays
      BY DEF Complete, SideInv, TypeInv
    <3> QED
      BY <1>1, <3>2, <3>3, <3>4 DEF ReadsUnits, TakesUnits
  <2>2. Send("client") \/ SendFails("client") \/ Sent("client") \/ ReadEnd("client") => Stays
    <3>1. Send("client") => Stays
      BY DEF Send, SideInv, TypeInv
    <3>2. SendFails("client") \/ ReadEnd("client") => Stays
      BY <1>1 DEF SendFails, ReadEnd
    <3>3. Sent("client") => Stays
      BY DEF Sent, SideInv, TypeInv
    <3> QED
      BY <3>1, <3>2, <3>3
  <2> QED
    BY <1>8, <2>1, <2>2 DEF Progress
<1>9. UNCHANGED vars => Stays
  BY DEF vars
<1>10. \/ Stays
       \/ task["server"].at \in Busy /\ sent'["server"] = sent["server"]
       \/ /\ task["server"].at = "service"
          /\ \E w \in Messages : Sendable(w) /\ sent' = [sent EXCEPT !["server"] = Append(@, w)]
  BY <1>3, <1>4, <1>5, <1>6, <1>7, <1>8, <1>9 DEF Next, Service, Sides
<1> QED
  BY <1>10

Taking(k) == [read |-> ReadBy("server", k), fds |-> FdsBy("server", k)]

LEMMA ServesIs ==
  ASSUME SideInv, NEW k \in 1 .. Len(inbox["server"]), Serves(k)
  PROVE  /\ served' = Append(served, Taking(k)) /\ Taking(k) \in Deliveries
         /\ served \in Seq(Deliveries)
         /\ task'["server"].at = "service" /\ task'["client"] = task["client"]
         /\ inbox'["server"] = Left("server", k) /\ UNCHANGED <<sent, gone, raw, outcomes>>
         /\ ReadBy("server", k) \in Seq(Units) /\ ReadBy("server", k) # <<>>
         /\ Brought(ReadBy("server", k), FdsBy("server", k))
         /\ ReadBy("server", k)[1].of \in DOMAIN sent["client"]
<1> USE SidesAre
<1>1. TypeInv /\ SoundInv /\ task["server"].at \in {"head", "body"}
  BY DEF SideInv, Serves
<1>2. /\ Got("server", k) \in Tasks /\ Got("server", k).read = ReadBy("server", k)
      /\ Got("server", k).fds = FdsBy("server", k) /\ FdsBy("server", k) \in Seq(Attached)
      /\ ReadBy("server", k) \in Seq(Units) /\ ReadBy("server", k) # <<>>
      /\ \A i \in 1 .. Len(ReadBy("server", k)) : ReadBy("server", k)[i].of \in DOMAIN sent["client"]
  BY <1>1, ReadFields
<1>3. Brought(ReadBy("server", k), FdsBy("server", k))
  BY <1>1, Brings DEF Serves
<1>4. 1 \in 1 .. Len(ReadBy("server", k))
  BY <1>2
<1> DEFINE t == Got("server", k)
           u == [t EXCEPT !.at = "service", !.close = Closes(HeadOf("server", ReadBy("server", k)))]
<1>5. /\ served' = Append(served, [read |-> t.read, fds |-> t.fds])
      /\ task' = [task EXCEPT !["server"] = u]
      /\ inbox' = [inbox EXCEPT !["server"] = Left("server", k)]
      /\ UNCHANGED <<gone, sent, raw, outcomes>>
  BY DEF Serves, Complete
<1>6. u.at = "service"
  BY <1>2 DEF Tasks
<1> HIDE DEF t, u
<1>7. task'["server"].at = "service" /\ task'["client"] = task["client"]
      /\ inbox'["server"] = Left("server", k)
  BY <1>5, <1>6 DEF SideInv, TypeInv
<1>8. served' = Append(served, Taking(k))
  BY <1>2, <1>5 DEF Taking, t
<1>9. Taking(k) \in Deliveries /\ served \in Seq(Deliveries)
  BY <1>2 DEF Taking, Deliveries, SideInv, TypeInv
<1> QED
  BY <1>2, <1>3, <1>4, <1>5, <1>7, <1>8, <1>9

LEMMA ServedGrows ==
  ASSUME SideInv, ServedInv, NEW k \in 1 .. Len(inbox["server"]), Serves(k),
         Entire(Taking(k), sent["client"]),
         \A j \in DOMAIN served : served[j].read[1].of < Taking(k).read[1].of
  PROVE  ServedInv'
<1> DEFINE d == Taking(k)
<1>1. served' = Append(served, d) /\ sent' = sent /\ served \in Seq(Deliveries)
  BY ServesIs
<1>2. /\ Len(served) \in Nat /\ DOMAIN served = 1 .. Len(served)
      /\ DOMAIN served' = 1 .. Len(served) + 1
      /\ \A j \in 1 .. Len(served) : served'[j] = served[j]
      /\ served'[Len(served) + 1] = d
  BY <1>1
<1> HIDE DEF d
<1>3. \A j \in DOMAIN served' : Entire(served'[j], sent'["client"])
  <2> TAKE j \in DOMAIN served'
  <2>1. CASE j \in 1 .. Len(served)
    BY <1>1, <1>2, <2>1 DEF ServedInv
  <2>2. CASE j = Len(served) + 1
    BY <1>1, <1>2, <2>2 DEF d
  <2> QED
    BY <1>2, <2>1, <2>2
<1>4. InOrder(served')
  <2> SUFFICES ASSUME NEW j \in DOMAIN served', NEW i \in 1 .. j - 1
               PROVE  served'[i].read[1].of < served'[j].read[1].of
    BY DEF InOrder
  <2>1. i \in 1 .. Len(served)
    BY <1>2
  <2>2. CASE j \in 1 .. Len(served)
    BY <1>2, <2>1, <2>2 DEF ServedInv, InOrder
  <2>3. CASE j = Len(served) + 1
    BY <1>2, <2>1, <2>3 DEF d
  <2> QED
    BY <1>2, <2>2, <2>3
<1> QED
  BY <1>3, <1>4 DEF ServedInv

LEMMA ServedStays ==
  ASSUME SideInv, ServedInv, served' = served,
         sent'["client"] = sent["client"] \/ \E w : sent'["client"] = Append(sent["client"], w)
  PROVE  ServedInv'
<1>1. sent["client"] \in Seq(Messages)
  BY SidesAre DEF SideInv, TypeInv
<1>2. \A j \in DOMAIN served : Entire(served[j], sent'["client"])
  BY <1>1, EntireStays DEF ServedInv
<1> QED
  BY <1>2 DEF ServedInv

(* What a server serves a client of hyper-uds.                             *)
LEMMA ServesNet ==
  ASSUME SideInv, Net, ServedInv, TurnInv, NEW k \in 1 .. Len(inbox["server"]), Serves(k)
  PROVE  ServedInv'
<1> USE SidesAre
<1> DEFINE read == ReadBy("server", k)
           W == Whole("client")
           n == Len(sent["client"])
<1>1. task["server"].at \in {"head", "body"} /\ ReadsUnits("server", k)
      /\ Headed("server", read) /\ Len(read) = Wanted("server", read)
  BY DEF Serves
<1>2. /\ Due("server") /\ sent["client"] # <<>> /\ HeadOf("server", read) = Last("client")
      /\ Len(read) = Len(W) => read = W
  BY <1>1, ReadNet
<1>3. /\ n \in DOMAIN sent["client"] /\ W \in Seq(Units) /\ Len(W) \in Nat /\ Len(W) >= 1
      /\ \A i \in 1 .. Len(W) : W[i].of = n /\ W[i].at = i
      /\ HeadSize(Last("client")) + IncomingLength(Last("client")) = Len(W)
  BY <1>2, WholeFacts DEF Net
<1>4. read = W
  BY <1>1, <1>2, <1>3 DEF Wanted
<1>5. IncomingLengths(Last("client")) # {}
  BY <1>1, <1>2 DEF Headed
<1>6. Last("client") = sent["client"][n]
  BY DEF Last
<1>7. read # <<>> /\ Brought(read, FdsBy("server", k))
  BY ServesIs
<1>8. Taking(k).read = W /\ Taking(k).fds = FdsBy("server", k)
  BY <1>4 DEF Taking
<1> HIDE DEF W, read, n
<1>9. W[1].of = n /\ DOMAIN W = 1 .. Len(W)
  BY <1>3
<1>10. Entire(Taking(k), sent["client"])
  BY <1>3, <1>4, <1>5, <1>6, <1>7, <1>8, <1>9 DEF Entire
<1>11. \A j \in DOMAIN served : served[j].read[1].of < Taking(k).read[1].of
  <2> TAKE j \in DOMAIN served
  <2>1. served[j].read[1].of <= Len(sent["server"])
    BY <1>1 DEF TurnInv, Busy
  <2>2. n = Len(sent["server"]) + 1
    BY <1>2 DEF Due, Pending, n
  <2>3. Len(sent["server"]) \in Nat /\ n \in Nat
    BY DEF SideInv, TypeInv, n
  <2>4. served[j].read[1].of \in Nat
    <3>1. served[j].read[1].of \in DOMAIN sent["client"]
      BY DEF ServedInv, Entire
    <3> QED
      BY <3>1 DEF SideInv, TypeInv
  <2> QED
    BY <1>8, <1>9, <2>1, <2>2, <2>3, <2>4
<1> QED
  BY <1>10, <1>11, ServedGrows

LEMMA TurnsInv ==
  ASSUME SideInv, Net, ServedInv, TurnInv, [Next]_vars, served' = served
  PROVE  TurnInv'
<1> USE SidesAre
<1> SUFFICES ASSUME task'["server"].at \in Busy, NEW j \in DOMAIN served
             PROVE  served[j].read[1].of <= Len(sent'["server"])
  BY DEF TurnInv
<1>1. CASE task["server"].at \in Busy /\ sent'["server"] = sent["server"]
  BY <1>1 DEF TurnInv
<1>2. CASE /\ task["server"].at = "service"
           /\ \E w \in Messages : Sendable(w) /\ sent' = [sent EXCEPT !["server"] = Append(@, w)]
  <2>1. PICK w \in Messages : Sendable(w) /\ sent' = [sent EXCEPT !["server"] = Append(@, w)]
    BY <1>2
  <2>2. Len(sent'["server"]) = Len(sent["server"]) + 1
    BY <2>1, OneMore DEF Net
  <2>3. Len(sent["client"]) = Len(sent["server"]) + 1
    BY <1>2 DEF Net, CountInv, Pending
  <2>4. served[j].read[1].of \in DOMAIN sent["client"]
    BY DEF ServedInv, Entire
  <2>5. sent["client"] \in Seq(Messages)
    BY DEF SideInv, TypeInv
  <2> QED
    BY <2>2, <2>3, <2>4, <2>5
<1> QED
  BY <1>1, <1>2, TurnSteps

(* Pieces of the stream of a raw peer.                                     *)
LEMMA CutsApart ==
  ASSUME NEW r \in Seq(Units), NEW q \in Seq(Units), NEW u, NEW n \in Nat, NEW p \in 0 .. n,
         Cuts(r \o q, u, p, n)
  PROVE  /\ p + Len(r) \in p .. n /\ \A i \in 1 .. Len(r) : r[i] = u[p + i]
         /\ Cuts(q, u, p + Len(r), n)
<1>1. Len(r) \in Nat /\ Len(q) \in Nat /\ p \in Nat
  OBVIOUS
<1>2. /\ Len(r \o q) = Len(r) + Len(q)
      /\ \A i \in 1 .. Len(r) + Len(q) : (r \o q)[i] = IF i <= Len(r) THEN r[i] ELSE q[i - Len(r)]
  BY ConcatProperties
<1>3. Len(r) + Len(q) = n - p /\ \A i \in 1 .. n - p : (r \o q)[i] = u[p + i]
  BY <1>2 DEF Cuts
<1>4. p + Len(r) \in p .. n /\ Len(q) = n - (p + Len(r))
  BY <1>1, <1>3
<1>5. \A i \in 1 .. Len(r) : r[i] = u[p + i]
  <2> TAKE i \in 1 .. Len(r)
  <2>1. i \in 1 .. Len(r) + Len(q) /\ i \in 1 .. n - p /\ i <= Len(r)
    BY <1>1, <1>3
  <2> QED
    BY <1>2, <1>3, <2>1
<1>6. \A i \in 1 .. n - (p + Len(r)) : q[i] = u[(p + Len(r)) + i]
  <2> TAKE i \in 1 .. n - (p + Len(r))
  <2>1. /\ Len(r) + i \in 1 .. Len(r) + Len(q) /\ Len(r) + i \in 1 .. n - p
        /\ ~(Len(r) + i <= Len(r)) /\ (Len(r) + i) - Len(r) = i
        /\ p + (Len(r) + i) = (p + Len(r)) + i
    BY <1>1, <1>3, <1>4
  <2>2. (r \o q)[Len(r) + i] = q[i]
    BY <1>2, <2>1
  <2>3. (r \o q)[Len(r) + i] = u[p + (Len(r) + i)]
    BY <1>3, <2>1
  <2> QED
    BY <2>1, <2>2, <2>3
<1> QED
  BY <1>4, <1>5, <1>6 DEF Cuts

LEMMA CutsGrow ==
  ASSUME NEW q \in Seq(Units), NEW x \in Seq(Units), NEW u, NEW n \in Nat, NEW p \in 0 .. n,
         Cuts(q, u, p, n), \A i \in 1 .. Len(x) : x[i] = u[n + i]
  PROVE  Cuts(q \o x, u, p, n + Len(x))
<1>1. Len(x) \in Nat /\ p \in Nat /\ Len(q) = n - p /\ \A i \in 1 .. n - p : q[i] = u[p + i]
  BY DEF Cuts
<1>2. /\ Len(q \o x) = Len(q) + Len(x)
      /\ \A i \in 1 .. Len(q) + Len(x) : (q \o x)[i] = IF i <= Len(q) THEN q[i] ELSE x[i - Len(q)]
  BY ConcatProperties
<1>3. Len(q \o x) = (n + Len(x)) - p
  BY <1>1, <1>2
<1>4. \A i \in 1 .. (n + Len(x)) - p : (q \o x)[i] = u[p + i]
  <2> TAKE i \in 1 .. (n + Len(x)) - p
  <2>1. i \in 1 .. Len(q) + Len(x)
    BY <1>1
  <2>2. CASE i <= Len(q)
    <3>1. i \in 1 .. n - p
      BY <1>1, <2>1, <2>2
    <3> QED
      BY <1>1, <1>2, <2>1, <2>2, <3>1
  <2>3. CASE ~(i <= Len(q))
    <3>1. i - Len(q) \in 1 .. Len(x) /\ n + (i - Len(q)) = p + i
      BY <1>1, <2>1, <2>3
    <3> QED
      BY <1>2, <1>1, <2>1, <2>3, <3>1
  <2> QED
    BY <2>2, <2>3
<1> QED
  BY <1>3, <1>4 DEF Cuts

LEMMA RawFacts ==
  ASSUME SideInv, IsRaw
  PROVE  /\ raw.units \in Seq(Units) /\ sent["client"] = raw.messages
         /\ Len(raw.units) \in Nat /\ DOMAIN raw.units = 1 .. Len(raw.units)
         /\ task["client"].at \in {"raw", "gone"}
         /\ \A a \in DOMAIN raw.units :
              LET w == raw.messages[raw.units[a].of]
              IN raw.units[a].at = 1 /\ IncomingLengths(w) # {} =>
                   \A b \in DOMAIN raw.units : a < b =>
                     IF b - a < HeadSize(w) + IncomingLength(w)
                     THEN raw.units[b].of = raw.units[a].of /\ raw.units[b].at = b - a + 1
                     ELSE raw.units[b].at = 1 => raw.units[a].of < raw.units[b].of
<1>1. raw \in RawPeers /\ sent["client"] = raw.messages /\ task["client"].at \in {"raw", "gone"}
  BY DEF SideInv, CallInv, TypeInv, IsRaw
<1>2. raw.units \in Seq(Units)
  BY <1>1, RawAssumption DEF RawAssumption
<1>3. \A a \in DOMAIN raw.units :
        LET w == raw.messages[raw.units[a].of]
        IN raw.units[a].at = 1 /\ IncomingLengths(w) # {} =>
             \A b \in DOMAIN raw.units : a < b =>
               IF b - a < HeadSize(w) + IncomingLength(w)
               THEN raw.units[b].of = raw.units[a].of /\ raw.units[b].at = b - a + 1
               ELSE raw.units[b].at = 1 => raw.units[a].of < raw.units[b].of
  BY <1>1, RawAssumption, Zenon DEF RawAssumption
<1>4. Len(raw.units) \in Nat /\ DOMAIN raw.units = 1 .. Len(raw.units)
  BY <1>2
<1> QED
  BY <1>1, <1>2, <1>3, <1>4, Zenon

(* What a server serves a raw peer: the message begins where the last one  *)
(* served had ended, or after it.                                          *)
LEMMA ServesRaw ==
  ASSUME SideInv, ServedInv, IsRaw, RawInv, NEW k \in 1 .. Len(inbox["server"]), Serves(k)
  PROVE  ServedInv' /\ RawInv'
<1> USE SidesAre
<1> DEFINE read == ReadBy("server", k)
           rest == Left("server", k)
           u == raw.units
<1>1. PICK n \in 0 .. Len(u) : \E p \in 0 .. n : Passed(n, p)
  BY DEF RawInv
<1>2. PICK p \in 0 .. n : Passed(n, p)
  BY <1>1
<1>3. /\ TypeInv /\ SoundInv /\ task["server"].at \in {"head", "body"}
      /\ Headed("server", read) /\ Len(read) = Wanted("server", read)
  BY DEF Serves, SideInv
<1>4. /\ Cuts(Stream("server"), u, p, n) /\ (task["client"].at = "raw" => task["client"].written = n)
      /\ Covered(p)
  BY <1>2, <1>3 DEF Passed, ServerAlive, Busy
<1>5. /\ read \in Seq(Units) /\ rest \in Seq(Units) /\ read \o rest = task["server"].read \o inbox["server"]
      /\ read # <<>>
  BY <1>3, ReadFields
<1>6. Stream("server") = read \o rest
  BY <1>3, <1>5 DEF Stream
<1>7. /\ HeadOf("server", read) = sent["client"][read[1].of] /\ HeadOf("server", read) \in Messages
      /\ read[1].at = 1
  BY <1>3, ReadFields DEF HeadOf, Peer, Headed, Garbled
<1>8. /\ Taking(k).read = read /\ Taking(k).fds = FdsBy("server", k)
      /\ Brought(read, FdsBy("server", k)) /\ read[1].of \in DOMAIN sent["client"]
  BY ServesIs DEF Taking
<1> DEFINE w == sent["client"][read[1].of]
           L == HeadSize(w) + IncomingLength(w)
<1>9. /\ Len(read) = L /\ IncomingLengths(w) # {}
      /\ IncomingLength(w) \in Int /\ w \in Messages
  BY <1>3, <1>7 DEF Headed, Wanted
<1>10. /\ u \in Seq(Units) /\ sent["client"] = raw.messages
       /\ Len(u) \in Nat /\ DOMAIN u = 1 .. Len(u)
  BY RawFacts
<1>11. \A a \in DOMAIN u :
         LET v == raw.messages[u[a].of]
         IN u[a].at = 1 /\ IncomingLengths(v) # {} =>
              \A b \in DOMAIN u : a < b =>
                IF b - a < HeadSize(v) + IncomingLength(v)
                THEN u[b].of = u[a].of /\ u[b].at = b - a + 1
                ELSE u[b].at = 1 => u[a].of < u[b].of
  BY RawFacts, Zenon
<1>12. served' = Append(served, Taking(k)) /\ served \in Seq(Deliveries)
  BY ServesIs
<1>13. /\ task'["server"].at = "service" /\ task'["client"] = task["client"]
       /\ inbox'["server"] = rest /\ UNCHANGED <<sent, gone, raw>>
  BY ServesIs
<1> HIDE DEF read, rest, u, w
<1>14. /\ p + Len(read) \in p .. n /\ \A i \in 1 .. Len(read) : read[i] = u[p + i]
       /\ Cuts(rest, u, p + Len(read), n)
  <2>1. n \in Nat
    BY <1>10
  <2>2. Cuts(read \o rest, u, p, n)
    BY <1>4, <1>6, Zenon
  <2> QED
    BY <1>5, <2>1, <2>2, CutsApart
<1>15. /\ Len(read) \in Nat /\ Len(read) >= 1 /\ DOMAIN read = 1 .. Len(read)
       /\ n \in Nat /\ p \in Nat /\ n <= Len(u)
  BY <1>5, <1>10
<1>16. p + 1 \in DOMAIN u /\ read[1] = u[p + 1] /\ u[p + 1].at = 1
  <2>1. p + 1 \in 1 .. Len(u) /\ 1 \in 1 .. Len(read)
    BY <1>14, <1>15
  <2> QED
    BY <1>7, <1>10, <1>14, <2>1
<1>17. w = raw.messages[u[p + 1].of]
  BY <1>10, <1>16 DEF w
<1>18. \A b \in DOMAIN u : p + 1 < b =>
         IF b - (p + 1) < L
         THEN u[b].of = u[p + 1].of /\ u[b].at = b - (p + 1) + 1
         ELSE u[b].at = 1 => u[p + 1].of < u[b].of
  BY <1>9, <1>11, <1>16, <1>17
<1> HIDE DEF L
<1>19. \A i \in DOMAIN read : read[i].of = read[1].of /\ read[i].at = i
  <2> TAKE i \in DOMAIN read
  <2>1. CASE i = 1
    BY <1>7, <2>1
  <2>2. CASE i # 1
    <3>0. i \in 1 .. Len(read) /\ p + Len(read) <= n /\ Len(read) = L
      BY <1>9, <1>14, <1>15
    <3>1. /\ p + i \in DOMAIN u /\ p + 1 < p + i /\ (p + i) - (p + 1) < L
          /\ (p + i) - (p + 1) + 1 = i /\ i \in 1 .. Len(read)
      BY <1>10, <1>15, <2>2, <3>0
    <3>2. u[p + i].of = u[p + 1].of /\ u[p + i].at = i
      BY <1>18, <3>1
    <3> QED
      BY <1>14, <1>16, <3>1, <3>2
  <2> QED
    BY <2>1, <2>2
<1>20. Entire(Taking(k), sent["client"])
  BY <1>5, <1>8, <1>9, <1>19 DEF Entire, w, L
<1>21. ASSUME NEW j \in DOMAIN served
       PROVE  served[j].read[1].of < read[1].of
  <2>1. PICK a \in 1 .. p : /\ a + Len(served[j].read) - 1 <= p
                            /\ u[a].at = 1 /\ u[a].of = served[j].read[1].of
    BY <1>4 DEF Covered, u
  <2> DEFINE v == sent["client"][served[j].read[1].of]
             l == Len(served[j].read)
  <2>2. IncomingLengths(v) # {} /\ l = HeadSize(v) + IncomingLength(v)
    BY DEF ServedInv, Entire
  <2>3. served[j] \in Deliveries
    BY <1>12
  <2>4. l \in Nat
    BY <2>3 DEF Deliveries
  <2>5. v = raw.messages[u[a].of]
    BY <1>10, <2>1
  <2> HIDE DEF v, l
  <2>6. /\ a \in DOMAIN u /\ a < p + 1 /\ ~((p + 1) - a < l)
    BY <1>10, <1>15, <1>16, <2>1, <2>4 DEF l
  <2>7. IF (p + 1) - a < HeadSize(v) + IncomingLength(v)
        THEN u[p + 1].of = u[a].of /\ u[p + 1].at = (p + 1) - a + 1
        ELSE u[p + 1].at = 1 => u[a].of < u[p + 1].of
    BY <1>11, <1>16, <2>1, <2>2, <2>5, <2>6
  <2>8. u[a].of < u[p + 1].of
    BY <1>16, <2>2, <2>6, <2>7
  <2> QED
    BY <1>16, <2>1, <2>8
<1>22. ServedInv'
  BY <1>8, <1>20, <1>21, ServedGrows
<1>22a. PICK P \in 0 .. n : P = p + Len(read)
  BY <1>14, <1>15
<1>23. Covered(P)'
  <2>1. /\ Len(served) \in Nat /\ DOMAIN served = 1 .. Len(served)
        /\ DOMAIN served' = 1 .. Len(served) + 1
        /\ \A j \in 1 .. Len(served) : served'[j] = served[j]
        /\ served'[Len(served) + 1] = Taking(k)
    BY <1>12
  <2>2. ASSUME NEW j \in DOMAIN served'
        PROVE  \E a \in 1 .. P : /\ a + Len(served'[j].read) - 1 <= P
                                /\ u[a].at = 1 /\ u[a].of = served'[j].read[1].of
    <3>1. CASE j \in 1 .. Len(served)
      <4>1. PICK a \in 1 .. p : /\ a + Len(served[j].read) - 1 <= p
                                /\ u[a].at = 1 /\ u[a].of = served[j].read[1].of
        BY <1>4, <2>1, <3>1 DEF Covered, u
      <4>2. Len(served[j].read) \in Nat
        BY <1>12, <2>1, <3>1 DEF Deliveries
      <4>3. a \in 1 .. P /\ a + Len(served[j].read) - 1 <= P
        BY <1>15, <1>22a, <4>1, <4>2
      <4> QED
        BY <2>1, <3>1, <4>1, <4>3
    <3>2. CASE j = Len(served) + 1
      <4>1. served'[j].read = read
        BY <1>8, <2>1, <3>2
      <4>2. p + 1 \in 1 .. P /\ (p + 1) + Len(read) - 1 <= P
        BY <1>15, <1>22a
      <4> QED
        BY <1>16, <4>1, <4>2
    <3> QED
      BY <2>1, <3>1, <3>2
  <2>3. raw' = raw
    BY <1>13
  <2> QED
    BY <2>2, <2>3 DEF Covered, u
<1>24. RawInv'
  <2>3. Stream("server")' = rest
    BY <1>13 DEF Stream
  <2>4. Passed(n, P)'
    BY <1>4, <1>13, <1>14, <1>22a, <1>23, <2>3 DEF Passed, u
  <2>5. n \in 0 .. Len(raw'.units)
    BY <1>13 DEF u
  <2> QED
    BY <2>4, <2>5 DEF RawInv
<1> QED
  BY <1>22, <1>24

LEMMA RawFrame ==
  ASSUME RawInv, raw' = raw, served' = served,
         ServerAlive' => ServerAlive /\ Stream("server")' = Stream("server"),
         ServerAlive' /\ task'["client"].at = "raw" =>
           task["client"].at = "raw" /\ task'["client"].written = task["client"].written
  PROVE  RawInv'
<1>1. PICK n \in 0 .. Len(raw.units) : \E p \in 0 .. n : Passed(n, p)
  BY DEF RawInv
<1>2. PICK p \in 0 .. n : Passed(n, p)
  BY <1>1
<1>3. Covered(p)'
  BY <1>2 DEF Passed, Covered
<1>4. Passed(n, p)'
  BY <1>2, <1>3 DEF Passed
<1> QED
  BY <1>4 DEF RawInv

(* The peer writes more of its stream.                                     *)
LEMMA RawSendRaw ==
  ASSUME SideInv, RawInv, IsRaw, RawSend
  PROVE  RawInv'
<1> USE SidesAre
<1>1. PICK n \in 0 .. Len(raw.units) : \E p \in 0 .. n : Passed(n, p)
  BY DEF RawInv
<1>2. PICK p \in 0 .. n : Passed(n, p)
  BY <1>1
<1>3. /\ task["client"].at = "raw" /\ UNCHANGED <<raw, gone, reset, sent, served, outcomes>>
  BY DEF RawSend
<1>4. PICK m \in 1 .. Len(raw.units) - task["client"].written :
        /\ inbox' = [inbox EXCEPT !["server"] = @ \o
             SubSeq(raw.units, task["client"].written + 1, task["client"].written + m)]
        /\ task' = [task EXCEPT !["client"].written = @ + m]
  BY DEF RawSend, Put
<1>5. Covered(p)'
  BY <1>2, <1>3 DEF Passed, Covered
<1>6. task'["server"] = task["server"]
  BY <1>4 DEF SideInv, TypeInv
<1>7. CASE ~ServerAlive
  <2>1. ~ServerAlive'
    BY <1>6, <1>7 DEF ServerAlive
  <2>2. Passed(n, p)'
    BY <1>5, <2>1 DEF Passed
  <2> QED
    BY <1>3, <2>2 DEF RawInv
<1>8. CASE ServerAlive
  <2> DEFINE u == raw.units
             x == SubSeq(u, n + 1, n + m)
  <2>1. task["client"].written = n /\ Cuts(Stream("server"), u, p, n)
    BY <1>2, <1>3, <1>8 DEF Passed
  <2>2. u \in Seq(Units) /\ Len(u) \in Nat
    BY RawFacts
  <2>3. n \in Nat /\ m \in 1 .. Len(u) - n /\ m \in Nat /\ n + m \in 0 .. Len(u) /\ p \in 0 .. n + m
    BY <1>4, <2>1, <2>2
  <2>4. x \in Seq(Units) /\ Len(x) = m /\ \A i \in 1 .. m : x[i] = u[n + i]
    BY <2>2, <2>3, Extend
  <2>5. inbox'["server"] = inbox["server"] \o x
    BY <1>4, <2>1 DEF SideInv, TypeInv
  <2>6. /\ inbox["server"] \in Seq(Units) /\ task["server"].read \in Seq(Units)
        /\ task["client"] \in Tasks /\ task \in [Sides -> Tasks]
    BY TaskFields DEF SideInv, TypeInv
  <2>7. task'["client"].written = n + m /\ task'["client"].at = "raw"
    BY <1>3, <1>4, <2>1, <2>6 DEF Tasks
  <2> HIDE DEF u, x
  <2>8. Stream("server") \in Seq(Units) /\ Stream("server")' = Stream("server") \o x
    <3>1. CASE task["server"].at \in {"head", "body"}
      <4>1. task["server"].read \o (inbox["server"] \o x) = (task["server"].read \o inbox["server"]) \o x
        BY ONLY <2>4, <2>6, UnitsAssociative
      <4>2. task["server"].read \o inbox["server"] \in Seq(Units)
        BY <2>6, ConcatProperties
      <4> QED
        BY <1>6, <2>5, <3>1, <4>1, <4>2 DEF Stream
    <3>2. CASE task["server"].at \notin {"head", "body"}
      BY <1>6, <2>5, <2>6, <3>2 DEF Stream
    <3> QED
      BY <3>1, <3>2
  <2>9. Cuts(Stream("server") \o x, u, p, n + m)
    BY <2>1, <2>3, <2>4, <2>8, CutsGrow
  <2>10. PICK N \in 0 .. Len(u) : N = n + m
    BY <2>3
  <2>11. Cuts(Stream("server")', raw'.units, p, N)
    BY <1>3, <2>8, <2>9, <2>10 DEF u
  <2>12. task'["client"].written = N
    BY <2>7, <2>10
  <2>13. Passed(N, p)'
    BY <1>5, <2>11, <2>12 DEF Passed
  <2>14. p \in 0 .. N /\ N \in 0 .. Len(raw'.units)
    BY <1>3, <2>3, <2>10 DEF u
  <2> QED
    BY <2>13, <2>14 DEF RawInv
<1> QED
  BY <1>7, <1>8

LEMMA RawStep ==
  ASSUME SideInv, RawInv, IsRaw, [Next]_vars, served' = served
  PROVE  RawInv'
<1> USE SidesAre
<1>1. raw' = raw /\ task["client"].at \in {"raw", "gone"}
  BY RawStays, RawFacts
<1>2. ASSUME NEW why \in {"ended", "failed", "refused"}, NEW unread, Break("server", why, unread)
      PROVE  RawInv'
  <2>1. task'["server"].at = why
    BY <1>2, BreakIs
  <2>2. ~ServerAlive'
    BY <2>1 DEF ServerAlive, Busy
  <2> QED
    BY <1>1, <2>2, RawFrame
<1>3. ~Owner
  BY Zenon DEF Owner, Call, CallUnconnected, Cancel, DropClient
<1>4. ~Progress("client")
  BY <1>1 DEF Progress, Send, SendFails, Sent, ReadHead, ReadBody, ReadEnd
<1>5. CASE RawSend
  BY <1>5, RawSendRaw
<1>6. CASE RawRead
  <2>1. task' = task /\ inbox'["server"] = inbox["server"]
    BY <1>6 DEF RawRead, SideInv, TypeInv
  <2>2. ServerAlive' => ServerAlive /\ Stream("server")' = Stream("server")
    BY <2>1 DEF ServerAlive, Stream
  <2> QED
    BY <1>1, <2>1, <2>2, RawFrame
<1>7. CASE RawClose
  <2>1. Break("client", "gone", inbox["client"])
    BY <1>7 DEF RawClose
  <2>2. /\ task'["client"].at = "gone" /\ task'["server"] = task["server"]
        /\ inbox'["server"] = inbox["server"]
    BY <2>1, BreakIs
  <2>3. ServerAlive' => ServerAlive /\ Stream("server")' = Stream("server")
    BY <2>2 DEF ServerAlive, Stream
  <2> QED
    BY <1>1, <2>2, <2>3, RawFrame
(* The server moves, and what it has of the stream stays.                  *)
<1>8. ASSUME task'["client"] = task["client"], ServerAlive, Stream("server")' = Stream("server")
      PROVE  RawInv'
  BY <1>1, <1>8, RawFrame
<1>9. CASE Service
  <2>1. CASE ServiceFails
    BY <1>2, <2>1 DEF ServiceFails
  <2>2. ASSUME NEW m \in Responses, Serve(m) PROVE RawInv'
    <3>1. task["server"].at = "service"
      BY <2>2 DEF Serve
    <3>2. CASE PreparedResponse(m, task["server"].close) = {}
      BY <1>2, <2>2, <3>2 DEF Serve
    <3>3. CASE PreparedResponse(m, task["server"].close) # {}
      <4>1. PICK w \in PreparedResponse(m, task["server"].close) :
              task' = [task EXCEPT !["server"].at = "send", !["server"].written = 0,
                                      !["server"].close = Closes(w)]
        BY <2>2, <3>3 DEF Serve
      <4>2. inbox' = inbox
        BY <2>2, <3>3 DEF Serve
      <4>3. task'["client"] = task["client"] /\ task'["server"].at = "send"
        BY <4>1 DEF SideInv, TypeInv, Tasks
      <4> QED
        BY <1>8, <3>1, <4>2, <4>3 DEF ServerAlive, Stream
    <3> QED
      BY <3>2, <3>3
  <2> QED
    BY <1>9, <2>1, <2>2 DEF Service
<1>10. CASE Progress("server")
  <2>1. CASE Send("server")
    <3>1. PICK n \in Nat : SendsUnits("server", n)
      BY <2>1, SendIs, SendingFacts
    <3>2. task["server"].at = "send"
      BY <2>1 DEF Send
    <3>3. /\ task'["client"] = task["client"] /\ task'["server"].at = "send"
          /\ inbox'["server"] = inbox["server"]
      BY <3>1, <3>2 DEF SendsUnits, SideInv, TypeInv, Tasks
    <3> QED
      BY <1>8, <3>2, <3>3 DEF ServerAlive, Stream, Busy
  <2>2. CASE SendFails("server")
    BY <1>2, <2>2 DEF SendFails
  <2>3. CASE Sent("server")
    <3>1. task["server"].at = "send"
      BY <2>3 DEF Sent
    <3>2. CASE task["server"].close
      BY <1>2, <2>3, <3>2 DEF Sent
    <3>3. CASE ~task["server"].close
      <4>1. /\ task' = [task EXCEPT !["server"] = Receiving(@)] /\ inbox' = inbox
        BY <2>3, <3>3 DEF Sent
      <4>2. task'["server"].at = "head" /\ task'["server"].read = <<>>
            /\ task'["client"] = task["client"]
        BY <4>1, ReceivingIs DEF SideInv, TypeInv
      <4>3. <<>> \o inbox["server"] = inbox["server"]
        BY ConcatEmptySeq DEF SideInv, TypeInv
      <4> QED
        BY <1>8, <3>1, <4>1, <4>2, <4>3 DEF ServerAlive, Stream, Busy
    <3> QED
      BY <3>2, <3>3
  <2>4. CASE ReadHead("server") \/ ReadBody("server")
    <3>1. TypeInv /\ SoundInv /\ task["server"].at \in {"head", "body"}
      BY <2>4, ReadIs DEF SideInv
    <3>2. PICK k \in 1 .. Len(inbox["server"]) : ReadsUnits("server", k)
      BY <2>4, <3>1, ReadIs
    <3>3. CASE Objects("server", k) /\ Break("server", "refused", Left("server", k))
      BY <1>2, <3>3
    <3>4. \A t, w, unread : ~Complete("server", t, w, unread)
      <4>1. \A e : Append(served, e) # served
        <5>1. served \in Seq(Deliveries)
          BY DEF SideInv, TypeInv
        <5>2. \A e : Len(Append(served, e)) = Len(served) + 1 /\ Len(served) \in Nat
          BY <5>1
        <5> QED
          BY <5>2
      <4> QED
        BY <4>1 DEF Complete
    <3>5. /\ Got("server", k) \in Tasks /\ Got("server", k).at = task["server"].at
          /\ Got("server", k).read = ReadBy("server", k)
          /\ ReadBy("server", k) \o Left("server", k) = task["server"].read \o inbox["server"]
      BY <3>1, ReadFields
    <3>6. ASSUME NEW t \in Tasks, t.at \in {"head", "body"}, t.read = ReadBy("server", k),
                 Goes("server", k, t)
          PROVE  RawInv'
      <4>1. task'["server"] = t /\ task'["client"] = task["client"] /\ inbox'["server"] = Left("server", k)
        BY <3>6 DEF Goes, SideInv, TypeInv
      <4> QED
        BY <1>8, <3>1, <3>5, <3>6, <4>1 DEF ServerAlive, Stream, Busy
    <3>7. CASE Goes("server", k, [Got("server", k) EXCEPT !.at = "body"])
      <4> DEFINE t == [Got("server", k) EXCEPT !.at = "body"]
      <4>1. t \in Tasks /\ t.at = "body" /\ t.read = ReadBy("server", k)
        BY <3>5 DEF Tasks, Places
      <4>2. Goes("server", k, t)
        BY <3>7
      <4> HIDE DEF t
      <4> QED
        BY <3>6, <4>1, <4>2
    <3>8. CASE /\ task["server"].at = "head" /\ Len(ReadBy("server", k)) < MaxHeaderBytes
               /\ Goes("server", k, [Got("server", k) EXCEPT
                         !.room = IF Len(ReadBy("server", k)) = @ THEN Grown(@) ELSE @])
      <4> DEFINE t == [Got("server", k) EXCEPT
                         !.room = IF Len(ReadBy("server", k)) = @ THEN Grown(@) ELSE @]
      <4>1. t.at = "head" /\ t.read = ReadBy("server", k)
        BY <3>5, <3>8 DEF Tasks
      <4>2. Goes("server", k, t)
        BY <3>8
      <4> HIDE DEF t
      <4>3. task'["server"] = t /\ task'["client"] = task["client"] /\ inbox'["server"] = Left("server", k)
        BY <4>2 DEF Goes, SideInv, TypeInv
      <4> QED
        BY <1>8, <3>1, <3>5, <4>1, <4>3 DEF ServerAlive, Stream, Busy
    <3> QED
      BY <3>2, <3>3, <3>4, <3>7, <3>8 DEF ReadsUnits, TakesUnits
  <2>5. CASE ReadEnd("server")
    BY <1>2, <2>5 DEF ReadEnd
  <2> QED
    BY <1>10, <2>1, <2>2, <2>3, <2>4, <2>5 DEF Progress
<1>11. CASE UNCHANGED vars
  BY <1>11, <1>1, RawFrame DEF vars, ServerAlive, Stream
<1> QED
  BY <1>3, <1>4, <1>5, <1>6, <1>7, <1>9, <1>10, <1>11 DEF Next, Raw, Sides

LEMMA ServeStep == NetInv /\ ServeInv /\ [Next]_vars => ServeInv'
<1> SUFFICES ASSUME NetInv, ServeInv, [Next]_vars PROVE ServeInv'
  OBVIOUS
<1>1. SideInv /\ (~IsRaw => Net) /\ ServedInv /\ raw' = raw
  BY RawStays DEF NetInv, ServeInv
<1>2. IsRaw' <=> IsRaw
  BY <1>1 DEF IsRaw
<1>3. CASE served' = served
  <2>1. ServedInv'
    BY <1>1, <1>3, SentSteps, ServedStays
  <2>2. ~IsRaw => TurnInv'
    BY <1>1, <1>3, TurnsInv DEF ServeInv
  <2>3. IsRaw => RawInv'
    BY <1>1, <1>3, RawStep DEF ServeInv
  <2> QED
    BY <1>2, <2>1, <2>2, <2>3 DEF ServeInv
<1>4. ASSUME NEW k \in 1 .. Len(inbox["server"]), Serves(k) PROVE ServeInv'
  <2>1. CASE ~IsRaw
    <3>1. ServedInv'
      BY <1>1, <1>4, <2>1, ServesNet DEF ServeInv
    <3>2. TurnInv'
      <4>1. task'["server"].at = "service"
        BY <1>1, <1>4, ServesIs
      <4> QED
        BY <4>1 DEF TurnInv, Busy
    <3> QED
      BY <1>2, <2>1, <3>1, <3>2 DEF ServeInv
  <2>2. CASE IsRaw
    BY <1>1, <1>2, <1>4, <2>2, ServesRaw DEF ServeInv
  <2> QED
    BY <2>1, <2>2
<1> QED
  BY <1>1, <1>3, <1>4, ServedSteps

LEMMA ServeInit == Init => ServeInv
<1> SUFFICES ASSUME Init PROVE ServeInv
  OBVIOUS
<1> USE SidesAre
<1>1. served = <<>> /\ DOMAIN served = {}
  BY DEF Init
<1>2. ServedInv /\ TurnInv
  BY <1>1 DEF ServedInv, InOrder, TurnInv
<1>3. IsRaw => RawInv
  <2> HAVE IsRaw
  <2>1. SideInv
    BY SideInit
  <2>2. Len(raw.units) \in Nat
    BY <2>1, RawFacts
  <2>3. /\ inbox = [s \in Sides |-> <<>>]
        /\ task = [s \in Sides |-> IF s = "server" THEN Receiving(AtRest)
                                   ELSE [AtRest EXCEPT !.at = "raw"]]
    BY DEF Init
  <2>4. Stream("server") = <<>> /\ task["client"].written = 0
    <3>1. inbox["server"] = <<>> /\ task["server"].read = <<>> /\ task["client"].written = 0
      BY <2>3, ReceivingIs, RestTyped DEF AtRest
    <3> QED
      BY <3>1 DEF Stream
  <2>5. Cuts(<<>>, raw.units, 0, 0)
    BY DEF Cuts
  <2>6. Covered(0)
    BY <1>1 DEF Covered
  <2>7. Passed(0, 0)
    BY <2>4, <2>5, <2>6 DEF Passed
  <2> QED
    BY <2>2, <2>7 DEF RawInv
<1> QED
  BY <1>2, <1>3 DEF ServeInv

(* The service is only ever called with a whole request, the units of one  *)
(* message of the peer from its first to its last, with the descriptors    *)
(* that were attached to those units and no others, and with the peer's    *)
(* messages in the order they came.                                        *)
THEOREM OnlyWholeRequests == Spec => []ServesWholeRequests
<1>1. ServeInv => ServesWholeRequests
  BY DEF ServeInv, ServedInv, Entire, InOrder, Brought, ServesWholeRequests
<1> QED
  BY <1>1, ServeInit, ServeStep, NetInvariant, PTL DEF Spec

--------------------------------------------------------------------------------
(* The connection implements RpcExchange.  What each step of a client and  *)
(* a server does to its variables.                                         *)
Unanswered(e) == e.kind # "answered"
NotesNoAnswer == \E e : Unanswered(e) /\ outcomes' = Append(outcomes, e)

ServerStays ==
  /\ task'["server"].at = "service" => task["server"].at = "service"
  /\ task'["server"].at \in Busy => task["server"].at \in Busy

ClientStays ==
  /\ task'["client"].at \in Busy <=> task["client"].at \in Busy
  /\ task'["client"].at = "idle" <=> task["client"].at = "idle"

Unseen ==
  /\ UNCHANGED <<sent, served>> /\ ServerStays /\ ClientStays
  /\ outcomes' = outcomes \/ NotesNoAnswer

Fails ==
  /\ UNCHANGED <<sent, served>> /\ ServerStays /\ NotesNoAnswer
  /\ task["client"].at \in Busy /\ task'["client"].at = "gone"

HangsUp ==
  /\ UNCHANGED <<sent, served, outcomes>> /\ ServerStays
  /\ task["client"].at = "idle" /\ task'["client"].at = "gone"

Calls ==
  /\ \E w \in Messages : Sendable(w) /\ sent' = [sent EXCEPT !["client"] = Append(@, w)]
  /\ UNCHANGED <<served, outcomes>> /\ ServerStays
  /\ task["client"].at = "idle" /\ task'["client"].at = "send"

Replies ==
  /\ \E w \in Messages : Sendable(w) /\ sent' = [sent EXCEPT !["server"] = Append(@, w)]
  /\ UNCHANGED <<served, outcomes>> /\ ClientStays
  /\ task["server"].at = "service" /\ task'["server"].at = "send"

Answer(k) == [kind |-> "answered", read |-> ReadBy("client", k), fds |-> FdsBy("client", k)]

Answers(k) ==
  /\ task["client"].at \in {"head", "body"} /\ ReadsUnits("client", k)
  /\ Len(ReadBy("client", k)) = Wanted("client", ReadBy("client", k))
  /\ outcomes' = Append(outcomes, Answer(k))
  /\ UNCHANGED <<sent, served>> /\ task'["server"] = task["server"]
  /\ task'["client"].at \in {"idle", "gone"}

Moves ==
  \/ Unseen \/ Fails \/ HangsUp \/ Calls \/ Replies
  \/ \E k \in 1 .. Len(inbox["server"]) : Serves(k)
  \/ \E k \in 1 .. Len(inbox["client"]) : Answers(k)

LEMMA BreakMoves ==
  ASSUME SideInv, ~IsRaw, NEW s \in Sides, NEW why \in {"cancelled", "failed", "ended", "refused"},
         NEW unread, Break(s, why, unread), s = "client" => task["client"].at \in Busy
  PROVE  Moves
<1> USE SidesAre
<1>1. /\ task'[s].at = IF s = "client" THEN "gone" ELSE why
      /\ task'[Other(s)] = task[Other(s)] /\ sent' = sent /\ served' = served
  BY BreakIs
<1>2. CASE s = "client"
  <2>1. outcomes' = Append(outcomes, [kind |-> why, read |-> <<>>, fds |-> <<>>])
    BY <1>2 DEF Break
  <2>2. Unanswered([kind |-> why, read |-> <<>>, fds |-> <<>>])
    BY DEF Unanswered
  <2>3. Fails
    BY <1>1, <1>2, <2>1, <2>2 DEF Fails, NotesNoAnswer, ServerStays
  <2> QED
    BY <2>3 DEF Moves
<1>3. CASE s = "server"
  <2>1. outcomes' = outcomes
    BY <1>3 DEF Break
  <2>2. Unseen
    BY <1>1, <1>3, <2>1 DEF Unseen, ServerStays, ClientStays, Busy
  <2> QED
    BY <2>2 DEF Moves
<1> QED
  BY <1>2, <1>3 DEF Sides

LEMMA OwnerMoves ==
  ASSUME SideInv, ~IsRaw, Owner
  PROVE  Moves
<1> USE SidesAre
<1>1. ASSUME NEW m \in Requests, Call(m) PROVE Moves
  <2>1. task["client"].at = "idle"
    BY <1>1 DEF Call
  <2>2. CASE PreparedRequest(m) = {}
    <3>1. outcomes' = Append(outcomes, [kind |-> "unsent", read |-> <<>>, fds |-> <<>>])
          /\ UNCHANGED <<task, sent, served>>
      BY <1>1, <2>2 DEF Call
    <3>2. Unanswered([kind |-> "unsent", read |-> <<>>, fds |-> <<>>])
      BY DEF Unanswered
    <3>3. Unseen
      BY <3>1, <3>2 DEF Unseen, ServerStays, ClientStays, NotesNoAnswer
    <3> QED
      BY <3>3 DEF Moves
  <2>3. CASE PreparedRequest(m) # {}
    <3>1. PICK w \in PreparedRequest(m) : sent' = [sent EXCEPT !["client"] = Append(@, w)]
      BY <1>1, <2>3 DEF Call
    <3>2. /\ task' = [task EXCEPT !["client"].at = "send", !["client"].written = 0,
                                  !["client"].close = Closes(m)]
          /\ UNCHANGED <<served, outcomes>>
      BY <1>1, <2>3 DEF Call
    <3>3. task'["client"].at = "send" /\ task'["server"] = task["server"]
      BY <3>2 DEF SideInv, TypeInv, Tasks
    <3>4. w \in Messages /\ Sendable(w)
      BY RequestPrepared
    <3>5. Calls
      BY <2>1, <3>1, <3>2, <3>3, <3>4 DEF Calls, ServerStays
    <3> QED
      BY <3>5 DEF Moves
  <2> QED
    BY <2>2, <2>3
<1>2. CASE CallUnconnected
  <2>1. Unanswered([kind |-> "unconnected", read |-> <<>>, fds |-> <<>>])
    BY DEF Unanswered
  <2>2. Unseen
    BY <1>2, <2>1 DEF CallUnconnected, Unseen, ServerStays, ClientStays, NotesNoAnswer
  <2> QED
    BY <2>2 DEF Moves
<1>3. CASE Cancel
  BY <1>3, BreakMoves DEF Cancel, Busy
<1>4. CASE DropClient
  <2>1. task'["client"].at = "gone" /\ task'["server"] = task["server"]
    BY <1>4 DEF DropClient, SideInv, TypeInv, Tasks
  <2>2. HangsUp
    BY <1>4, <2>1 DEF DropClient, HangsUp, ServerStays
  <2> QED
    BY <2>2 DEF Moves
<1> QED
  BY <1>1, <1>2, <1>3, <1>4 DEF Owner

LEMMA ServiceMoves ==
  ASSUME SideInv, ~IsRaw, Service
  PROVE  Moves
<1> USE SidesAre
<1>1. CASE ServiceFails
  BY <1>1, BreakMoves DEF ServiceFails
<1>2. ASSUME NEW m \in Responses, Serve(m) PROVE Moves
  <2>1. task["server"].at = "service" /\ task["server"].close \in BOOLEAN
    BY <1>2, TaskFields DEF Serve, SideInv, TypeInv
  <2>2. CASE PreparedResponse(m, task["server"].close) = {}
    BY <1>2, <2>2, BreakMoves DEF Serve
  <2>3. CASE PreparedResponse(m, task["server"].close) # {}
    <3>1. PICK w \in PreparedResponse(m, task["server"].close) :
            /\ sent' = [sent EXCEPT !["server"] = Append(@, w)]
            /\ task' = [task EXCEPT !["server"].at = "send", !["server"].written = 0,
                                    !["server"].close = Closes(w)]
      BY <1>2, <2>3 DEF Serve
    <3>2. UNCHANGED <<served, outcomes>>
      BY <1>2, <2>3 DEF Serve
    <3>3. task'["server"].at = "send" /\ task'["client"] = task["client"]
      BY <3>1 DEF SideInv, TypeInv, Tasks
    <3>4. w \in Messages /\ Sendable(w)
      BY <2>1, ResponsePrepared
    <3>5. Replies
      BY <2>1, <3>1, <3>2, <3>3, <3>4 DEF Replies, ClientStays
    <3> QED
      BY <3>5 DEF Moves
  <2> QED
    BY <2>2, <2>3
<1> QED
  BY <1>1, <1>2 DEF Service

LEMMA ReadMoves ==
  ASSUME SideInv, Net, ~IsRaw, NEW s \in Sides, ReadHead(s) \/ ReadBody(s)
  PROVE  Moves
<1> USE SidesAre
<1>1. TypeInv /\ SoundInv /\ task[s].at \in {"head", "body"}
  BY ReadIs DEF SideInv
<1>2. PICK k \in 1 .. Len(inbox[s]) : ReadsUnits(s, k)
  BY <1>1, ReadIs
<1>3. TakesUnits(s, k)
  BY <1>1, <1>2, ReadNet
<1>4. /\ Got(s, k).at = task[s].at /\ Got(s, k).read = ReadBy(s, k) /\ Got(s, k) \in Tasks
      /\ Got(s, k).fds = FdsBy(s, k)
  BY <1>1, ReadFields
<1>5. ASSUME NEW t, t.at \in {"head", "body"}, Goes(s, k, t) PROVE Moves
  <2>1. /\ task'[s].at \in {"head", "body"} /\ task'[Other(s)] = task[Other(s)]
        /\ UNCHANGED <<sent, served, outcomes>>
    BY <1>5 DEF Goes, SideInv, TypeInv
  <2>2. \A r \in Sides : task'[r].at = task[r].at \/ (task[r].at \in Busy /\ task'[r].at \in {"head", "body"})
    BY <1>1, <2>1 DEF Sides, Busy
  <2>3. Unseen
    BY <2>1, <2>2 DEF Unseen, ServerStays, ClientStays, Busy
  <2> QED
    BY <2>3 DEF Moves
<1>6. CASE Goes(s, k, [Got(s, k) EXCEPT !.at = "body"])
  <2> DEFINE t == [Got(s, k) EXCEPT !.at = "body"]
  <2>1. t.at = "body"
    BY <1>4 DEF Tasks
  <2> HIDE DEF t
  <2>2. Goes(s, k, t)
    BY <1>6 DEF t
  <2> QED
    BY <1>5, <2>1, <2>2
<1>7. CASE Goes(s, k, [Got(s, k) EXCEPT !.room = IF Len(ReadBy(s, k)) = @ THEN Grown(@) ELSE @])
  <2> DEFINE t == [Got(s, k) EXCEPT !.room = IF Len(ReadBy(s, k)) = @ THEN Grown(@) ELSE @]
  <2>1. t.at \in {"head", "body"}
    BY <1>1, <1>4 DEF Tasks
  <2>2. Goes(s, k, t)
    BY <1>7
  <2> HIDE DEF t
  <2> QED
    BY <1>5, <2>1, <2>2
<1>8. CASE /\ task[s].read = <<>> \/ FdsIn(Taken(s, k)) = <<>>
           /\ Headed(s, ReadBy(s, k)) /\ Len(ReadBy(s, k)) = Wanted(s, ReadBy(s, k))
           /\ Complete(s, Got(s, k), HeadOf(s, ReadBy(s, k)), Left(s, k))
  <2>1. CASE s = "server"
    <3>1. Serves(k)
      BY <1>1, <1>2, <1>8, <2>1 DEF Serves
    <3> QED
      BY <2>1, <3>1 DEF Moves
  <2>2. CASE s = "client"
    <3>1. /\ outcomes' = Append(outcomes, [kind |-> "answered", read |-> Got(s, k).read, fds |-> Got(s, k).fds])
          /\ UNCHANGED <<sent, served>>
      BY <1>8, <2>2 DEF Complete
    <3>2. outcomes' = Append(outcomes, Answer(k))
      BY <1>4, <2>2, <3>1 DEF Answer
    <3>3. \/ task' = [task EXCEPT !["client"] = [AtRest EXCEPT !.at = "gone"]]
          \/ task' = [task EXCEPT !["client"] = [AtRest EXCEPT !.room = Got(s, k).room]]
      BY <1>8, <2>2 DEF Complete
    <3>4. task'["server"] = task["server"] /\ task'["client"].at \in {"idle", "gone"}
      BY <3>3 DEF SideInv, TypeInv, AtRest
    <3>5. Answers(k)
      BY <1>1, <1>2, <1>8, <2>2, <3>1, <3>2, <3>4 DEF Answers
    <3> QED
      BY <2>2, <3>5 DEF Moves
  <2> QED
    BY <2>1, <2>2 DEF Sides
<1> QED
  BY <1>3, <1>6, <1>7, <1>8 DEF TakesUnits

LEMMA StepMoves ==
  ASSUME SideInv, Net, ~IsRaw, [Next]_vars
  PROVE  Moves
<1> USE SidesAre
<1>1. ASSUME NEW s \in Sides, Progress(s) PROVE Moves
  <2>1. CASE Send(s)
    <3>0. PICK n \in Nat : task' = [task EXCEPT ![s].written = @ + n]
      BY <2>1, SendIs, SendingFacts DEF SendsUnits
    <3>1. UNCHANGED <<sent, served, outcomes>>
      BY <2>1 DEF Send
    <3>2. \A r \in Sides : task'[r].at = task[r].at
      <4> TAKE r \in Sides
      <4>1. CASE r = s
        <5>1. task'[s] = [task[s] EXCEPT !.written = @ + n] /\ task[s] \in Tasks
          BY <3>0 DEF SideInv, TypeInv
        <5> QED
          BY <4>1, <5>1 DEF Tasks
      <4>2. CASE r # s
        BY <3>0, <4>2 DEF SideInv, TypeInv
      <4> QED
        BY <4>1, <4>2
    <3>3. Unseen
      BY <3>1, <3>2 DEF Unseen, ServerStays, ClientStays
    <3> QED
      BY <3>3 DEF Moves
  <2>2. CASE SendFails(s)
    BY <2>2, BreakMoves DEF SendFails, Busy
  <2>3. CASE Sent(s)
    <3>1. CASE s = "server" /\ task[s].close
      BY <2>3, <3>1, BreakMoves DEF Sent
    <3>2. CASE ~(s = "server" /\ task[s].close)
      <4>1. /\ task[s].at = "send" /\ task' = [task EXCEPT ![s] = Receiving(@)]
            /\ UNCHANGED <<sent, served, outcomes>>
        BY <2>3, <3>2 DEF Sent
      <4>2. \A r \in Sides : task'[r].at = task[r].at \/ (task[r].at = "send" /\ task'[r].at = "head")
        BY <4>1, ReceivingIs DEF SideInv, TypeInv
      <4>3. Unseen
        BY <4>1, <4>2 DEF Unseen, ServerStays, ClientStays, Busy
      <4> QED
        BY <4>3 DEF Moves
    <3> QED
      BY <3>1, <3>2
  <2>4. CASE ReadHead(s) \/ ReadBody(s)
    BY <2>4, ReadMoves
  <2>5. CASE ReadEnd(s)
    <3>1. task[s].at \in Busy
      BY <2>5 DEF ReadEnd, Busy
    <3>2. PICK why \in {"ended", "failed"} : Break(s, why, <<>>)
      BY <2>5 DEF ReadEnd
    <3> QED
      BY <3>1, <3>2, BreakMoves
  <2> QED
    BY <1>1, <2>1, <2>2, <2>3, <2>4, <2>5 DEF Progress
<1>2. ~Raw
  <2>1. task["client"].at # "raw"
    BY NetPlaces DEF Busy
  <2> QED
    BY <2>1 DEF Raw, RawSend, RawRead, RawClose
<1>3. UNCHANGED vars => Moves
  <2>1. UNCHANGED vars => Unseen
    BY DEF vars, Unseen, ServerStays, ClientStays
  <2> QED
    BY <2>1 DEF Moves
<1> QED
  BY <1>1, <1>2, <1>3, OwnerMoves, ServiceMoves DEF Next

(* The calls that were answered, by how the calls ended.                   *)
Told(q) == {c \in DOMAIN q : q[c].kind = "answered"}
TurnOf(q, c) == Cardinality({b \in Told(q) : b <= c})

LEMMA ToldFinite ==
  ASSUME NEW q \in Seq(Ends)
  PROVE  /\ IsFiniteSet(Told(q)) /\ Cardinality(Told(q)) \in Nat
         /\ Len(q) \in Nat /\ \A c \in Told(q) : c \in 1 .. Len(q)
<1>1. Len(q) \in Nat /\ Told(q) \subseteq 1 .. Len(q)
  BY DEF Told
<1>2. IsFiniteSet(1 .. Len(q))
  BY <1>1, FS_Interval
<1> QED
  BY <1>1, <1>2, FS_Subset, FS_CardinalityType

LEMMA ToldGrows ==
  ASSUME NEW q \in Seq(Ends), NEW e
  PROVE  /\ \A c \in Told(q) : /\ TurnOf(Append(q, e), c) = TurnOf(q, c) /\ Append(q, e)[c] = q[c]
                               /\ c \in Told(Append(q, e))
         /\ Unanswered(e) => Told(Append(q, e)) = Told(q)
         /\ ~Unanswered(e) =>
              /\ \A c \in Told(Append(q, e)) : c \in Told(q) \/ c = Len(q) + 1
              /\ Cardinality(Told(Append(q, e))) = Cardinality(Told(q)) + 1
              /\ TurnOf(Append(q, e), Len(q) + 1) = Cardinality(Told(q)) + 1
              /\ Append(q, e)[Len(q) + 1] = e
<1> DEFINE r == Append(q, e)
           n == Len(q)
<1>1. /\ n \in Nat /\ DOMAIN q = 1 .. n /\ DOMAIN r = 1 .. n + 1
      /\ \A c \in 1 .. n : r[c] = q[c]
      /\ r[n + 1] = e
  OBVIOUS
<1>2. /\ IsFiniteSet(Told(q)) /\ Cardinality(Told(q)) \in Nat /\ \A c \in Told(q) : c \in 1 .. n
  BY ToldFinite
<1> HIDE DEF r, n
<1>3. \A c \in Told(r) : c \in Told(q) \/ (c = n + 1 /\ ~Unanswered(e))
  BY <1>1 DEF Told, Unanswered
<1>4. \A c \in Told(q) : c \in Told(r) /\ r[c] = q[c]
  BY <1>1, <1>2 DEF Told
<1>5. \A c \in Told(q) : TurnOf(r, c) = TurnOf(q, c)
  <2> TAKE c \in Told(q)
  <2>1. {b \in Told(r) : b <= c} = {b \in Told(q) : b <= c}
    <3>1. c \in 1 .. n /\ ~(n + 1 <= c)
      BY <1>1, <1>2
    <3> QED
      BY <1>3, <1>4, <3>1
  <2> QED
    BY <2>1 DEF TurnOf
<1>6. Unanswered(e) => Told(r) = Told(q)
  BY <1>3, <1>4
<1>7. ASSUME ~Unanswered(e)
      PROVE  /\ Cardinality(Told(r)) = Cardinality(Told(q)) + 1
             /\ TurnOf(r, n + 1) = Cardinality(Told(q)) + 1
  <2>1. n + 1 \in Told(r)
    BY <1>1, <1>7 DEF Told, Unanswered
  <2>2. Told(r) = Told(q) \cup {n + 1} /\ n + 1 \notin Told(q)
    <3>1. n + 1 \notin 1 .. n
      BY <1>1
    <3> QED
      BY <1>2, <1>3, <1>4, <2>1, <3>1
  <2>3. Cardinality(Told(r)) = Cardinality(Told(q)) + 1
    BY <1>2, <2>2, FS_AddElement
  <2>4. {b \in Told(r) : b <= n + 1} = Told(r)
    <3>1. \A b \in Told(r) : b <= n + 1
      BY <1>1, <1>2, <2>2
    <3> QED
      BY <3>1
  <2> QED
    BY <2>3, <2>4 DEF TurnOf
<1> QED
  BY <1>1, <1>3, <1>4, <1>5, <1>6, <1>7 DEF r, n

(* A client and a server: requests are served one by one and responses are *)
(* taken one by one, each as it was sent.                                  *)
ServedTally ==
  /\ Len(served) = Len(sent["server"]) \/ (Pending /\ Len(served) = Len(sent["server"]) + 1)
  /\ task["server"].at = "service" => Len(served) = Len(sent["server"]) + 1
  /\ task["server"].at \in Busy => Len(served) = Len(sent["server"])
  /\ \A j \in DOMAIN served : j \in DOMAIN sent["client"] /\ Intact(served[j], "client", j)

AnsweredTally ==
  /\ task["client"].at \in Busy => Cardinality(Told(outcomes)) + 1 = Len(sent["client"])
  /\ task["client"].at = "idle" => Cardinality(Told(outcomes)) = Len(sent["client"])
  /\ \A c \in Told(outcomes) :
       \E i \in DOMAIN sent["server"] : i = TurnOf(outcomes, c) /\ Intact(outcomes[c], "server", i)

Tally == ServedTally /\ AnsweredTally

LEMMA TallyTypes ==
  ASSUME SideInv
  PROVE  /\ served \in Seq(Deliveries) /\ outcomes \in Seq(Ends)
         /\ sent["client"] \in Seq(Messages) /\ sent["server"] \in Seq(Messages)
         /\ Len(served) \in Nat /\ Len(sent["client"]) \in Nat /\ Len(sent["server"]) \in Nat
         /\ Cardinality(Told(outcomes)) \in Nat
<1>1. /\ served \in Seq(Deliveries) /\ outcomes \in Seq(Ends)
      /\ sent["client"] \in Seq(Messages) /\ sent["server"] \in Seq(Messages)
  BY SidesAre DEF SideInv, TypeInv
<1>2. Len(served) \in Nat /\ Len(sent["client"]) \in Nat /\ Len(sent["server"]) \in Nat
  BY <1>1
<1> QED
  BY <1>1, <1>2, ToldFinite

LEMMA MessagesStay ==
  ASSUME NEW s, NEW msgs, msgs = sent'[s], NEW i \in DOMAIN sent[s], msgs[i] = sent[s][i]
  PROVE  UnitsOf(s, i)' = UnitsOf(s, i) /\ Descriptors(s, i)' = Descriptors(s, i)
BY DEF UnitsOf, Descriptors

(* All that was sent before is as it was.                                  *)
Before(s) ==
  \A i \in DOMAIN sent[s] : /\ i \in DOMAIN sent'[s]
                            /\ UnitsOf(s, i)' = UnitsOf(s, i) /\ Descriptors(s, i)' = Descriptors(s, i)

LEMMA BeforeStays ==
  ASSUME SideInv, NEW s \in Sides, sent'[s] = sent[s] \/ \E w \in Messages : sent'[s] = Append(sent[s], w)
  PROVE  Before(s)
<1>1. sent[s] \in Seq(Messages)
  BY DEF SideInv, TypeInv
<1>2. \A i \in DOMAIN sent[s] : i \in DOMAIN sent'[s] /\ sent'[s][i] = sent[s][i]
  BY <1>1
<1> QED
  BY <1>2, MessagesStay DEF Before

(* What was served and answered before stays so.                           *)
LEMMA ServedAsBefore ==
  ASSUME SideInv, ServedTally, Before("client"), served' = served
  PROVE  \A j \in DOMAIN served' :
           /\ j \in DOMAIN sent'["client"] /\ served'[j].read = UnitsOf("client", j)'
           /\ served'[j].fds = Descriptors("client", j)'
BY DEF ServedTally, Before, Intact

LEMMA AnsweredAsBefore ==
  ASSUME SideInv, AnsweredTally, Before("server"), NEW q, q = outcomes',
         q = outcomes \/ \E e : q = Append(outcomes, e)
  PROVE  \A c \in Told(outcomes) :
           \E i \in DOMAIN sent'["server"] :
             /\ i = TurnOf(q, c) /\ q[c].read = UnitsOf("server", i)'
             /\ q[c].fds = Descriptors("server", i)'
<1> TAKE c \in Told(outcomes)
<1>1. PICK i \in DOMAIN sent["server"] : i = TurnOf(outcomes, c) /\ Intact(outcomes[c], "server", i)
  BY DEF AnsweredTally
<1>2. TurnOf(q, c) = TurnOf(outcomes, c) /\ q[c] = outcomes[c]
  <2>1. ASSUME NEW e, q = Append(outcomes, e)
        PROVE  TurnOf(q, c) = TurnOf(outcomes, c) /\ q[c] = outcomes[c]
    <3>1. outcomes \in Seq(Ends)
      BY TallyTypes
    <3>2. \A b \in Told(outcomes) :
             /\ TurnOf(Append(outcomes, e), b) = TurnOf(outcomes, b)
             /\ Append(outcomes, e)[b] = outcomes[b]
      BY <3>1, ToldGrows
    <3> QED
      BY <2>1, <3>2
  <2> QED
    BY <2>1
<1>3. /\ i \in DOMAIN sent'["server"] /\ UnitsOf("server", i)' = UnitsOf("server", i)
      /\ Descriptors("server", i)' = Descriptors("server", i)
  BY DEF Before
<1> QED
  BY <1>1, <1>2, <1>3 DEF Intact

LEMMA AnswersAre ==
  ASSUME NEW q, q = outcomes',
         \A c \in Told(q) : \E i \in DOMAIN sent'["server"] :
           /\ i = TurnOf(q, c) /\ q[c].read = UnitsOf("server", i)'
           /\ q[c].fds = Descriptors("server", i)',
         task'["client"].at \in Busy => Cardinality(Told(q)) + 1 = Len(sent'["client"]),
         task'["client"].at = "idle" => Cardinality(Told(q)) = Len(sent'["client"])
  PROVE  AnsweredTally'
BY DEF AnsweredTally, Told, TurnOf, Intact

(* A step that answers no call.                                            *)
LEMMA NoAnswer ==
  ASSUME SideInv, AnsweredTally, Before("server"), outcomes' = outcomes \/ NotesNoAnswer
  PROVE  \E q : /\ q = outcomes' /\ Cardinality(Told(q)) = Cardinality(Told(outcomes))
                /\ \A c \in Told(q) : \E i \in DOMAIN sent'["server"] :
                     /\ i = TurnOf(q, c) /\ q[c].read = UnitsOf("server", i)'
                     /\ q[c].fds = Descriptors("server", i)'
<1> PICK q : q = outcomes'
  OBVIOUS
<1>1. Told(q) = Told(outcomes) /\ (q = outcomes \/ \E e : q = Append(outcomes, e))
  BY TallyTypes, ToldGrows DEF NotesNoAnswer
<1> QED
  BY <1>1, AnsweredAsBefore

(* Both sides count on.                                                    *)
LEMMA UnseenTally ==
  ASSUME SideInv, Net, ~IsRaw, Tally, Unseen \/ Fails \/ HangsUp
  PROVE  Tally'
<1> USE SidesAre
<1>1. UNCHANGED <<sent, served>> /\ ServerStays
  BY DEF Unseen, Fails, HangsUp
<1>2. Before("client") /\ Before("server")
  BY <1>1, BeforeStays
<1>3. /\ task'["client"].at \in Busy => task["client"].at \in Busy
      /\ task'["client"].at = "idle" => task["client"].at = "idle"
  BY DEF Unseen, Fails, HangsUp, ClientStays, Busy
<1>4. ServedTally'
  <2>1. Pending' <=> Pending
    BY <1>1 DEF Pending
  <2>2. \A j \in DOMAIN served' : (j \in DOMAIN sent["client"] /\ Intact(served[j], "client", j))'
    BY <1>1, <1>2, ServedAsBefore DEF Tally, Intact
  <2> QED
    BY <1>1, <2>1, <2>2 DEF Tally, ServedTally, ServerStays
<1>5. PICK q : /\ q = outcomes' /\ Cardinality(Told(q)) = Cardinality(Told(outcomes))
               /\ \A c \in Told(q) : \E i \in DOMAIN sent'["server"] :
                    /\ i = TurnOf(q, c) /\ q[c].read = UnitsOf("server", i)'
                    /\ q[c].fds = Descriptors("server", i)'
  BY <1>2, NoAnswer DEF Tally, Unseen, Fails, HangsUp
<1>6. /\ task'["client"].at \in Busy => Cardinality(Told(q)) + 1 = Len(sent'["client"])
      /\ task'["client"].at = "idle" => Cardinality(Told(q)) = Len(sent'["client"])
  BY <1>1, <1>3, <1>5 DEF Tally, AnsweredTally
<1>7. AnsweredTally'
  BY <1>5, <1>6, AnswersAre
<1> QED
  BY <1>4, <1>7 DEF Tally

LEMMA CallsTally ==
  ASSUME SideInv, Net, ~IsRaw, Tally, Calls
  PROVE  Tally'
<1> USE SidesAre
<1>1. PICK w \in Messages : Sendable(w) /\ sent' = [sent EXCEPT !["client"] = Append(@, w)]
  BY DEF Calls
<1>2. /\ Len(sent'["client"]) = Len(sent["client"]) + 1 /\ sent'["server"] = sent["server"]
  BY <1>1, OneMore DEF Net
<1>3. sent'["client"] = Append(sent["client"], w)
  BY <1>1 DEF SideInv, TypeInv
<1>4. Before("client") /\ Before("server")
  BY <1>2, <1>3, BeforeStays
<1>5. UNCHANGED <<served, outcomes>> /\ ServerStays /\ task["client"].at = "idle" /\ task'["client"].at = "send"
  BY DEF Calls
<1>6. /\ Len(sent["client"]) \in Nat /\ Len(sent["server"]) \in Nat /\ Len(served) \in Nat
      /\ Cardinality(Told(outcomes)) \in Nat
  BY TallyTypes
<1>7. Len(served) = Len(sent["server"]) /\ ~Pending
  BY <1>5 DEF Net, CountInv, Tally, ServedTally
<1>8. ServedTally'
  <2>1. \A j \in DOMAIN served' : (j \in DOMAIN sent["client"] /\ Intact(served[j], "client", j))'
    BY <1>4, <1>5, ServedAsBefore DEF Tally, Intact
  <2>2. task["server"].at # "service"
    BY <1>7 DEF Net, CountInv
  <2> QED
    BY <1>2, <1>5, <1>7, <2>1, <2>2 DEF ServedTally, ServerStays
<1>9. PICK q : /\ q = outcomes' /\ Cardinality(Told(q)) = Cardinality(Told(outcomes))
               /\ \A c \in Told(q) : \E i \in DOMAIN sent'["server"] :
                    /\ i = TurnOf(q, c) /\ q[c].read = UnitsOf("server", i)'
                    /\ q[c].fds = Descriptors("server", i)'
  BY <1>4, <1>5, NoAnswer DEF Tally
<1>10. Cardinality(Told(q)) + 1 = Len(sent'["client"])
  BY <1>2, <1>5, <1>9 DEF Tally, AnsweredTally
<1>11. AnsweredTally'
  BY <1>5, <1>9, <1>10, AnswersAre
<1> QED
  BY <1>8, <1>11 DEF Tally

LEMMA RepliesTally ==
  ASSUME SideInv, Net, ~IsRaw, Tally, Replies
  PROVE  Tally'
<1> USE SidesAre
<1>1. PICK w \in Messages : Sendable(w) /\ sent' = [sent EXCEPT !["server"] = Append(@, w)]
  BY DEF Replies
<1>2. /\ Len(sent'["server"]) = Len(sent["server"]) + 1 /\ sent'["client"] = sent["client"]
  BY <1>1, OneMore DEF Net
<1>3. sent'["server"] = Append(sent["server"], w)
  BY <1>1 DEF SideInv, TypeInv
<1>4. Before("client") /\ Before("server")
  BY <1>2, <1>3, BeforeStays
<1>5. UNCHANGED <<served, outcomes>> /\ ClientStays /\ task["server"].at = "service" /\ task'["server"].at = "send"
  BY DEF Replies
<1>6. Len(served) = Len(sent'["server"])
  BY <1>2, <1>5 DEF Tally, ServedTally
<1>7. ServedTally'
  <2>1. \A j \in DOMAIN served' : (j \in DOMAIN sent["client"] /\ Intact(served[j], "client", j))'
    BY <1>4, <1>5, ServedAsBefore DEF Tally, Intact
  <2> QED
    BY <1>5, <1>6, <2>1 DEF ServedTally
<1>8. PICK q : /\ q = outcomes' /\ Cardinality(Told(q)) = Cardinality(Told(outcomes))
               /\ \A c \in Told(q) : \E i \in DOMAIN sent'["server"] :
                    /\ i = TurnOf(q, c) /\ q[c].read = UnitsOf("server", i)'
                    /\ q[c].fds = Descriptors("server", i)'
  BY <1>4, <1>5, NoAnswer DEF Tally
<1>9. /\ task'["client"].at \in Busy => Cardinality(Told(q)) + 1 = Len(sent'["client"])
      /\ task'["client"].at = "idle" => Cardinality(Told(q)) = Len(sent'["client"])
  BY <1>2, <1>5, <1>8 DEF Tally, AnsweredTally, ClientStays
<1>10. AnsweredTally'
  BY <1>8, <1>9, AnswersAre
<1> QED
  BY <1>7, <1>10 DEF Tally

LEMMA ServesTally ==
  ASSUME SideInv, Net, ~IsRaw, Tally, NEW k \in 1 .. Len(inbox["server"]), Serves(k)
  PROVE  Tally' /\ Pending /\ Len(served) = Len(sent["server"]) /\ Len(served') = Len(served) + 1
<1> USE SidesAre
<1> DEFINE d == Taking(k)
           n == Len(served)
<1>1. /\ served' = Append(served, d) /\ served \in Seq(Deliveries)
      /\ task'["server"].at = "service" /\ task'["client"] = task["client"]
      /\ UNCHANGED <<sent, outcomes>>
  BY ServesIs
<1>2. /\ n \in Nat /\ DOMAIN served = 1 .. n /\ DOMAIN served' = 1 .. n + 1
      /\ Len(served') = n + 1
      /\ \A j \in 1 .. n : served'[j] = served[j]
      /\ served'[n + 1] = d
  BY <1>1
<1>3. task["server"].at \in {"head", "body"} /\ ReadsUnits("server", k)
      /\ Len(ReadBy("server", k)) = Wanted("server", ReadBy("server", k))
  BY DEF Serves
<1>4. /\ Due("server") /\ sent["client"] # <<>> /\ HeadOf("server", ReadBy("server", k)) = Last("client")
      /\ Len(ReadBy("server", k)) = Len(Whole("client")) =>
           /\ ReadBy("server", k) = Whole("client")
           /\ FdsBy("server", k) = Descriptors("client", Len(sent["client"]))
  BY <1>3, ReadNet
<1>5. Len(ReadBy("server", k)) = Len(Whole("client"))
  <2>1. Len(Whole("client")) = Total(Last("client")) /\ IncomingLength(Last("client")) = Last("client").body
    BY <1>4, WholeFacts DEF Net
  <2> QED
    BY <1>3, <1>4, <2>1 DEF Wanted, Total
<1>6. d.read = Whole("client") /\ d.fds = Descriptors("client", Len(sent["client"]))
  BY <1>4, <1>5 DEF Taking
<1>7. Pending /\ n = Len(sent["server"]) /\ Len(sent["client"]) = n + 1
      /\ Len(sent["client"]) \in DOMAIN sent["client"]
  <2>1. Pending /\ n = Len(sent["server"])
    BY <1>3, <1>4 DEF Due, Tally, ServedTally, Busy
  <2> QED
    BY <1>4, <2>1, WholeFacts DEF Pending, Net
<1>8. Before("client") /\ Before("server")
  BY <1>1, BeforeStays
<1> HIDE DEF d, n
<1>9. ServedTally'
  <2>1. ASSUME NEW j \in 1 .. n + 1
        PROVE  (j \in DOMAIN sent["client"] /\ Intact(served[j], "client", j))'
    <3>1. CASE j \in 1 .. n
      <4>1. j \in DOMAIN sent["client"] /\ Intact(served[j], "client", j) /\ served'[j] = served[j]
        BY <1>2, <3>1 DEF Tally, ServedTally
      <4> QED
        BY <1>8, <4>1 DEF Intact, Before
    <3>2. CASE j = n + 1
      <4>1. j \in DOMAIN sent["client"] /\ served'[j] = d /\ d.read = UnitsOf("client", j)
            /\ d.fds = Descriptors("client", j)
        BY <1>2, <1>6, <1>7, <3>2 DEF Whole
      <4> QED
        BY <1>8, <4>1 DEF Intact, Before
    <3> QED
      BY <1>2, <2>1, <3>1, <3>2
  <2>2. Pending' /\ Len(served') = Len(sent'["server"]) + 1
    BY <1>1, <1>2, <1>7 DEF Pending
  <2> QED
    BY <1>1, <1>2, <2>1, <2>2 DEF ServedTally, Busy
<1>10. PICK q : /\ q = outcomes' /\ Cardinality(Told(q)) = Cardinality(Told(outcomes))
                /\ \A c \in Told(q) : \E i \in DOMAIN sent'["server"] :
                     /\ i = TurnOf(q, c) /\ q[c].read = UnitsOf("server", i)'
                     /\ q[c].fds = Descriptors("server", i)'
  BY <1>1, <1>8, NoAnswer DEF Tally
<1>11. /\ task'["client"].at \in Busy => Cardinality(Told(q)) + 1 = Len(sent'["client"])
       /\ task'["client"].at = "idle" => Cardinality(Told(q)) = Len(sent'["client"])
  BY <1>1, <1>10 DEF Tally, AnsweredTally
<1>12. AnsweredTally'
  BY <1>10, <1>11, AnswersAre
<1> QED
  BY <1>2, <1>7, <1>9, <1>12 DEF Tally, n

LEMMA AnswersTally ==
  ASSUME SideInv, Net, ~IsRaw, Tally, NEW k \in 1 .. Len(inbox["client"]), Answers(k)
  PROVE  /\ Tally' /\ Len(served) = Len(sent["client"])
         /\ Cardinality(Told(outcomes')) = Cardinality(Told(outcomes)) + 1
<1> USE SidesAre
<1> DEFINE e == Answer(k)
           n == Len(outcomes)
           m == Cardinality(Told(outcomes))
<1>1. /\ task["client"].at \in {"head", "body"} /\ ReadsUnits("client", k)
      /\ Len(ReadBy("client", k)) = Wanted("client", ReadBy("client", k))
      /\ outcomes' = Append(outcomes, e)
      /\ UNCHANGED <<sent, served>> /\ task'["server"] = task["server"]
      /\ task'["client"].at \in {"idle", "gone"}
  BY DEF Answers
<1>2. outcomes \in Seq(Ends) /\ m \in Nat
  BY TallyTypes
<1>3. /\ Due("client") /\ sent["server"] # <<>> /\ HeadOf("client", ReadBy("client", k)) = Last("server")
      /\ Len(ReadBy("client", k)) = Len(Whole("server")) =>
           /\ ReadBy("client", k) = Whole("server")
           /\ FdsBy("client", k) = Descriptors("server", Len(sent["server"]))
  BY <1>1, ReadNet
<1>4. Len(ReadBy("client", k)) = Len(Whole("server"))
  <2>1. Len(Whole("server")) = Total(Last("server")) /\ IncomingLength(Last("server")) = Last("server").body
    BY <1>3, WholeFacts DEF Net
  <2> QED
    BY <1>1, <1>3, <2>1 DEF Wanted, Total
<1>5. /\ e.read = UnitsOf("server", Len(sent["server"]))
      /\ e.fds = Descriptors("server", Len(sent["server"])) /\ ~Unanswered(e)
  BY <1>3, <1>4 DEF Answer, Unanswered, Whole
<1>6. /\ ~Pending /\ Len(sent["client"]) = Len(sent["server"]) /\ Len(served) = Len(sent["server"])
      /\ m + 1 = Len(sent["server"])
  BY <1>1, <1>3 DEF Due, Net, CountInv, Tally, ServedTally, AnsweredTally, Busy
<1>7. Before("client") /\ Before("server")
  BY <1>1, BeforeStays
<1>8. ServedTally'
  <2>1. \A j \in DOMAIN served' : (j \in DOMAIN sent["client"] /\ Intact(served[j], "client", j))'
    BY <1>1, <1>7, ServedAsBefore DEF Tally, Intact
  <2>2. Pending' <=> Pending
    BY <1>1 DEF Pending
  <2> QED
    BY <1>1, <2>1, <2>2 DEF Tally, ServedTally
<1>9. PICK q : q = outcomes'
  OBVIOUS
<1> HIDE DEF e, n, m
<1>10. q = Append(outcomes, e)
  BY <1>1, <1>9
<1>11. /\ \A c \in Told(q) : c \in Told(outcomes) \/ c = n + 1
       /\ Cardinality(Told(q)) = m + 1 /\ TurnOf(q, n + 1) = m + 1 /\ q[n + 1] = e
  BY <1>2, <1>5, <1>10, ToldGrows DEF n, m
<1>12. PICK i \in DOMAIN sent["server"] : i = m + 1 /\ e.read = UnitsOf("server", i) /\ e.fds = Descriptors("server", i)
  <2>1. Len(sent["server"]) \in DOMAIN sent["server"]
    BY <1>3, WholeFacts DEF Net
  <2> QED
    BY <1>5, <1>6, <2>1
<1>13. \A c \in Told(q) : \E b \in DOMAIN sent'["server"] :
          /\ b = TurnOf(q, c) /\ q[c].read = UnitsOf("server", b)'
          /\ q[c].fds = Descriptors("server", b)'
  <2> TAKE c \in Told(q)
  <2>1. CASE c \in Told(outcomes)
    <3>1. \A b \in Told(outcomes) : \E a \in DOMAIN sent'["server"] :
             /\ a = TurnOf(q, b) /\ q[b].read = UnitsOf("server", a)'
             /\ q[b].fds = Descriptors("server", a)'
      BY <1>7, <1>9, <1>10, AnsweredAsBefore, ZenonT(60) DEF Tally
    <3> QED
      BY <2>1, <3>1
  <2>2. CASE c = n + 1
    <3>1. i \in DOMAIN sent'["server"] /\ UnitsOf("server", i)' = UnitsOf("server", i)
          /\ Descriptors("server", i)' = Descriptors("server", i)
      BY <1>7 DEF Before
    <3> QED
      BY <1>11, <1>12, <2>2, <3>1
  <2> QED
    BY <1>11, <2>1, <2>2
<1>14. task'["client"].at \notin Busy /\ (task'["client"].at = "idle" => Cardinality(Told(q)) = Len(sent'["client"]))
  BY <1>1, <1>6, <1>11 DEF Busy
<1>15. AnsweredTally'
  BY <1>9, <1>13, <1>14, AnswersAre
<1> QED
  BY <1>6, <1>8, <1>9, <1>11, <1>15 DEF Tally, m

LEMMA TallyStep ==
  ASSUME SideInv, Net, ~IsRaw, Tally, Moves
  PROVE  Tally'
BY UnseenTally, CallsTally, RepliesTally, ServesTally, AnswersTally DEF Moves

LEMMA TallyInit == Init /\ ~IsRaw => Tally
<1> SUFFICES ASSUME Init, ~IsRaw PROVE Tally
  OBVIOUS
<1>1. /\ raw = NoPeer /\ sent["client"] = <<>> /\ sent["server"] = <<>>
      /\ served = <<>> /\ outcomes = <<>>
      /\ task["server"] = Receiving(AtRest) /\ task["client"] = AtRest
  BY SidesAre DEF Init, IsRaw, NoPeer
<1>2. task["server"].at = "head" /\ task["client"].at = "idle"
  BY <1>1 DEF Receiving, AtRest
<1>3. Told(outcomes) = {} /\ Cardinality(Told(outcomes)) = 0
  BY <1>1, FS_EmptySet DEF Told
<1> QED
  BY <1>1, <1>2, <1>3 DEF Tally, ServedTally, AnsweredTally, Busy

(* What RpcExchange's counters stand for.                                  *)
Reached == Cardinality({j \in DOMAIN served : Intact(served[j], "client", j)})
Returned == Cardinality({c \in Answered : Intact(outcomes[c], "server", Turn(c))})
Tolds == Cardinality(Told(outcomes))

LEMMA TallyMeans == SideInv /\ Tally => Reached = Len(served) /\ Returned = Tolds
<1> SUFFICES ASSUME SideInv, Tally PROVE Reached = Len(served) /\ Returned = Tolds
  OBVIOUS
<1>1. Reached = Len(served)
  <2>1. {j \in DOMAIN served : Intact(served[j], "client", j)} = DOMAIN served
    BY DEF Tally, ServedTally
  <2>2. DOMAIN served = 1 .. Len(served) /\ Len(served) \in Nat
    BY TallyTypes
  <2>3. \A n \in Nat : Cardinality(1 .. n) = n
    <3> TAKE n \in Nat
    <3>1. Cardinality(1 .. n) = IF 1 > n THEN 0 ELSE n - 1 + 1
      BY FS_Interval
    <3> QED
      BY <3>1
  <2> QED
    BY <2>1, <2>2, <2>3 DEF Reached
<1>2. Returned = Tolds
  <2>1. Answered = Told(outcomes)
    BY DEF Answered, Told
  <2>2. \A c : Turn(c) = TurnOf(outcomes, c)
    BY <2>1 DEF Turn, TurnOf
  <2>3. {c \in Answered : Intact(outcomes[c], "server", Turn(c))} = Told(outcomes)
    BY <2>1, <2>2 DEF Tally, AnsweredTally
  <2> QED
    BY <2>3 DEF Returned, Tolds
<1> QED
  BY <1>1, <1>2

LEMMA TallyMeansNext ==
  (SideInv /\ Tally)' => (Reached = Len(served) /\ Returned = Tolds)'
BY TallyMeans, PTL

LEMMA ToldsNext ==
  ASSUME NEW q, q = outcomes'
  PROVE  Tolds' = Cardinality(Told(q))
BY DEF Tolds, Told

(* No call of a raw peer: it is no client of hyper-uds.                    *)
LEMMA RawQuiet ==
  ASSUME SideInv, IsRaw, [Next]_vars
  PROVE  outcomes' = outcomes
<1>1. task["client"].at \in {"raw", "gone"}
  BY DEF SideInv, CallInv
<1>2. \A s, why, unread : Break(s, why, unread) => outcomes' = outcomes
  BY DEF Break
<1>3. \A t, w, unread : Complete("server", t, w, unread) => outcomes' = outcomes
  BY DEF Complete
<1>4. ~Owner
  BY DEF Owner, Call, CallUnconnected, Cancel, DropClient
<1>5. Service => outcomes' = outcomes
  BY <1>2 DEF Service, ServiceFails, Serve
<1>6. Raw => outcomes' = outcomes
  BY <1>2, Zenon DEF Raw, RawSend, RawRead, RawClose
<1>7. ~Progress("client")
  BY <1>1 DEF Progress, Send, SendFails, Sent, ReadHead, ReadBody, ReadEnd
<1>8. ASSUME Progress("server") PROVE outcomes' = outcomes
  <2>1. ReadHead("server") => outcomes' = outcomes
    BY <1>2, <1>3 DEF ReadHead
  <2>2. ReadBody("server") => outcomes' = outcomes
    BY <1>2, <1>3 DEF ReadBody
  <2>3. Send("server") \/ SendFails("server") \/ Sent("server") \/ ReadEnd("server") => outcomes' = outcomes
    BY <1>2 DEF Send, SendFails, Sent, ReadEnd
  <2> QED
    BY <1>8, <2>1, <2>2, <2>3 DEF Progress
<1> QED
  BY <1>4, <1>5, <1>6, <1>7, <1>8 DEF Next, vars, Sides

RpcInv == NetInv /\ (IF IsRaw THEN outcomes = <<>> ELSE Tally)

LEMMA RpcInvariant == Spec => []RpcInv
<1>1. Init => (IF IsRaw THEN outcomes = <<>> ELSE Tally)
  BY TallyInit DEF Init
<1>2. RpcInv /\ NetInv' /\ [Next]_vars => RpcInv'
  <2> SUFFICES ASSUME RpcInv, NetInv', [Next]_vars PROVE RpcInv'
    OBVIOUS
  <2>1. IsRaw' <=> IsRaw
    BY RawStays DEF IsRaw
  <2>2. CASE IsRaw
    BY <2>1, <2>2, RawQuiet DEF RpcInv, NetInv
  <2>3. CASE ~IsRaw
    BY <2>1, <2>3, StepMoves, TallyStep DEF RpcInv, NetInv
  <2> QED
    BY <2>2, <2>3
<1> QED
  BY <1>1, <1>2, NetInvariant, PTL DEF Spec, RpcInv

(* A read that completes a response answers the call, one that completes a *)
(* request serves it, and every other step of the connection is a call, a  *)
(* failure, a hang-up, or one that nobody outside sees.                    *)
LEMMA RpcInit == Init => Rpc!Init
<1> SUFFICES ASSUME Init PROVE Rpc!Init
  OBVIOUS
<1>1. /\ sent["client"] = raw.messages /\ served = <<>> /\ outcomes = <<>>
      /\ task["client"] = IF IsRaw THEN [AtRest EXCEPT !.at = "raw"] ELSE AtRest
  BY SidesAre DEF Init
<1>2. task["client"].at = IF IsRaw THEN "raw" ELSE "idle"
  BY <1>1 DEF AtRest
<1>3. ~IsRaw => Len(sent["client"]) = 0
  BY <1>1 DEF IsRaw, NoPeer
<1>4. {j \in DOMAIN served : Intact(served[j], "client", j)} = {}
  BY <1>1
<1>5. {c \in Answered : Intact(outcomes[c], "server", Turn(c))} = {}
  BY <1>1 DEF Answered
<1>6. /\ Cardinality({j \in DOMAIN served : Intact(served[j], "client", j)}) = 0
      /\ Cardinality({c \in Answered : Intact(outcomes[c], "server", Turn(c))}) = 0
  BY <1>4, <1>5, FS_EmptySet
<1>7. /\ (IF IsRaw THEN 0 ELSE Len(sent["client"])) = 0
      /\ (task["client"].at \in {"send", "head", "body"}) = FALSE
      /\ (task["client"].at # "gone" \/ IsRaw) = TRUE
  BY <1>2, <1>3
<1> QED
  BY <1>6, <1>7 DEF Rpc!Init

LEMMA RpcStep == RpcInv /\ RpcInv' /\ [Next]_vars => [Rpc!Next]_(Rpc!vars)
<1> SUFFICES ASSUME RpcInv, RpcInv', [Next]_vars
             PROVE  Rpc!Next \/ UNCHANGED Rpc!vars
  OBVIOUS
<1>1. IsRaw' <=> IsRaw
  BY RawStays DEF IsRaw
<1>2. CASE IsRaw
  <2>1. outcomes = <<>> /\ outcomes' = <<>>
    BY <1>1, <1>2 DEF RpcInv
  <2>2. /\ {c \in Answered : Intact(outcomes[c], "server", Turn(c))} = {}
        /\ {c \in Answered : Intact(outcomes[c], "server", Turn(c))}' = {}
    BY <2>1 DEF Answered
  <2>3. task["client"].at \notin {"send", "head", "body"} /\ task'["client"].at \notin {"send", "head", "body"}
    BY <1>1, <1>2 DEF RpcInv, NetInv, SideInv, CallInv
  <2> QED
    BY <1>1, <1>2, <2>2, <2>3 DEF Rpc!vars
<1>3. CASE ~IsRaw
  <2>1. SideInv /\ Net /\ Tally /\ Moves
    BY <1>3, StepMoves DEF RpcInv, NetInv
  <2>2. Reached = Len(served) /\ Returned = Tolds /\ Reached' = Len(served') /\ Returned' = Tolds'
    BY <1>1, <1>3, <2>1, TallyMeans, TallyMeansNext DEF RpcInv, NetInv
  <2>3. /\ task["client"].at \in Busy \cup {"idle", "gone"}
        /\ task'["client"].at \in Busy \cup {"idle", "gone"}
    BY <1>1, <1>3 DEF RpcInv, NetInv, SideInv, CallInv
  <2>4. /\ Len(served) \in Nat /\ Len(sent["client"]) \in Nat /\ Len(sent["server"]) \in Nat /\ Tolds \in Nat
    BY <2>1, TallyTypes DEF Tolds
  <2>5. ASSUME Len(sent'["client"]) = Len(sent["client"]), Len(served') = Len(served), Tolds' = Tolds,
               ClientStays
        PROVE  UNCHANGED Rpc!vars
    <3>1. /\ task'["client"].at \in {"send", "head", "body"} <=> task["client"].at \in {"send", "head", "body"}
          /\ task'["client"].at # "gone" <=> task["client"].at # "gone"
      BY <2>3, <2>5 DEF ClientStays, Busy
    <3> QED
      BY <1>1, <1>3, <2>2, <2>5, <3>1 DEF Rpc!vars, Reached, Returned
  <2>6. CASE Unseen
    <3>1. UNCHANGED <<sent, served>> /\ ClientStays
      BY <2>6 DEF Unseen
    <3>2. PICK q : q = outcomes' /\ Cardinality(Told(q)) = Cardinality(Told(outcomes))
      BY <2>1, <2>6, <3>1, BeforeStays, SidesAre, NoAnswer DEF Unseen, Tally
    <3>3. Tolds' = Tolds
      BY <3>2, ToldsNext DEF Tolds
    <3> QED
      BY <2>5, <3>1, <3>3
  <2>7. CASE Replies
    <3>1. /\ sent'["client"] = sent["client"] /\ UNCHANGED <<served, outcomes>> /\ ClientStays
      BY <2>1, <2>7, SidesAre, OneMore DEF Replies, Net
    <3>2. Tolds' = Tolds
      BY <3>1 DEF Tolds, Told
    <3> QED
      BY <2>5, <3>1, <3>2
  <2>8. CASE Calls
    <3>1. Len(sent'["client"]) = Len(sent["client"]) + 1 /\ UNCHANGED <<served, outcomes>>
      BY <2>1, <2>8, SidesAre, OneMore DEF Calls, Net
    <3>2. Tolds' = Tolds
      BY <3>1 DEF Tolds, Told
    <3>3. /\ task["client"].at = "idle" /\ task'["client"].at = "send"
      BY <2>8 DEF Calls
    <3>4. Rpc!Call
      BY <1>1, <1>3, <2>2, <3>1, <3>2, <3>3 DEF Rpc!Call, Reached, Returned
    <3> QED
      BY <3>4 DEF Rpc!Next
  <2>9. ASSUME NEW k \in 1 .. Len(inbox["server"]), Serves(k) PROVE Rpc!Next
    <3>1. /\ Pending /\ Len(served) = Len(sent["server"]) /\ Len(served') = Len(served) + 1
      BY <1>3, <2>1, <2>9, ServesTally
    <3>2. UNCHANGED <<sent, outcomes>> /\ task'["client"] = task["client"]
      BY <2>1, <2>9, ServesIs
    <3>3. Tolds' = Tolds
      BY <3>2 DEF Tolds, Told
    <3>4. Len(served) < Len(sent["client"])
      BY <2>4, <3>1 DEF Pending
    <3>5. Rpc!Serve
      BY <1>1, <1>3, <2>2, <3>1, <3>2, <3>3, <3>4 DEF Rpc!Serve, Reached, Returned
    <3> QED
      BY <3>5 DEF Rpc!Next
  <2>10. ASSUME NEW k \in 1 .. Len(inbox["client"]), Answers(k) PROVE Rpc!Next
    <3>1. Len(served) = Len(sent["client"]) /\ Cardinality(Told(outcomes')) = Cardinality(Told(outcomes)) + 1
      BY <1>3, <2>1, <2>10, AnswersTally
    <3>2. PICK q : q = outcomes'
      OBVIOUS
    <3>3. Tolds' = Tolds + 1
      BY <3>1, <3>2, ToldsNext DEF Tolds
    <3>4. /\ UNCHANGED <<sent, served>> /\ task["client"].at \in {"head", "body"}
          /\ task'["client"].at \in {"idle", "gone"}
      BY <2>10 DEF Answers
    <3>5. Rpc!Answer
      BY <1>1, <1>3, <2>2, <3>1, <3>3, <3>4 DEF Rpc!Answer, Reached, Returned
    <3> QED
      BY <3>5 DEF Rpc!Next
  <2>11. CASE Fails
    <3>1. /\ UNCHANGED <<sent, served>> /\ task["client"].at \in Busy /\ task'["client"].at = "gone"
      BY <2>11 DEF Fails
    <3>2. PICK q : q = outcomes' /\ Cardinality(Told(q)) = Cardinality(Told(outcomes))
      BY <2>1, <2>11, <3>1, BeforeStays, SidesAre, NoAnswer DEF Fails, Tally
    <3>3. Tolds' = Tolds
      BY <3>2, ToldsNext DEF Tolds
    <3>4. Rpc!Fail
      BY <1>1, <1>3, <2>2, <3>1, <3>3 DEF Rpc!Fail, Reached, Returned, Busy
    <3> QED
      BY <3>4 DEF Rpc!Next
  <2>12. CASE HangsUp
    <3>1. /\ UNCHANGED <<sent, served, outcomes>>
          /\ task["client"].at = "idle" /\ task'["client"].at = "gone"
      BY <2>12 DEF HangsUp
    <3>2. Tolds' = Tolds
      BY <3>1 DEF Tolds, Told
    <3>3. Rpc!HangUp
      BY <1>1, <1>3, <2>2, <3>1, <3>2 DEF Rpc!HangUp, Reached, Returned
    <3> QED
      BY <3>3 DEF Rpc!Next
  <2> QED
    BY <2>1, <2>6, <2>7, <2>8, <2>9, <2>10, <2>11, <2>12 DEF Moves
<1> QED
  BY <1>2, <1>3

(* A client and a server of hyper-uds, for any requests, responses, buffer *)
(* and socket sizes: each request reaches the service at most once, whole  *)
(* and in order; a call that returns a response returns the one prepared   *)
(* for its own request, whole and with its descriptors; no call starts     *)
(* before the one before it ended, and none succeeds once one has failed.  *)
THEOREM CallsImplementExchange == Spec => Rpc!Spec
<1> QED
  BY RpcInit, RpcStep, RpcInvariant, PTL DEF Spec, Rpc!Spec
================================================================================
