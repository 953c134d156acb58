------------------------------- MODULE MCHyperUds -------------------------------
(***************************************************************************)
(* Messages and peers for HyperUds: one or two of every rule of            *)
(* HyperMessage, at and one past the limits.                               *)
(***************************************************************************)
EXTENDS HyperUds

MCTexts == {"", "a", "b", "h", "close", "keep-alive", "localhost"}

Plain == [status |-> "request", valid |-> TRUE, length |-> <<>>, names |-> <<>>,
          host |-> <<>>, connection |-> <<>>, unsupported |-> FALSE, others |-> 0,
          body |-> 0, fds |-> <<>>]

Ok == [Plain EXCEPT !.status = "200"]
Pair == Push(Push(<<>>))
OnlyA == PushNamed(PushNamed(<<>>, "a"), "a")

MCRequests ==
  {Plain,
   \* as large as a head may be, with a body as large as it may be
   [Plain EXCEPT !.others = 2, !.body = 2, !.length = <<2>>],
   \* names bound by the header, and the last call of its connection
   [Plain EXCEPT !.names = <<<<"a", "b">>>>, !.fds = Pair,
                 !.connection = <<"close">>, !.body = 1],
   \* one header too many, once the host is added
   [Plain EXCEPT !.others = 3],
   \* a descriptor that was taken out, and one more than a body holds
   [Plain EXCEPT !.fds = Take(Push(Pair), 2)]}

MCResponses ==
  {[Ok EXCEPT !.body = 1],
   [Ok EXCEPT !.fds = OnlyA, !.names = <<<<"a">>>>,
                 !.connection = <<"keep-alive">>],
   [Ok EXCEPT !.status = "204"],
   [Ok EXCEPT !.status = "205"],
   [Ok EXCEPT !.status = "304", !.length = <<2>>, !.connection = <<"close">>],
   \* refused before anything is sent
   [Ok EXCEPT !.status = "204", !.body = 1]}

(* Peers that know the format and not the protocol.  A unit is <<message,  *)
(* position>>, or <<message, position, descriptors>>.                      *)
Wire == [Plain EXCEPT !.host = <<"h">>, !.length = <<0>>]

Unit(u) == [of |-> u[1], at |-> u[2],
            fds |-> IF Len(u) = 2 THEN <<>> ELSE [k \in 1 .. u[3] |-> [of |-> u[1], nth |-> 10 * u[2] + k]]]

RawPeer(messages, units) ==
  [messages |-> messages, units |-> [k \in DOMAIN units |-> Unit(units[k])]]

Pipelines ==
  RawPeer(<<[Wire EXCEPT !.body = 1, !.length = <<1>>], [Wire EXCEPT !.fds = OnlyA]>>,
        <<<<1, 1>>, <<1, 2>>, <<1, 3>>, <<1, 4>>, <<2, 1, 1>>, <<2, 2>>, <<2, 3>>>>)

AttachesLate ==
  RawPeer(<<[Wire EXCEPT !.body = 1, !.length = <<1>>]>>,
        <<<<1, 1>>, <<1, 2, 1>>, <<1, 3>>, <<1, 4>>>>)

AttachesToBody ==
  RawPeer(<<[Wire EXCEPT !.body = 2, !.length = <<2>>]>>,
        <<<<1, 1, 1>>, <<1, 2>>, <<1, 3>>, <<1, 4>>, <<1, 5, 1>>>>)

SendsTooMuch ==
  RawPeer(<<[Wire EXCEPT !.body = 1, !.length = <<>>], Wire>>,
        <<<<1, 1>>, <<1, 2>>, <<1, 3>>, <<2, 1>>, <<2, 2>>, <<2, 3>>>>)

NamesNothing ==
  RawPeer(<<[Wire EXCEPT !.names = <<<<"a">>>>]>>, <<<<1, 1>>, <<1, 2>>, <<1, 3>>, <<1, 4>>>>)

NoHost == RawPeer(<<[Wire EXCEPT !.host = <<>>]>>, <<<<1, 1>>, <<1, 2>>>>)

EndlessHead ==
  RawPeer(<<[Wire EXCEPT !.others = 6]>>, [k \in 1 .. 7 |-> <<1, k>>])

MCRawPeers == {Pipelines, AttachesLate, AttachesToBody, SendsTooMuch, NamesNothing, NoHost,
               EndlessHead}
=============================================================================
