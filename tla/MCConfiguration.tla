--------------------------- MODULE MCConfiguration ---------------------------
(***************************************************************************)
(* Instance of Configuration: three files in two directories, one of them  *)
(* reached through a symbolic link, each holding any of a few documents;   *)
(* every list of up to three operations over paths that are sound, shared, *)
(* overlapping, reserved or malformed.                                     *)
(***************************************************************************)
EXTENDS ConfigDocuments

Op(path, many) == [path |-> path, many |-> many, dotted |-> TRUE]

Unbound  == Op(<<>>, FALSE)
Disks    == Op(<<"machine", "disks">>, TRUE)
Net      == Op(<<"machine", "net">>, FALSE)
Boot     == Op(<<"boot">>, FALSE)

Candidates ==
    {Unbound, Disks, Net, Boot,
     Op(<<"machine">>, FALSE), Op(<<"machine", "net", "queue">>, FALSE),
     Op(<<"mach">>, FALSE), Op(<<"dragonball", "id">>, FALSE),
     Op(<<"machine", "">>, FALSE), Op(<<"a b">>, FALSE),
     [Boot EXCEPT !.dotted = FALSE]}

MCMalformed == {"a b"}

\* The crate's own four operations, and a list whose bindings share a prefix.
MCPrograms == {<<Unbound, Unbound, Disks, Unbound>>, <<Boot, Disks, Net>>}
MCLists == MCPrograms \cup UNION {[1 .. n -> Candidates] : n \in 0 .. 3}

Disk(n) == Object([path |-> Text(n)])

MCDocuments ==
    LET inner == {Null, EmptyObject, Array(<<>>), Array(<<Disk("a"), Disk("b")>>),
                  Array(<<Disk("a"), Text("malformed")>>), Text("malformed"),
                  Object([queue |-> Text("malformed")]), Object([queue |-> Text("q")])}
        outer == inner \cup {Object([disks |-> v]) : v \in inner}
                       \cup {Object([net |-> v]) : v \in inner}
                       \cup {Object([disks |-> Array(<<Disk("b"), Disk("a")>>), net |-> v]) : v \in inner}
    IN  {Null, EmptyObject, Array(<<>>)}
            \cup {Object([machine |-> v]) : v \in outer}
            \cup {Object([boot |-> v]) : v \in inner}
            \cup {Object([mach |-> v, machine |-> Object([net |-> Null])]) : v \in inner}

MCDirectory == [vm |-> "etc", base |-> "etc", site |-> "home"]

\* home/vm.json is a link to etc/vm.json; "base" is another file in each directory.
MCCanonical ==
    (<<"cwd", "vm">>   :> "vm")   @@ (<<"etc", "vm">>   :> "vm") @@
    (<<"cwd", "site">> :> "site") @@
    (<<"home", "vm">>  :> "vm")   @@ (<<"etc", "base">> :> "base") @@
    (<<"home", "base">> :> "site") @@ (<<"etc", "site">> :> "site")

Dragonball(v) == [dragonball |-> v]
Logger(v)     == Dragonball(Object([logger |-> v]))

Bodies ==
    {<<>>,
     Dragonball(Object([id |-> Text("a"), logger |-> Object([level |-> Text("INFO"),
                                                             show_id |-> Text("false")])]))
        @@ [machine |-> Object([disks |-> Array(<<Disk("a"), Disk("b")>>)])],
     Dragonball(Object([id |-> Null, logger |-> Object([target |-> Text("file=a")])]))
        @@ [machine |-> Object([disks |-> Array(<<>>), net |-> Object([queue |-> Text("q")])])],
     Logger(Object([level |-> Text("warn"), crash_target |-> Text("same_as_log")]))
        @@ [machine |-> Object([net |-> Object([peer |-> Text("p")])])],
     [machine |-> Null, boot |-> Text("k")],
     Logger(Null)}

Links == {<<>>} \cup {[extends |-> Text(p)] : p \in {"vm", "base", "site"}}

MCContents ==
    {Object(b @@ l) : b \in Bodies, l \in Links}
    \cup {Broken, Array(<<>>), Object([extends |-> Text("")]), Object([extends |-> Null]),
          Object([extends |-> Text("gone")]), Object("$schema" :> Null),
          Object(("$schema" :> Text("s")) @@ [dragonball |-> Object([uuid |-> Text("a")])]),
          Object(Logger(Object([level |-> Text("warning")]))),
          Object(Logger(Object([target |-> Text("file=")]))),
          Object(Logger(Object([show_tid |-> Text("yes")])))}

MCStarts == {NoPath, "vm", "site", "nowhere"}

MCCommandLines ==
    {<<>>, [id |-> "cli", level |-> "debug"],
     [api_sock |-> "sock", show_id |-> "true", crash_target |-> "file=b"]}
=============================================================================
