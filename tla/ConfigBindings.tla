--------------------------- MODULE ConfigBindings ---------------------------
(***************************************************************************)
(* Which fields of a configuration document become commands.               *)
(*                                                                         *)
(* An operation of the api may be bound to a path of the document, with    *)
(* "[]" when each item of an array there is one command.  At compile time  *)
(* validate() checks the list of operations, node_count() sizes an array   *)
(* and ConfigBindings::new() builds in it a tree of nodes that point at    *)
(* their first child and next sibling.  At run time parse() walks a        *)
(* document along the tree.                                                *)
(*                                                                         *)
(* A path is a sequence of segments, a JSON value a record of one field    *)
(* that names its kind: `object' (a function from keys), `array' (a        *)
(* sequence), `text' (a string or boolean) or `null'.                      *)
(***************************************************************************)
EXTENDS Naturals, FiniteSets, Sequences, SequencesExt

CONSTANTS
    Malformed      \* segments with a character validate_segments() refuses

Object(f) == [object |-> f]
Array(s)  == [array |-> s]
Text(t)   == [text |-> t]
Null      == [null |-> {}]

IsObject(v) == DOMAIN v = {"object"}
IsArray(v)  == DOMAIN v = {"array"}
IsText(v)   == DOMAIN v = {"text"}

Booleans == {"true", "false"}
IsString(v) == IsText(v) /\ v.text \notin Booleans

Without(object, keys) == [k \in DOMAIN object \ keys |-> object[k]]

-----------------------------------------------------------------------------
(* Operations, and what compile time demands of them.                      *)

Operation == [path : Seq(STRING), many : BOOLEAN, dotted : BOOLEAN]

\* An operation that has no config binding has the empty path.
Bound(op) == op.path # <<>>

Reserved == {"dragonball", "extends", "$schema"}

\* ConfigPath::new() with validate_segments().
WellFormed(op) ==
    /\ op.dotted
    /\ op.path[1] \notin Reserved
    /\ \A i \in DOMAIN op.path : op.path[i] \notin Malformed \cup {""}

\* validate(): each binding against those before it.
Valid(ops) ==
    \A i \in DOMAIN ops : Bound(ops[i]) =>
        /\ WellFormed(ops[i])
        /\ \A j \in 1 .. i - 1 : Bound(ops[j]) =>
               /\ ~IsPrefix(ops[i].path, ops[j].path)
               /\ ~IsPrefix(ops[j].path, ops[i].path)

\* The prefixes of an operation's path that no earlier operation has.
OwnPrefixes(ops, i) ==
    {k \in DOMAIN ops[i].path : \A j \in 1 .. i - 1 :
        Bound(ops[j]) => ~IsPrefix(SubSeq(ops[i].path, 1, k), ops[j].path)}

\* MUTANT of NodeCount: a prefix two bindings share is counted for each of them.
NodeCountUnshared(ops) ==
    1 + Cardinality(UNION {{i} \X DOMAIN ops[i].path : i \in DOMAIN ops})

NodeCount(ops) ==
    1 + Cardinality(UNION {{i} \X OwnPrefixes(ops, i) : i \in DOMAIN ops})

-----------------------------------------------------------------------------
(* The tree.  Nodes are numbered from one, the root; NONE is zero.         *)

NONE == 0

EmptyNode == [name |-> "", path |-> <<>>, binding |-> NONE, child |-> NONE, sibling |-> NONE]

\* The first of a node's children that has the name.
ChildNamed(nodes, i, name) ==
    LET from[c \in 0 .. Len(nodes)] ==
            IF c = NONE THEN NONE
            ELSE IF nodes[c].name = name THEN c ELSE from[nodes[c].sibling]
    IN  from[nodes[i].child]

\* A new first child of node `at'.
AddChild(nodes, at, name) ==
    Append([nodes EXCEPT ![at].child = Len(nodes) + 1],
           [EmptyNode EXCEPT !.name = name, !.path = Append(nodes[at].path, name),
                             !.sibling = nodes[at].child])

\* One segment of a path, in an array of `count' nodes.  `ok' turns FALSE where
\* an assertion fails.
Descend(place, name, count) ==
    LET nodes == place.nodes
        child == ChildNamed(nodes, place.at, name)
    IN  IF ~place.ok \/ nodes[place.at].binding # NONE
        THEN [place EXCEPT !.ok = FALSE]
        ELSE IF child # NONE
        THEN [place EXCEPT !.at = child]
        ELSE IF Len(nodes) >= count
        THEN [place EXCEPT !.ok = FALSE]
        ELSE [place EXCEPT !.nodes = AddChild(nodes, place.at, name),
                           !.at = Len(nodes) + 1]

\* One operation of ConfigBindings::new().
Bind(nodes, ops, i, count) ==
    LET path == ops[i].path
        place[k \in 0 .. Len(path)] ==
            IF k = 0 THEN [nodes |-> nodes, at |-> 1, ok |-> WellFormed(ops[i])]
            ELSE Descend(place[k - 1], path[k], count)
        end  == place[Len(path)]
        leaf == end.nodes[end.at]
    IN  [ok    |-> end.ok /\ leaf.binding = NONE /\ leaf.child = NONE,
         nodes |-> [end.nodes EXCEPT ![end.at].binding = i]]

-----------------------------------------------------------------------------
(* Reading a document along the tree.  What may be missing is a sequence   *)
(* of no value or one.                                                     *)

\* A field of what is an object.
FieldOf(some, key) ==
    IF some # <<>> /\ IsObject(some[1]) /\ key \in DOMAIN some[1].object
    THEN <<some[1].object[key]>>
    ELSE <<>>

\* The value collect() comes to each node with, if it does: from the node before
\* whose children, searched for the field, give this one.
Reached(nodes, v) ==
    LET at[i \in DOMAIN nodes] ==
            IF i = 1 THEN <<v>>
            ELSE LET from == {p \in 1 .. i - 1 : /\ nodes[p].binding = NONE
                                                 /\ ChildNamed(nodes, p, nodes[i].name) = i}
                 IN  IF from = {} THEN <<>>
                     ELSE FieldOf(at[CHOOSE p \in from : TRUE], nodes[i].name)
    IN  at

\* collect(): does every field lead to a binding?
Collects(nodes, v) ==
    LET at == Reached(nodes, v) IN
    \A i \in DOMAIN nodes : at[i] # <<>> /\ nodes[i].binding = NONE =>
        /\ IsObject(at[i][1])
        /\ \A key \in DOMAIN at[i][1].object : ChildNamed(nodes, i, key) # NONE

\* What it collects for an operation.
Collected(nodes, v, op) ==
    LET at == Reached(nodes, v)
    IN  {at[i][1] : i \in {j \in DOMAIN nodes : nodes[j].binding = op /\ at[j] # <<>>}}

\* Op::parse: the operation's own type refuses only what is malformed.
Deserializes(v) == v # Text("malformed")

\* The inputs of the commands one bound value stands for.
Inputs(op, v) == IF op.many THEN v.array ELSE <<v>>

\* Does parse() take the value bound to an operation?
Takes(op, v) ==
    /\ op.many => IsArray(v)
    /\ \A k \in DOMAIN Inputs(op, v) : Deserializes(Inputs(op, v)[k])

\* The commands that are the value's.
Calls(ops, i, v) ==
    [k \in DOMAIN Inputs(ops[i], v) |-> [op |-> i, input |-> Inputs(ops[i], v)[k]]]

Parses(ops, nodes, v) ==
    /\ Collects(nodes, v)
    /\ \A i \in DOMAIN ops : \A bound \in Collected(nodes, v, i) : Takes(ops[i], bound)

\* parse(): the commands, operation by operation, in the order of each array.
Commands(ops, nodes, v) ==
    FlattenSeq([i \in DOMAIN ops |->
        IF Collected(nodes, v, i) = {} THEN <<>>
        ELSE Calls(ops, i, CHOOSE bound \in Collected(nodes, v, i) : TRUE)])

-----------------------------------------------------------------------------
(* What the tree is for, said of documents and paths without a tree.       *)

\* The value at a path, if there is one.
Lookup(v, path) ==
    LET at[k \in 0 .. Len(path)] == IF k = 0 THEN <<v>> ELSE FieldOf(at[k - 1], path[k])
    IN  at[Len(path)]

Has(v, path) == Lookup(v, path) # <<>>
At(v, path)  == Lookup(v, path)[1]

BoundPaths(ops) == {ops[i].path : i \in {j \in DOMAIN ops : Bound(ops[j])}}

Above(ops) ==
    {<<>>} \cup UNION {{SubSeq(p, 1, k) : k \in 0 .. Len(p) - 1} : p \in BoundPaths(ops)}

\* Above a binding there are objects, whose fields all lead towards one.
FieldsLead(ops, v) ==
    \A above \in Above(ops) : Has(v, above) =>
        /\ IsObject(At(v, above))
        /\ \A key \in DOMAIN At(v, above).object :
               \E p \in BoundPaths(ops) : IsPrefix(Append(above, key), p)

Instructs(ops, v) ==
    /\ FieldsLead(ops, v)
    /\ \A i \in DOMAIN ops :
           Bound(ops[i]) /\ Has(v, ops[i].path) => Takes(ops[i], At(v, ops[i].path))

Instructions(ops, v) ==
    FlattenSeq([i \in DOMAIN ops |->
        IF Bound(ops[i]) /\ Has(v, ops[i].path) THEN Calls(ops, i, At(v, ops[i].path))
        ELSE <<>>])
=============================================================================
