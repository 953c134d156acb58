--------------------------- MODULE ConfigDocuments ---------------------------
(***************************************************************************)
(* The configuration's documents as the trees they are: how two of them    *)
(* merge, at any depth, and the JSON schema written from the tree of       *)
(* bindings, against what a stack of documents and a schema mean.          *)
(***************************************************************************)
EXTENDS Configuration

\* merge_value(): objects field by field; anything else replaces.
RECURSIVE MergeValue(_, _)
MergeValue(base, overlay) ==
    IF IsObject(base) /\ IsObject(overlay)
    THEN Object([k \in DOMAIN base.object \cup DOMAIN overlay.object |->
            IF k \notin DOMAIN overlay.object THEN base.object[k]
            ELSE IF k \notin DOMAIN base.object THEN overlay.object[k]
            ELSE MergeValue(base.object[k], overlay.object[k])])
    ELSE overlay

\* Any number of layers at once: the nearest one that is no object hides those
\* under it, and shows only if nothing is over it.
RECURSIVE Combined(_)
Combined(layers) ==
    IF ~IsObject(layers[1]) THEN layers[1]
    ELSE LET solid == {i \in DOMAIN layers : ~IsObject(layers[i])}
             depth == IF solid = {} THEN Len(layers)
                      ELSE (CHOOSE i \in solid : \A j \in solid : i <= j) - 1
             objects == SubSeq(layers, 1, depth)
             with(key) == SelectSeq(objects, LAMBDA o : key \in DOMAIN o.object)
         IN  Object([key \in UNION {DOMAIN o.object : o \in ToSet(objects)} |->
                Combined([i \in DOMAIN with(key) |-> with(key)[i].object[key]])])

Children(n, i) == {c \in DOMAIN n : ChildNamed(n, i, n[c].name) = c}

\* MUTANT of NodeSchema: the items of an array keep its path's "[]" to themselves.
RECURSIVE NodeSchemaNoItems(_, _, _)
NodeSchemaNoItems(list, n, i) ==
    IF n[i].binding # NONE
    THEN [items |-> FALSE]
    ELSE [properties |->
            [name \in {n[c].name : c \in Children(n, i)} |->
                NodeSchemaNoItems(list, n, ChildNamed(n, i, name))]]

\* node_schema(): an object's properties by name, a leaf as `items' of an array
\* or the operation's own schema.
RECURSIVE NodeSchema(_, _, _)
NodeSchema(list, n, i) ==
    IF n[i].binding # NONE
    THEN [items |-> list[n[i].binding].many]
    ELSE [properties |->
            [name \in {n[c].name : c \in Children(n, i)} |->
                NodeSchema(list, n, ChildNamed(n, i, name))]]

\* Validation against the schema, as JSON Schema defines type, properties and
\* additionalProperties.
RECURSIVE Conforms(_, _)
Conforms(schema, v) ==
    IF "properties" \in DOMAIN schema
    THEN /\ IsObject(v)
         /\ \A key \in DOMAIN v.object :
                /\ key \in DOMAIN schema.properties
                /\ Conforms(schema.properties[key], v.object[key])
    ELSE IF schema.items
    THEN IsArray(v) /\ \A k \in DOMAIN v.array : Deserializes(v.array[k])
    ELSE Deserializes(v)

\* The schema editors are given refuses the documents that parse() refuses, and
\* the file that loads is the combination of all the files of its chain, whatever
\* the pairs it was merged in.
DocumentsAgree ==
    /\ phase = "built" => \A v \in Documents :
          Parses(ops, nodes, v) <=> Conforms(NodeSchema(ops, nodes, 1), v)
    /\ phase = "parse" => value = Combined(Layers)
=============================================================================
