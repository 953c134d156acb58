---------------------------- MODULE Configuration ----------------------------
(***************************************************************************)
(* From configuration files, the command line and the environment to the  *)
(* settings of a process and the commands of its vmm.                      *)
(*                                                                         *)
(* First the compiler builds the tree of bindings, one operation a step    *)
(* (phase "build").  Then the program loads a file and what it extends,    *)
(* one file a step, and merges on the way back (phases "load", "merge");   *)
(* splits the document into process settings and commands ("parse"); and,  *)
(* unless it only checks a configuration, lays the command line over the   *)
(* settings and defaults under them ("patch").                             *)
(*                                                                         *)
(* Files are JSON (a TOML file has no null).  A section written as an      *)
(* array is left out.                                                      *)
(***************************************************************************)
EXTENDS ConfigBindings

CONSTANTS
    Lists,        \* lists of operations that are compiled
    Programs,     \* those among them whose program is run
    Documents,    \* documents the compiled bindings are tried on
    Canonical,    \* <<directory, path as written>> to the file it resolves to
    Directory,    \* the directory a file is in, symbolic links resolved
    Contents,     \* what a file may hold: a value, or Broken
    Starts,       \* paths a program is given, NoPath for none
    CommandLines, \* settings given by arguments and environment, as functions
    Merge(_, _)   \* merge_value(): the first value with the second laid over it

VARIABLES
    phase,
    ops,          \* the operations, OPERATIONS of the crate
    nodes,        \* the tree of bindings
    start,        \* the --config argument, or that of check-config
    check,        \* is this check-config?
    disk,         \* what has been read of each file
    here,         \* the path to load next, <<directory, path as written>>
    stack,        \* files whose base is being loaded, with their values
    visited,
    value,        \* the value load_config_value() returns
    cli,          \* the settings given by arguments and environment
    settings,     \* ProcessConfig, logger included
    commands

vars == <<phase, ops, nodes, start, check, disk, here, stack, visited, value,
          cli, settings, commands>>

Broken == [broken |-> {}]
Unread == [unread |-> {}]
NoPath == "no path"
Files  == DOMAIN Directory

ASSUME ListsAssumption == Lists \subseteq Seq(Operation)

ASSUME FilesAssumption ==
    IsFiniteSet(Files) /\ \A place \in DOMAIN Canonical : Canonical[place] \in Files

ProcessFields == {"id", "api_sock", "kvm_dev"}
LoggerFields  == {"level", "target", "crash_target", "format", "show_tid",
                  "show_thread_name", "show_target", "show_file_line", "show_id"}
Settings == ProcessFields \cup LoggerFields

\* Where a document has a setting, and what is above settings.
SettingPath(s) ==
    IF s \in ProcessFields THEN <<"dragonball", s>> ELSE <<"dragonball", "logger", s>>

Sections == {<<>>, <<"dragonball">>, <<"dragonball", "logger">>}

None  == "none"
Unset == [s \in Settings |-> None]

-----------------------------------------------------------------------------
(* Values.                                                                 *)

\* LevelFilter::try_from takes a level in any casing, of which these are two.
Lowercase == [INFO |-> "info", Debug |-> "debug"]

Level(text) ==
    LET name == IF text \in DOMAIN Lowercase THEN Lowercase[text] ELSE text
    IN  IF name \in {"off", "error", "warn", "info", "debug", "trace"} THEN name ELSE None

\* Target::try_from; the path after "file=" may not be empty.
Target(text) == IF text \in {"stderr", "file=a", "file=b"} THEN text ELSE None

CrashTarget(text) == IF text = "same_as_log" THEN text ELSE Target(text)

\* The setting a text stands for, None when it is refused.
Read(s, text) ==
    CASE s = "level"         -> Level(text)
      [] s = "target"        -> Target(text)
      [] s = "crash_target"  -> CrashTarget(text)
      [] s = "format"        -> IF text \in {"text", "json"} THEN text ELSE None
      [] s \in ProcessFields -> IF text \in Booleans THEN None ELSE text
      [] OTHER               -> IF text \in Booleans THEN text ELSE None

\* The fields a section sets: every Option takes null for None.
Section(fields, v) ==
    [s \in fields |-> IF s \in DOMAIN v.object /\ IsText(v.object[s])
                      THEN Read(s, v.object[s].text) ELSE None]

SectionRefused(fields, others, v) ==
    \/ ~IsObject(v)
    \/ ~(DOMAIN v.object \subseteq fields \cup others)
    \/ \E s \in fields \cap DOMAIN v.object :
           /\ v.object[s] # Null
           /\ IsText(v.object[s]) => Read(s, v.object[s].text) = None

EmptyObject == Object(<<>>)

Field(v, key) == IF key \in DOMAIN v.object THEN v.object[key] ELSE EmptyObject

\* ProcessConfig from the dragonball section.
ProcessRefused(v) ==
    \/ SectionRefused(ProcessFields, {"logger"}, v)
    \/ SectionRefused(LoggerFields, {}, Field(v, "logger"))

ProcessConfig(v) ==
    LET process == Section(ProcessFields, v)
        logger  == Section(LoggerFields, Field(v, "logger"))
    IN  [s \in Settings |-> IF s \in ProcessFields THEN process[s] ELSE logger[s]]

-----------------------------------------------------------------------------
(* Compile time.                                                           *)

Init ==
    /\ phase = "build"
    /\ ops \in Lists
    /\ nodes = <<EmptyNode>>
    /\ start = NoPath /\ check = FALSE
    /\ disk = [f \in Files |-> Unread]
    /\ here = <<>> /\ stack = <<>> /\ visited = {} /\ value = EmptyObject
    /\ cli = <<>> /\ settings = Unset /\ commands = <<>>

\* The operations ConfigBindings::new() is through with are those before `at'.
Bindings(n) == {n[i].binding : i \in DOMAIN n} \ {NONE}
NextOp == {i \in DOMAIN ops : Bound(ops[i]) /\ \A j \in Bindings(nodes) : j < i}

Unchanging == UNCHANGED <<start, check, disk, here, stack, visited, value,
                          cli, settings, commands>>

\* One turn of the loop of ConfigBindings::new().  A path ConfigPath::new() does
\* not take has failed node_count() already.
BindOp ==
    /\ phase = "build"
    /\ NextOp # {}
    /\ LET i == CHOOSE i \in NextOp : \A j \in NextOp : i <= j
           bound == Bind(nodes, ops, i, NodeCount(ops))
       IN  IF bound.ok
           THEN nodes' = bound.nodes /\ UNCHANGED phase
           ELSE phase' = "rejected" /\ UNCHANGED nodes
    /\ UNCHANGED ops /\ Unchanging

Built ==
    /\ phase = "build"
    /\ NextOp = {}
    /\ phase' = IF Len(nodes) = NodeCount(ops) THEN "built" ELSE "rejected"
    /\ UNCHANGED <<ops, nodes>> /\ Unchanging

-----------------------------------------------------------------------------
(* Loading.                                                                *)

\* The command line is read: a program to run, with or without a file, or a
\* file to check.
Launch ==
    /\ phase = "built"
    /\ ops \in Programs
    /\ start' \in Starts
    /\ check' \in BOOLEAN
    /\ check' => start' # NoPath
    /\ here' = <<"cwd", start'>>
    /\ phase' = IF start' = NoPath THEN "patch" ELSE "load"
    /\ UNCHANGED <<ops, nodes, disk, stack, visited, value, cli, settings, commands>>

\* The fields a file has for load_config_value() itself.
SchemaRefused(object) == "$schema" \in DOMAIN object /\ ~IsString(object["$schema"])

BaseRefused(object) ==
    /\ "extends" \in DOMAIN object
    /\ IsString(object["extends"]) => object["extends"].text = ""

FileRefused(content) ==
    \/ content = Broken
    \/ ~IsObject(content)
    \/ SchemaRefused(content.object)
    \/ BaseRefused(content.object)

Rest(content) == Object(Without(content.object, {"$schema", "extends"}))

\* Each layer over all that are farther.
Combination(layers) ==
    LET from[k \in 0 .. Len(layers) - 1] ==
            IF k = 0 THEN layers[Len(layers)]
            ELSE Merge(from[k - 1], layers[Len(layers) - k])
    IN  from[Len(layers) - 1]

\* Of files that load, merge_value() merges objects field by field and lets
\* anything else replace what it lands on, down to the settings.
Rests == {Rest(content) : content \in {c \in Contents : ~FileRefused(c)}}

Overlaid(base, overlay) ==
    IF IsObject(base) /\ IsObject(overlay)
    THEN Object([key \in DOMAIN base.object \cup DOMAIN overlay.object |->
            IF key \notin DOMAIN overlay.object THEN base.object[key]
            ELSE IF key \notin DOMAIN base.object THEN overlay.object[key]
            ELSE Merge(base.object[key], overlay.object[key])])
    ELSE overlay

ASSUME MergeAssumption ==
    \A layers \in BoundedSeq(Rests, Cardinality(Files) - 1) \ {<<>>}, overlay \in Rests :
        \A path \in Sections \cup {SettingPath(s) : s \in Settings} :
            LET base == Combination(layers)
                b == At(base, path)
                o == At(overlay, path)
            IN  Has(base, path) /\ Has(overlay, path) => Merge(b, o) = Overlaid(b, o)

\* load_config_value() up to the call it makes of itself, or to its return.
LoadFile ==
    /\ phase = "load"
    /\ here \in DOMAIN Canonical
    /\ LET file == Canonical[here] IN
       /\ file \notin visited
       /\ \E content \in IF disk[file] = Unread THEN Contents ELSE {disk[file]} :
          /\ disk' = [disk EXCEPT ![file] = content]
          /\ ~FileRefused(content)
          /\ IF "extends" \in DOMAIN content.object
             THEN /\ stack' = Append(stack, [file |-> file, value |-> Rest(content)])
                  /\ visited' = visited \cup {file}
                  /\ here' = <<Directory[file], content.object["extends"].text>>
                  /\ UNCHANGED <<phase, value>>
             ELSE /\ value' = Rest(content)
                  /\ phase' = "merge"
                  /\ UNCHANGED <<here, stack, visited>>
    /\ UNCHANGED <<ops, nodes, start, check, cli, settings, commands>>

\* Its errors, each passed on by every file that extends this one.
LoadFails ==
    /\ phase = "load"
    /\ \/ here \notin DOMAIN Canonical /\ UNCHANGED disk
       \/ /\ here \in DOMAIN Canonical
          /\ Canonical[here] \in visited
          /\ UNCHANGED disk
       \/ /\ here \in DOMAIN Canonical
          /\ LET file == Canonical[here] IN
             /\ file \notin visited
             /\ disk[file] = Unread
             /\ \E content \in {c \in Contents : FileRefused(c)} :
                    disk' = [disk EXCEPT ![file] = content]
    /\ phase' = "unloadable"
    /\ UNCHANGED <<ops, nodes, start, check, here, stack, visited, value,
                   cli, settings, commands>>

\* MUTANT of Return: the file that is extended is laid over the one that extends it.
ReturnSwapped ==
    /\ phase = "merge"
    /\ stack # <<>>
    /\ value' = Merge(Last(stack).value, value)
    /\ visited' = visited \ {Last(stack).file}
    /\ stack' = Front(stack)
    /\ UNCHANGED <<phase, ops, nodes, start, check, disk, here, cli, settings, commands>>

\* Back in the file that extends the one just loaded.
Return ==
    /\ phase = "merge"
    /\ stack # <<>>
    /\ value' = Merge(value, Last(stack).value)
    /\ visited' = visited \ {Last(stack).file}
    /\ stack' = Front(stack)
    /\ UNCHANGED <<phase, ops, nodes, start, check, disk, here, cli, settings, commands>>

Loaded ==
    /\ phase = "merge"
    /\ stack = <<>>
    /\ phase' = "parse"
    /\ UNCHANGED <<ops, nodes, start, check, disk, here, stack, visited, value,
                   cli, settings, commands>>

-----------------------------------------------------------------------------
(* Config::parse, and what into_config() does to its result.               *)

Bare(v) == Object(Without(v.object, {"dragonball"}))

Refused(v) ==
    \/ ProcessRefused(Field(v, "dragonball"))
    \/ ~Parses(ops, nodes, Bare(v))

Parse ==
    /\ phase = "parse"
    /\ IF Refused(value)
       THEN phase' = "refused" /\ UNCHANGED <<settings, commands>>
       ELSE /\ settings' = ProcessConfig(Field(value, "dragonball"))
            /\ commands' = Commands(ops, nodes, Bare(value))
            /\ phase' = IF check THEN "printed" ELSE "patch"
    /\ UNCHANGED <<ops, nodes, start, check, disk, here, stack, visited, value, cli>>

Or(first, second) == IF first # None THEN first ELSE second

\* MUTANT of Patch: a file's setting wins over the command line's.
PatchUnder(given, config) == [s \in Settings |-> Or(config[s], given[s])]

\* patch_config(): cli.x.or(config.x.take()).
Patch(given, config) == [s \in Settings |-> Or(given[s], config[s])]

Default(s) ==
    CASE s = "id"           -> "generated"
      [] s = "api_sock"     -> None
      [] s = "kvm_dev"      -> "/dev/kvm"
      [] s = "level"        -> "info"
      [] s = "target"       -> "stderr"
      [] s = "crash_target" -> "same_as_log"
      [] s = "format"       -> "text"
      [] OTHER              -> "true"

\* apply_defaults()
ApplyDefaults(config) == [s \in Settings |-> Or(config[s], Default(s))]

Given(args) == [s \in Settings |-> IF s \in DOMAIN args THEN args[s] ELSE None]

IntoConfig ==
    /\ phase = "patch"
    /\ cli' \in CommandLines
    /\ settings' = ApplyDefaults(Patch(Given(cli'), settings))
    /\ phase' = "ready"
    /\ UNCHANGED <<ops, nodes, start, check, disk, here, stack, visited, value, commands>>

Next == BindOp \/ Built \/ Launch \/ LoadFile \/ LoadFails \/ Return \/ Loaded
            \/ Parse \/ IntoConfig

Spec == Init /\ [][Next]_vars
-----------------------------------------------------------------------------
(* What a chain of files means, without the steps above.                   *)

Extends(file)   == "extends" \in DOMAIN disk[file].object
NextPlace(file) == <<Directory[file], disk[file].object["extends"].text>>

Leads(place, file) == place \in DOMAIN Canonical /\ Canonical[place] = file

\* The chains of sound files from the first one to one that extends nothing.
Chains ==
    {c \in BoundedSeq(Files, Cardinality(Files)) :
        /\ c # <<>>
        /\ Leads(<<"cwd", start>>, c[1])
        /\ \A k \in DOMAIN c : ~FileRefused(disk[c[k]])
        /\ \A k \in 1 .. Len(c) - 1 : Extends(c[k]) /\ Leads(NextPlace(c[k]), c[k + 1])
        /\ ~Extends(c[Len(c)])}

\* The documents of the chain, nearest first.
Layers ==
    IF start = NoPath \/ Chains = {} THEN <<>>
    ELSE LET c == CHOOSE c \in Chains : TRUE IN [k \in DOMAIN c |-> Rest(disk[c[k]])]

\* A document decides a setting if it has it, null included, or has something
\* else than an object where the setting would be.
Decides(v, path) ==
    \/ Has(v, path)
    \/ \E k \in 1 .. Len(path) - 1 :
          LET above == SubSeq(path, 1, k) IN Has(v, above) /\ ~IsObject(At(v, above))

\* The setting as the nearest layer that decides it has it.
Decided(layers, s) ==
    LET path == SettingPath(s)
        deciding == {i \in DOMAIN layers : Decides(layers[i], path)}
        first == CHOOSE i \in deciding : \A j \in deciding : i <= j
    IN  IF deciding = {} \/ ~Has(layers[first], path) THEN None
        ELSE LET v == At(layers[first], path)
             IN  IF IsText(v) THEN Read(s, v.text) ELSE None

-----------------------------------------------------------------------------
(* Properties.                                                             *)

\* Every list of operations that validate() lets through gets its tree, in
\* exactly the nodes node_count() counted, and no other list does.  The tree
\* then reads documents as the paths say: a document is refused for a field
\* that leads to no binding, for something else than an object above one, than
\* an array at a "[]" or than the operation's input; and the commands come
\* operation by operation, item by item.
BindingsAgree ==
    /\ phase = "rejected" => ~Valid(ops)
    /\ phase = "built" =>
          /\ Valid(ops)
          /\ \A v \in Documents :
                /\ Parses(ops, nodes, v) <=> Instructs(ops, v)
                /\ Instructs(ops, v) => Commands(ops, nodes, v) = Instructions(ops, v)

\* A configuration loads exactly if its chain of `extends', each path resolved
\* from where the file naming it really is, ends within as many files as there
\* are; what loads has every file of it, each over all those it extends.
ChainResolved ==
    /\ phase = "unloadable" => Chains = {}
    /\ phase = "parse" => LET layers == Layers
                          IN  layers # <<>> /\ value = Combination(layers)

\* Each setting of a started process is that of the command line or environment,
\* or else of the nearest file that decides it -- a null there takes back what a
\* base says -- or else the default; check-config shows what the files alone say;
\* and the commands are those the merged files instruct.
Layered ==
    LET layers == Layers
    IN  /\ phase = "ready" => \A s \in Settings :
              settings[s] = Or(Given(cli)[s], Or(Decided(layers, s), Default(s)))
        /\ phase = "printed" => \A s \in Settings : settings[s] = Decided(layers, s)
        /\ phase \in {"ready", "printed"} =>
              commands = IF layers = <<>> THEN <<>>
                         ELSE Instructions(ops, Bare(Combination(layers)))
=============================================================================
