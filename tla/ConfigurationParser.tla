-------------------------- MODULE ConfigurationParser --------------------------
(***************************************************************************)
(* The configuration (class ConfigurationParser): the YAML document is      *)
(* flattened, before the bus is touched, into one map from keys to typed    *)
(* values, fields_, from which every slave and task takes its settings.     *)
(*                                                                          *)
(* A key is the sequence of the names the code joins with "_".  parse_map() *)
(* recurses; here the entries it has yet to look at are kept in a sequence, *)
(* in the order in which the recursion meets them.                          *)
(***************************************************************************)
EXTENDS Naturals, Sequences, SequencesExt, FiniteSetsExt

CONSTANT Documents   \* what root["slaves"] can be: YAML nodes

(* YAML nodes (external).  The key of an entry is a sequence of names; the  *)
(* value of a number is a number, that of a string or a float is not looked *)
(* at.                                                                      *)
Scalar(tag, val) == [kind |-> "scalar", tag |-> tag, val |-> val]
Map(entries) == [kind |-> "map", entries |-> entries]
List(items) == [kind |-> "sequence", items |-> items]
Entry(key, node) == [key |-> key, node |-> node]

Types == {"uint8_t", "int8_t", "uint16_t", "int16_t", "uint32_t", "int32_t", "float",
          "std::string"}

(* as<T>() throws for a number that T cannot hold (external).               *)
Fits(type, val) ==
    /\ type = "uint8_t" => val \in Nat /\ val <= 255
    /\ type = "int8_t" => val < 2^7
    /\ type = "uint16_t" => val \in Nat /\ val <= 65535
    /\ type = "int16_t" => val < 2^15

VARIABLES
    document,  \* the document, chosen at the start
    fields,    \* fields_: the map
    todo,      \* the entries parse_map() has yet to look at
    pc         \* where start-up is

parser == <<document, fields, todo, pc>>

-----------------------------------------------------------------------------
(* What parse_map(path, node) goes through.                                 *)
Entries(path, node) ==
    IF node.kind # "map" THEN << >>
    ELSE [i \in DOMAIN node.entries |->
            [path |-> path, key |-> node.entries[i].key, node |-> node.entries[i].node]]

(* Mutant: the name of a map inside a sequence is not added to the path.    *)
NestedFlat(path, list) ==
    FlattenSeq([i \in DOMAIN list.items |->
        LET maps == Entries(path, list.items[i])
        IN FlattenSeq([j \in DOMAIN maps |-> Entries(path, maps[j].node)])])

(* The maps inside a sequence.  The name of each of them extends the path;  *)
(* the name the sequence itself is stored under does not.                   *)
Nested(path, list) ==
    FlattenSeq([i \in DOMAIN list.items |->
        LET maps == Entries(path, list.items[i])
        IN FlattenSeq([j \in DOMAIN maps |-> Entries(path \o maps[j].key, maps[j].node)])])

(* load_initial_value_from_config(): the document's top level is such a     *)
(* sequence, with an empty path, or nothing is loaded at all.               *)
InitParser ==
    /\ document \in Documents
    /\ fields = << >>
    /\ todo = IF document.kind = "sequence" THEN Nested(<< >>, document) ELSE << >>
    /\ pc = "load"

(* Set a field; a later entry of the same key replaces an earlier one.      *)
Set(map, key, type, val) ==
    [k \in DOMAIN map \cup {key} |-> IF k = key THEN [type |-> type, val |-> val] ELSE map[k]]

ParseScalar ==
    /\ todo # << >> /\ Head(todo).node.kind = "scalar"
    /\ LET key == Head(todo).path \o Head(todo).key
           node == Head(todo).node
       IN IF node.tag \in Types /\ Fits(node.tag, node.val)
          THEN fields' = Set(fields, key, node.tag, node.val) /\ pc' = pc
          ELSE pc' = "terminated" /\ fields' = fields
    /\ todo' = Tail(todo)
    /\ UNCHANGED document

ParseSequence ==
    /\ todo # << >> /\ Head(todo).node.kind = "sequence"
    /\ todo' = Nested(Head(todo).path, Head(todo).node) \o Tail(todo)
    /\ UNCHANGED <<document, fields, pc>>

(* A map or a null that is the value of a key is passed over.               *)
ParseOther ==
    /\ todo # << >> /\ Head(todo).node.kind \in {"map", "null"}
    /\ todo' = Tail(todo)
    /\ UNCHANGED <<document, fields, pc>>

Parse == pc = "load" /\ (ParseScalar \/ ParseSequence \/ ParseOther)
Loaded == pc = "load" /\ todo = << >>
=============================================================================
