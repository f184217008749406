----------------------------- MODULE PlistTree ------------------------------
(***************************************************************************)
(* What the functions of plist.c promise, on property lists as values: an  *)
(* array is a sequence of items, a dictionary a sequence of pairs of a key *)
(* and an item in which no key occurs twice, in the order the keys came.   *)
(* A call names a tree and, by a path of at most one step, the container   *)
(* in it that it works on; indexes count from 0.                           *)
(***************************************************************************)
EXTENDS Naturals, SequencesExt

CONSTANTS
    Absent,             \* what a handle without a tree stands for
    Initially,          \* the trees there may be at first, of every handle
    UidKey,             \* the key under which XML has a uid
    WholeSeconds(_),    \* a time without its fraction of a second
    NoLength16(_)       \* a number without the mark that it has 16 bytes

VARIABLES
    tree,       \* the tree of each handle
    call        \* the last call, with its arguments

treeVars == <<tree, call>>

IndexOf(d, k) == {i \in DOMAIN d.items : d.items[i][1] = k}

(* The item of a key that is there is replaced, another key comes last.    *)
SetKey(d, k, item) ==
    IF IndexOf(d, k) = {} THEN [d EXCEPT !.items = Append(@, <<k, item>>)]
    ELSE [d EXCEPT !.items = [i \in DOMAIN @ |->
                                IF i \in IndexOf(d, k) THEN <<k, item>> ELSE @[i]]]

RemoveKey(d, k) ==
    [d EXCEPT !.items = IF IndexOf(d, k) = {} THEN @
                        ELSE RemoveAt(@, CHOOSE i \in IndexOf(d, k) : TRUE)]

RECURSIVE MergedFrom(_, _)
MergedFrom(d, pairs) ==
    IF pairs = <<>> THEN d
    ELSE MergedFrom(SetKey(d, pairs[1][1], pairs[1][2]), Tail(pairs))

(* What a call does to the container it names. *)
Applied(c, t) ==
    CASE c.op = "dict_set"     -> SetKey(t, c.key, c.item)
      [] c.op = "dict_remove"  -> RemoveKey(t, c.key)
      [] c.op = "array_append" -> [t EXCEPT !.items = Append(@, c.item)]
      [] c.op = "array_set"    ->
            [t EXCEPT !.items = [i \in DOMAIN @ |->
                                   IF i = c.index + 1 THEN c.item ELSE @[i]]]
      [] c.op = "array_insert" ->
            [t EXCEPT !.items = IF c.index >= Len(@) THEN Append(@, c.item)
                                ELSE InsertAt(@, c.index + 1, c.item)]
      [] c.op = "set_val"      -> c.item
      [] c.op = "array_remove" ->
            [t EXCEPT !.items = IF c.index >= Len(@) THEN @
                                ELSE RemoveAt(@, c.index + 1)]

(* The item at a path, if there is one, and the tree with another there.   *)
ItemsAt(t, path) ==
    IF path = <<>> THEN {t}
    ELSE IF t.type = "array" THEN {t.items[i] : i \in DOMAIN t.items \cap {path[1] + 1}}
    ELSE {t.items[i][2] : i \in IndexOf(t, path[1])}

Changed(t, path, item) ==
    IF path = <<>> THEN item
    ELSE IF t.type = "array" THEN [t EXCEPT !.items[path[1] + 1] = item]
    ELSE SetKey(t, path[1], item)

Change ==
    /\ call'.op \in {"dict_set", "dict_remove", "array_append", "array_set",
                     "array_insert", "array_remove", "set_val"}
    /\ \E old \in ItemsAt(tree[call'.tree], call'.path) :
         tree' = [tree EXCEPT ![call'.tree] = Changed(@, call'.path, Applied(call', old))]

(* The value at the path, if it is of the type that was asked for. *)
Read ==
    /\ call'.op = "get"
    /\ LET asked == {i \in ItemsAt(tree[call'.tree], call'.path) : i.type = call'.type}
       IN  IF asked # {} THEN call'.result \in asked
           ELSE call'.result.type \in {"abort", "unset"}
    /\ UNCHANGED tree

(* A copy, or the tree written as a file and read again. *)
Copy ==
    /\ call'.op \in {"copy", "convert"}
    /\ tree' = [tree EXCEPT ![call'.to] = tree[call'.tree]]

(* What of a tree an XML document carries. *)
RECURSIVE AsXml(_)
AsXml(t) ==
    CASE t.type = "array" -> [t EXCEPT !.items = [i \in DOMAIN @ |-> AsXml(@[i])]]
      [] t.type = "dict"  ->
            [t EXCEPT !.items = [i \in DOMAIN @ |-> <<@[i][1], AsXml(@[i][2])>>]]
      [] t.type = "uid"   ->
            [type |-> "dict", items |-> << <<UidKey, [type |-> "uint", val |-> t.val]>> >>]
      [] t.type = "date"  -> [t EXCEPT !.val = WholeSeconds(@)]
      [] t.type = "uint"  -> [t EXCEPT !.val = NoLength16(@)]
      [] OTHER            -> t

CopyAsXml ==
    /\ call'.op = "convert_xml"
    /\ tree' = [tree EXCEPT ![call'.to] = AsXml(tree[call'.tree])]

(* A document is read as what it means, or not at all. *)
Load ==
    /\ call'.op = "read"
    /\ tree' = [tree EXCEPT ![call'.to] = call'.means]

Merge ==
    /\ call'.op = "merge"
    /\ tree' = [tree EXCEPT ![call'.to] = MergedFrom(@, tree[call'.tree].items)]

Destroy ==
    /\ call'.op = "free"
    /\ tree' = [tree EXCEPT ![call'.tree] = Absent]

TreeNext == Change \/ Read \/ Copy \/ CopyAsXml \/ Load \/ Merge \/ Destroy

TreeSpec ==
    /\ tree \in Initially /\ call = [op |-> "none"]
    /\ [][TreeNext]_treeVars
=============================================================================
