------------------------------- MODULE Plist --------------------------------
(***************************************************************************)
(* Property lists in memory (src/lib/plist/plist.c, hashtable.c): what the *)
(* calls of the library do to the nodes of the trees a program holds.  A   *)
(* dictionary has its keys and items in one list, by turns, and from a     *)
(* size on a hash table from its keys to its items.                        *)
(*                                                                         *)
(* Two keys that are equal have the same hash, so a table is a function    *)
(* from nodes of keys, of which no two are equal, to nodes of items; its   *)
(* buckets and their order do not matter.                                  *)
(***************************************************************************)
EXTENDS Xplist, TLC

CONSTANTS
    Trees,              \* the variables of the program that hold a tree
    Keys,               \* the keys it uses
    Items,              \* the items it makes: [type, val] of a new node
    Indexes,            \* the indexes it uses
    Initial,            \* what it may start from: heap, roots, calls left
    Documents,          \* XML texts and the trees they stand for: [text, means]
    TableFrom,          \* a dictionary of more children than this gets a table (500)
    CopiesTables,       \* whether dictionaries with a table are copied
    RemovesBesideFirst  \* whether items are removed from a short array into
                        \* which an item was inserted as the first

ASSUME TableFromAssumption == TableFrom \in Nat

VARIABLES
    heap,       \* the nodes
    roots,      \* the root of each tree, or NULL
    left,       \* bound: the calls that are left, each a set of those it may be
    call        \* the last call, with its arguments as values

vars == <<heap, roots, left, call>>

-----------------------------------------------------------------------------
(* Hash tables.  The table of a dictionary that was copied holds the keys  *)
(* of the one it was copied from.                                          *)

Equal(h, t, k) == {n \in DOMAIN t : h[n].val = k}

hash_table_insert(h, t, n, item) ==
    IF Equal(h, t, h[n].val) = {} THEN n :> item @@ t
    ELSE [m \in DOMAIN t |-> IF m \in Equal(h, t, h[n].val) THEN item ELSE t[m]]

hash_table_lookup(h, t, k) ==
    IF Equal(h, t, k) = {} THEN NULL ELSE t[CHOOSE n \in Equal(h, t, k) : TRUE]

hash_table_remove(h, t, n) == Restrict(t, DOMAIN t \ Equal(h, t, h[n].val))

(* The table of all the pairs of a list, from the key n on. *)
RECURSIVE TableOf(_, _, _)
TableOf(h, t, n) ==
    IF n = NULL THEN t
    ELSE TableOf(h, hash_table_insert(h, t, n, h[n].next), h[h[n].next].next)

-----------------------------------------------------------------------------
(* Nodes. *)

(* The item after the first key, from the key n on, that equals k. *)
RECURSIVE Linear(_, _, _)
Linear(h, n, k) ==
    IF n = NULL THEN NULL
    ELSE IF h[n].val = k THEN h[n].next
    ELSE Linear(h, h[h[n].next].next, k)

plist_dict_get_item(h, d, k) ==
    IF h[d].hashed THEN hash_table_lookup(h, h[d].table, k) ELSE Linear(h, h[d].begin, k)

RECURSIVE plist_free_node(_, _), FreedChildren(_, _)
plist_free_node(h, n) ==
    [FreedChildren(node_detach(h, n), h[n].begin) EXCEPT ![n] = Free]
FreedChildren(h, ch) ==
    IF ch = NULL THEN h ELSE FreedChildren(plist_free_node(h, ch), h[ch].next)

(* The new item in the place of the old one, which is freed. *)
Replaced(h, p, old, item) ==
    LET index == DetachIndex(h, old)
        g == plist_free_node(h, old)
    IN  IF index < 0 THEN node_attach(g, p, item) ELSE node_insert(g, p, index, item)

(* A broken form: a key that is in the table keeps its item. *)
TabledOnce(h, d, key_node, item) ==
    IF h[d].hashed
    THEN [h EXCEPT ![d].table = IF Equal(h, @, h[key_node].val) = {}
                                THEN hash_table_insert(h, @, key_node, item) ELSE @]
    ELSE IF h[d].count > TableFrom
    THEN [h EXCEPT ![d].hashed = TRUE, ![d].table = TableOf(h, <<>>, h[d].begin)]
    ELSE h

(* The table after a pair was set: it gets the pair, or is made when there *)
(* are enough of them.                                                     *)
Tabled(h, d, key_node, item) ==
    IF h[d].hashed
    THEN [h EXCEPT ![d].table = hash_table_insert(h, @, key_node, item)]
    ELSE IF h[d].count > TableFrom
    THEN [h EXCEPT ![d].hashed = TRUE, ![d].table = TableOf(h, <<>>, h[d].begin)]
    ELSE h

plist_dict_set_item(h, d, k, item) ==
    LET old == plist_dict_get_item(h, d, k)
        replaced == Replaced(h, d, old, item)
        added == node_attach(node_attach(node_create(h, "key", k), d, New(h)), d, item)
    IN  IF old # NULL THEN Tabled(replaced, d, replaced[item].prev, item)
        ELSE Tabled(added, d, New(h), item)

plist_dict_remove_item(h, d, k) ==
    LET old == plist_dict_get_item(h, d, k)
        key_node == h[old].prev
        g == IF h[d].hashed THEN [h EXCEPT ![d].table = hash_table_remove(h, @, key_node)]
             ELSE h
    IN  IF old = NULL THEN h ELSE plist_free_node(plist_free_node(g, key_node), old)

plist_array_set_item(h, a, item, index) ==
    LET old == node_nth_child(h, a, index)
    IN  IF old = NULL THEN h ELSE Replaced(h, a, old, item)

plist_array_append_item(h, a, item) == node_attach(h, a, item)
plist_array_insert_item(h, a, item, index) == node_insert(h, a, index, item)
plist_array_remove_item(h, a, index) ==
    LET old == node_nth_child(h, a, index)
    IN  IF old = NULL THEN h ELSE plist_free_node(h, old)

(* A copy of the tree of n, at the end of the list of parent.  Its root is *)
(* the next new node.  The table of a copied dictionary is made from the   *)
(* children of the original.                                               *)
RECURSIVE plist_copy_node(_, _, _), CopiedChildren(_, _, _)
plist_copy_node(h, n, parent) ==
    LET g == node_create(h, h[n].type, h[n].val)
        t == IF ~h[n].hashed THEN g
             ELSE [g EXCEPT ![New(h)].hashed = TRUE,
                            ![New(h)].table = TableOf(h, <<>>, h[n].begin)]
        attached == IF parent = NULL THEN t ELSE node_attach(t, parent, New(h))
    IN  CopiedChildren(attached, h[n].begin, New(h))
CopiedChildren(h, ch, parent) ==
    IF ch = NULL THEN h
    ELSE CopiedChildren(plist_copy_node(h, ch, parent), h[ch].next, parent)

plist_copy(h, n) == plist_copy_node(h, n, NULL)

(* The pairs of a dictionary from the key n on, copied into another. *)
RECURSIVE plist_dict_merge(_, _, _)
plist_dict_merge(h, target, n) ==
    IF n = NULL THEN h
    ELSE LET subnode == h[n].next
             g == plist_dict_set_item(plist_copy(h, subnode), target, h[n].val, New(h))
         IN  plist_dict_merge(g, target, h[subnode].next)

(* The nodes that parsing a file makes for a tree: parse_dict_node and     *)
(* parse_array_node attach what they parsed; keys are not looked up.       *)
RECURSIVE Parsed(_, _, _), ParsedPairs(_, _, _), ParsedItems(_, _, _)
Parsed(h, t, parent) ==
    LET g == node_create(h, t.type, IF t.type \in {"dict", "array"} THEN <<>> ELSE t.val)
        attached == IF parent = NULL THEN g ELSE node_attach(g, parent, New(h))
    IN  CASE t.type = "dict" -> ParsedPairs(attached, t.items, New(h))
          [] t.type = "array" -> ParsedItems(attached, t.items, New(h))
          [] OTHER -> attached
ParsedPairs(h, pairs, d) ==
    IF pairs = <<>> THEN h
    ELSE LET key == node_attach(node_create(h, "key", pairs[1][1]), d, New(h))
         IN  ParsedPairs(Parsed(key, pairs[1][2], d), Tail(pairs), d)
ParsedItems(h, items, a) ==
    IF items = <<>> THEN h ELSE ParsedItems(Parsed(h, items[1], a), Tail(items), a)

(* The nodes that parsing a text makes, under the node parent: a pair is   *)
(* set in a dictionary, which may replace one of the same key.             *)
RECURSIVE Built(_, _, _)
Built(h, nodes, parent) ==
    LET node == nodes[1]
        g == node_create(h, node.type, node.val)
        added == CASE parent = NULL -> g
                   [] parent # NULL /\ h[parent].type = "dict" ->
                        plist_dict_set_item(g, parent, node.key[1], New(h))
                   [] OTHER -> plist_array_append_item(g, parent, New(h))
    IN  CASE nodes = <<>> -> h
          [] nodes # <<>> /\ node.type = "end" -> Built(h, Tail(nodes), h[parent].parent)
          [] OTHER -> Built(added, Tail(nodes), IF node.inside THEN New(h) ELSE parent)

ReadTree(h, t) == IF t = NoPlist THEN h ELSE Parsed(h, t, NULL)

plist_is_binary(b) == Len(b) >= 8 /\ SubSeq(b, 1, 8) = Magic \o Version

(* The heap with the tree of a file, or without, if it is none. *)
plist_from_memory(h, b) ==
    CASE Len(b) < 8 -> h
      [] Len(b) >= 8 /\ plist_is_binary(b) -> ReadTree(h, plist_from_bin(b))
      [] OTHER -> Built(h, plist_from_xml(b), NULL)

(* One step of plist_access_path: an index into an array, a key of a       *)
(* dictionary.                                                             *)
plist_access_path(h, n, path) ==
    IF path = <<>> THEN n
    ELSE CASE h[n].type = "array" -> node_nth_child(h, n, path[1])
           [] h[n].type = "dict"  -> plist_dict_get_item(h, n, path[1])

(* plist_get_type_and_value behind the functions plist_get_*_val: on a node *)
(* of another type, and on no node, nothing is read; all of them but       *)
(* plist_get_data_val then fail the assertion on the length.               *)
plist_get_val(h, n, type) ==
    LET is == IF n = NULL THEN FALSE ELSE h[n].type = type
    IN  CASE is -> [type |-> type, val |-> h[n].val]
          [] ~is /\ type = "data" -> [type |-> "unset"]
          [] OTHER -> [type |-> "abort"]

plist_set_element_val(h, n, type, val) == [h EXCEPT ![n].type = type, ![n].val = val]

-----------------------------------------------------------------------------
(* What a tree of nodes stands for, and what the nodes of an item are. *)

RECURSIVE Tree(_, _)
Tree(h, n) ==
    LET c == Children(h, n)
    IN  CASE h[n].type = "array" ->
               [type |-> "array", items |-> [i \in DOMAIN c |-> Tree(h, c[i])]]
          [] h[n].type = "dict" ->
               [type |-> "dict",
                items |-> [i \in 1..(Len(c) \div 2) |-> <<h[c[2 * i - 1]].val, Tree(h, c[2 * i])>>]]
          [] OTHER -> [type |-> h[n].type, val |-> h[n].val]

ItemTree(item) ==
    IF item.type \in {"dict", "array"} THEN [type |-> item.type, items |-> <<>>] ELSE item

Held == {t \in Trees : roots[t] # NULL}

Init ==
    \E i \in Initial :
        /\ heap = i.heap /\ roots = i.roots /\ left = i.left
        /\ call = [op |-> "none"]

At(t, path) == plist_access_path(heap, roots[t], path)

(* The places of at most one step in a tree where there may be an item. *)
Places(t) ==
    LET root == heap[roots[t]].type
    IN  {<<>>} \cup CASE root = "array" -> {<<i>> : i \in Indexes}
                      [] root = "dict"  -> {<<k>> : k \in Keys}
                      [] OTHER          -> {}

(* The containers of a type there; the calls do nothing to another node.   *)
Paths(t, type) ==
    {p \in Places(t) : At(t, p) # NULL /\ heap[At(t, p)].type = type}

MayCall(op) == left # <<>> /\ op \in Head(left)
Calls(c) == MayCall(c.op) /\ left' = Tail(left) /\ call' = c

Simple == {item \in Items : item.type \notin {"array", "dict"}}

(* A failed assertion ends the process. *)
Get ==
    \E t \in Held : \E path \in Places(t), type \in {item.type : item \in Simple} :
        LET read == plist_get_val(heap, At(t, path), type)
        IN  /\ MayCall("get")
            /\ left' = IF read.type = "abort" THEN <<>> ELSE Tail(left)
            /\ call' = [op |-> "get", tree |-> t, path |-> path, type |-> type, result |-> read]
            /\ UNCHANGED <<heap, roots>>

(* A value in the place of another one; containers keep their children, so *)
(* that a program sets the values of other nodes only.                     *)
SetValue ==
    \E t \in Held, item \in Simple : \E path \in Places(t) :
        /\ At(t, path) # NULL
        /\ heap[At(t, path)].type \notin {"array", "dict"}
        /\ Calls([op |-> "set_val", tree |-> t, path |-> path, item |-> ItemTree(item)])
        /\ heap' = plist_set_element_val(heap, At(t, path), item.type, item.val)
        /\ UNCHANGED roots

(* A new node for an item, which the call takes over. *)
Made(item) == node_create(heap, item.type, item.val)

DictSet ==
    \E t \in Held, k \in Keys, item \in Items : \E path \in Paths(t, "dict") :
        /\ Calls([op |-> "dict_set", tree |-> t, path |-> path, key |-> k,
                  item |-> ItemTree(item)])
        /\ heap' = plist_dict_set_item(Made(item), At(t, path), k, New(heap))
        /\ UNCHANGED roots

DictRemove ==
    \E t \in Held, k \in Keys : \E path \in Paths(t, "dict") :
        /\ Calls([op |-> "dict_remove", tree |-> t, path |-> path, key |-> k])
        /\ heap' = plist_dict_remove_item(heap, At(t, path), k)
        /\ UNCHANGED roots

ArrayAppend ==
    \E t \in Held, item \in Items : \E path \in Paths(t, "array") :
        /\ Calls([op |-> "array_append", tree |-> t, path |-> path,
                  item |-> ItemTree(item)])
        /\ heap' = plist_array_append_item(Made(item), At(t, path), New(heap))
        /\ UNCHANGED roots

ArraySet ==
    \E t \in Held, item \in Items, i \in Indexes : \E path \in Paths(t, "array") :
        /\ Calls([op |-> "array_set", tree |-> t, path |-> path, index |-> i,
                  item |-> ItemTree(item)])
        /\ heap' = plist_array_set_item(Made(item), At(t, path), New(heap), i)
        /\ UNCHANGED roots

ArrayInsert ==
    \E t \in Held, item \in Items, i \in Indexes : \E path \in Paths(t, "array") :
        /\ Calls([op |-> "array_insert", tree |-> t, path |-> path, index |-> i,
                  item |-> ItemTree(item)])
        /\ heap' = plist_array_insert_item(Made(item), At(t, path), New(heap), i)
        /\ UNCHANGED roots

(* With an item inserted as the first, the removal of its neighbours and   *)
(* then its own leaves the end of the list on it: node_list_remove.        *)
BesideFirst(a) ==
    heap[a].begin # NULL /\ heap[heap[a].begin].prev = NULL /\ heap[a].count <= 2

ArrayRemove ==
    \E t \in Held, i \in Indexes : \E path \in Paths(t, "array") :
        /\ BesideFirst(At(t, path)) => RemovesBesideFirst
        /\ Calls([op |-> "array_remove", tree |-> t, path |-> path, index |-> i])
        /\ heap' = plist_array_remove_item(heap, At(t, path), i)
        /\ UNCHANGED roots

Copied(n) == CopiesTables \/ \A m \in Below(heap, n) : ~heap[m].hashed

Copy ==
    \E t \in Held, to \in Trees \ Held :
        /\ Copied(roots[t])
        /\ Calls([op |-> "copy", tree |-> t, to |-> to])
        /\ heap' = plist_copy(heap, roots[t])
        /\ roots' = [roots EXCEPT ![to] = New(heap)]

Merge ==
    \E t \in Held : \E to \in Held \ {t} :
        /\ heap[roots[t]].type = "dict" /\ heap[roots[to]].type = "dict"
        /\ \A n \in Below(heap, roots[t]) \ {roots[t]} : Copied(n)
        /\ Calls([op |-> "merge", tree |-> t, to |-> to])
        /\ heap' = plist_dict_merge(heap, roots[to], heap[roots[t]].begin)
        /\ UNCHANGED roots

(* A file becomes a tree, or none. *)
Load(to, b) ==
    /\ heap' = plist_from_memory(heap, b)
    /\ roots' = [roots EXCEPT ![to] = IF Len(heap') = Len(heap) THEN NULL ELSE New(heap)]

(* A tree written by plist_to_bin and read again. *)
Convert ==
    \E t \in Held, to \in Trees \ Held, shared \in BOOLEAN :
        /\ Calls([op |-> "convert", tree |-> t, to |-> to])
        /\ Load(to, plist_to_bin(heap, roots[t], shared))

(* A tree written by plist_to_xml and read again. *)
ConvertXml ==
    \E t \in Held, to \in Trees \ Held, emptied \in BOOLEAN :
        /\ Calls([op |-> "convert_xml", tree |-> t, to |-> to])
        /\ Load(to, plist_to_xml(heap, roots[t], emptied))

(* A text from elsewhere. *)
ReadDocument ==
    /\ MayCall("read")
    /\ \E to \in Trees \ Held, d \in Documents :
        /\ Calls([op |-> "read", to |-> to, means |-> d.means])
        /\ Load(to, d.text)

plist_free ==
    \E t \in Held :
        /\ Calls([op |-> "free", tree |-> t])
        /\ heap' = plist_free_node(heap, roots[t])
        /\ roots' = [roots EXCEPT ![t] = NULL]

Next ==
    /\ left # <<>>
    /\ \/ DictSet \/ DictRemove
       \/ ArrayAppend \/ ArraySet \/ ArrayInsert \/ ArrayRemove
       \/ Get \/ SetValue
       \/ Copy \/ Merge \/ Convert \/ ConvertXml \/ ReadDocument \/ plist_free

Spec == Init /\ [][Next]_vars

-----------------------------------------------------------------------------
(* What a program sees of its trees, and what it may rely on. *)

Absent == [type |-> "absent"]
TreesOf(h, r) == [t \in Trees |-> IF r[t] = NULL THEN Absent ELSE Tree(h, r[t])]

(* What XML cannot say: the fraction of a second, and that a number has    *)
(* the length of 16 where 8 are enough.                                    *)
Seconds(d) == Double(Truncated(d))
Narrowed(v) == IF Len(v) = 16 /\ v[9] < 128 THEN Low(v, 8) ELSE v

Promise == INSTANCE PlistTree WITH
    tree <- TreesOf(heap, roots),
    WholeSeconds <- Seconds,
    NoLength16 <- Narrowed,
    UidKey <- CF_UID,
    Initially <- {TreesOf(i.heap, i.roots) : i \in Initial}

(* Every call of the library changes the trees as the functions of         *)
(* plist.h say, whether a dictionary has a table or not, a value is read   *)
(* as it was set, a tree that was written as a binary file or as XML and   *)
(* read again is the tree it was, as far as the format can say, and a      *)
(* document of others is read as the tree it stands for, or refused        *)
(* (plist_dict_set_item, plist_copy_node, plist_to_bin, plist_from_bin,    *)
(* node_to_xml, node_from_xml).                                            *)
Refines == Promise!TreeSpec

Live == UNION {Below(heap, roots[t]) : t \in Held}

(* A dictionary finds under a key the item that follows the key in its     *)
(* list, through its hash table too: an entry the table keeps for an item  *)
(* that was replaced, removed or belongs to another tree would be found    *)
(* after it was freed (plist_dict_get_item, hash_table_lookup).            *)
LookupFindsItem ==
    \A d \in Live : heap[d].type = "dict" =>
        \A k \in Keys : plist_dict_get_item(heap, d, k) = Linear(heap, heap[d].begin, k)

RECURSIVE Back(_)
Back(n) ==
    IF n <= 0 THEN <<>>
    ELSE IF heap[n].type = "freed" THEN <<n>>
    ELSE Append(Back(heap[n].prev), n)

(* The list of the children of a node is the same read from its end as     *)
(* from its begin, has as many nodes as it counts and those that name the  *)
(* node as their parent: node_attach appends after the end, plist_to_bin   *)
(* writes the count, plist_dict_set_item finds the key before an item      *)
(* (node_list_add, node_list_insert, node_list_remove).                    *)
ListsWhole ==
    \A p \in Live :
        /\ Back(heap[p].end) = Children(heap, p)
        /\ Len(Children(heap, p)) = heap[p].count
        /\ \A i \in DOMAIN Children(heap, p) : heap[Children(heap, p)[i]].parent = p
=============================================================================
