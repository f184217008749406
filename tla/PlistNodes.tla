----------------------------- MODULE PlistNodes -----------------------------
(***************************************************************************)
(* The tree under a property list (src/lib/plist/node.c, node_list.c and   *)
(* list.c): nodes in a heap, the children of a node in a doubly linked     *)
(* list.                                                                   *)
(*                                                                         *)
(* A heap is a sequence of nodes, an address is a place in it, NULL is 0;  *)
(* an address is not used again.  list_init makes the end of an empty list *)
(* point to the list itself, read as a node, whose field next is the begin *)
(* of the list; -p is that address, the list of the node p.  The first     *)
(* node added to a list so has the list for its prev, a node inserted      *)
(* before it has NULL.  The list of a node is made when it is first        *)
(* needed; an empty one is no different.  The data of a node is part of    *)
(* it: a type, a value, and for a dictionary its hash table.               *)
(***************************************************************************)
EXTENDS Integers, Sequences

NULL == 0
Free == [type |-> "freed"]

(* node_create(NULL, data): the address the next node gets, and the heap   *)
(* with that node.                                                         *)
New(h) == Len(h) + 1
node_create(h, type, val) ==
    Append(h, [type |-> type, val |-> val, hashed |-> FALSE, table |-> <<>>,
               parent |-> NULL, next |-> NULL, prev |-> NULL,
               begin |-> NULL, end |-> -New(h), count |-> 0])

(* The assignment p->next = n, where p may be a list.  What is written to  *)
(* a freed node is lost.                                                   *)
SetNext(h, p, n) ==
    CASE p < 0                        -> [h EXCEPT ![-p].begin = n]
      [] p > 0 /\ h[p].type # "freed" -> [h EXCEPT ![p].next = n]
      [] OTHER                        -> h

node_list_add(h, p, n) ==
    SetNext([h EXCEPT ![n].next = NULL, ![n].prev = h[p].end,
                      ![p].end = n, ![p].count = @ + 1],
            h[p].end, n)

(* The nodes of p's list, in its order. *)
Children(h, p) ==
    LET from[n \in 0..Len(h)] == IF n = NULL THEN <<>> ELSE <<n>> \o from[h[n].next]
    IN  from[h[p].begin]

(* node_list_insert: before the node that is at the index now. *)
InsertAfter(h, p, prev, n) ==
    LET next == IF prev = NULL THEN h[p].begin ELSE h[prev].next
        g == SetNext([h EXCEPT ![n].prev = prev, ![n].next = next, ![p].count = @ + 1],
                     IF prev = NULL THEN -p ELSE prev, n)
    IN  IF next = NULL THEN [g EXCEPT ![p].end = n] ELSE [g EXCEPT ![next].prev = n]

node_list_insert(h, p, index, n) ==
    IF index >= h[p].count
    THEN node_list_add(h, p, n)
    ELSE InsertAfter(h, p, IF index = 0 THEN NULL ELSE Children(h, p)[index], n)

(* A broken form: the end stays where it was. *)
RemoveKeepsEnd(h, p, n) ==
    LET next == h[n].next   prev == h[n].prev
        g == SetNext([h EXCEPT ![p].count = @ - 1], IF prev = NULL THEN -p ELSE prev,
                     next)
    IN  IF next # NULL THEN [g EXCEPT ![next].prev = prev] ELSE g

(* node_list_remove; when the node had NULL for its prev and was the last  *)
(* one, end keeps pointing to it.                                          *)
node_list_remove(h, p, n) ==
    LET next == h[n].next   prev == h[n].prev
        g == SetNext([h EXCEPT ![p].count = @ - 1], IF prev = NULL THEN -p ELSE prev,
                     next)
    IN  IF next # NULL THEN [g EXCEPT ![next].prev = prev]
        ELSE IF prev # NULL THEN [g EXCEPT ![p].end = prev]
        ELSE g

node_attach(h, p, n) == node_list_add([h EXCEPT ![n].parent = p], p, n)
node_insert(h, p, index, n) ==
    node_list_insert([h EXCEPT ![n].parent = p], p, index, n)

(* node_detach, and the index it returns: that of the node, or -1. *)
DetachIndex(h, n) ==
    LET siblings == Children(h, h[n].parent)
        at == {i \in DOMAIN siblings : siblings[i] = n}
    IN  IF h[n].parent = NULL THEN -1
        ELSE IF at = {} THEN -1
        ELSE (CHOOSE i \in at : TRUE) - 1
node_detach(h, n) ==
    IF DetachIndex(h, n) < 0 THEN h ELSE node_list_remove(h, h[n].parent, n)

(* The n-th child, counted from 0, or NULL. *)
node_nth_child(h, p, n) ==
    IF n < Len(Children(h, p)) THEN Children(h, p)[n + 1] ELSE NULL

(* A node and everything below it, in the order of plist_copy_node and     *)
(* serialize_plist: the node, then the trees of its children.              *)
Preorder(h, n) ==
    LET from[m \in 0..Len(h)] ==
            IF m = NULL THEN <<>> ELSE <<m>> \o from[h[m].begin] \o from[h[m].next]
    IN  <<n>> \o from[h[n].begin]

Below(h, n) == {Preorder(h, n)[i] : i \in 1..Len(Preorder(h, n))}
=============================================================================
