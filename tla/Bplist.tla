------------------------------- MODULE Bplist -------------------------------
(***************************************************************************)
(* Property lists as binary files (src/lib/plist/bplist.c): plist_to_bin   *)
(* writes the tree of a node, plist_from_bin reads a file as a tree.       *)
(*                                                                         *)
(* A file is a sequence of bytes, an offset counts them from 0.  An        *)
(* unsigned 64-bit value is the sequence of its 8 bytes, the highest       *)
(* first, and one of the 128-bit length a sequence of 16.  A double is its *)
(* 8 bytes too.                                                            *)
(***************************************************************************)
EXTENDS PlistNodes, SequencesExt

CONSTANT
    Floats      \* the doubles a float holds exactly, and that float's 4 bytes

NoPlist == [type |-> "none"]

-----------------------------------------------------------------------------
(* The low n bytes of a number, and the number n bytes from an offset on   *)
(* stand for.                                                              *)
RECURSIVE Bytes(_, _), Num(_, _, _)
Bytes(x, n) == IF n = 0 THEN <<>> ELSE Append(Bytes(x \div 256, n - 1), x % 256)
Num(b, o, n) == IF n = 0 THEN 0 ELSE 256 * Num(b, o, n - 1) + b[o + n]

Low(v, n) == SubSeq(v, Len(v) - n + 1, Len(v))
Zeros(n) == [i \in 1..n |-> 0]

(* UINT_TO_HOST of n bytes, to 64 bits. *)
UINT_TO_HOST(b, o, n) ==
    IF n >= 8 THEN SubSeq(b, o + n - 7, o + n)
    ELSE Zeros(8 - n) \o SubSeq(b, o + 1, o + n)

get_needed_bytes(v) ==
    LET fits == {n \in 1..4 : \A i \in 1..(8 - n) : v[i] = 0}
    IN  IF fits = {} THEN 8 ELSE Min(fits)
NeededBytes(x) == get_needed_bytes(Bytes(x, 8))

(* "do not write 3bytes int node" *)
NodeBytes(v) == IF get_needed_bytes(v) = 3 THEN 4 ELSE get_needed_bytes(v)

Log2(n) == CASE n = 8 -> 3 [] n = 4 -> 2 [] n = 2 -> 1 [] OTHER -> 0
Power2(n) == 2^n

-----------------------------------------------------------------------------
(* Text: bytes in UTF-8, units of 16 bits in UTF-16. *)

is_ascii_string(s) == \A i \in DOMAIN s : s[i] < 128

(* The units of the character at the place i of s, and how many bytes it   *)
(* has; none where no valid character begins.                              *)
Character(s, i) ==
    LET c(k) == IF i + k <= Len(s) THEN s[i + k] ELSE 0
        Follow(n) == \A k \in 1..n : c(k) >= 128
        w == (c(0) % 8) * 262144 + (c(1) % 64) * 4096 + (c(2) % 64) * 64
                + (c(3) % 64) - 65536
    IN  CASE c(0) >= 240 /\ Follow(3) ->
               [size |-> 4, units |-> <<55296 + w \div 1024, 56320 + (w % 1024)>>]
          [] c(0) >= 224 /\ Follow(2) /\ ~(c(0) >= 240 /\ Follow(3)) ->
               [size |-> 3, units |-> <<(c(0) % 16) * 4096 + (c(1) % 64) * 64 + (c(2) % 64)>>]
          [] c(0) >= 192 /\ Follow(1) /\ ~(c(0) >= 224 /\ Follow(2)) ->
               [size |-> 2, units |-> <<(c(0) % 32) * 64 + (c(1) % 64)>>]
          [] c(0) < 128 -> [size |-> 1, units |-> <<c(0)>>]
          [] OTHER -> [size |-> 0, units |-> <<>>]

(* From the place i on, up to the first invalid sequence. *)
RECURSIVE plist_utf8_to_utf16be(_, _)
plist_utf8_to_utf16be(s, i) ==
    IF i > Len(s) THEN <<>>
    ELSE IF Character(s, i).size = 0 THEN <<>>
    ELSE Character(s, i).units \o plist_utf8_to_utf16be(s, i + Character(s, i).size)

(* lead holds what a lead surrogate said, until a trail surrogate comes.   *)
RECURSIVE plist_utf16be_to_utf8(_, _)
plist_utf16be_to_utf8(units, lead) ==
    IF units = <<>> THEN <<>>
    ELSE LET u == Head(units)
             Rest(l) == plist_utf16be_to_utf8(Tail(units), l)
             Byte(x, n) == 128 + ((x \div 64^n) % 64)
             w == 65536 + 1024 * lead[1] + (u % 1024)
         IN  CASE u \in 55296..56319 ->
                    Rest(IF lead = <<>> THEN <<u % 1024>> ELSE <<>>)
               [] u \in 56320..57343 /\ lead = <<>> -> Rest(<<>>)
               [] u \in 56320..57343 /\ lead # <<>> ->
                    <<240 + w \div 262144, Byte(w, 2), Byte(w, 1), Byte(w, 0)>> \o Rest(<<>>)
               [] u \in 2048..55295 \cup 57344..65535 ->
                    <<224 + u \div 4096, Byte(u, 1), Byte(u, 0)>> \o Rest(lead)
               [] u \in 128..2047 -> <<192 + u \div 64, Byte(u, 0)>> \o Rest(lead)
               [] OTHER -> <<u>> \o Rest(lead)

-----------------------------------------------------------------------------
(* Writing. *)

(* plist_data_compare of two nodes that hash to the same bucket: values    *)
(* hash by what they are, data by its address, so that equal data may be   *)
(* found or not (shared); containers are equal to themselves only.         *)
Same(h, a, b, shared) ==
    /\ h[a].type = h[b].type
    /\ CASE h[a].type \in {"array", "dict"} -> a = b
         [] h[a].type = "data" -> a = b \/ (shared /\ h[a].val = h[b].val)
         [] OTHER -> h[a].val = h[b].val

(* serialize_plist: the nodes of a tree, but equal ones once. *)
Objects(h, n, shared) ==
    LET all == Preorder(h, n)
        IsNew(i) == ~\E j \in 1..(i - 1) : Same(h, all[j], all[i], shared)
        first == SelectSeq([i \in DOMAIN all |-> i], IsNew)
    IN  [k \in DOMAIN first |-> all[first[k]]]

(* A broken form: as many bytes as the value needs, three too. *)
WriteIntOfThree(v) == <<16 + Log2(get_needed_bytes(v))>> \o Low(v, get_needed_bytes(v))

write_int(v) == <<16 + Log2(NodeBytes(v))>> \o Low(v, NodeBytes(v))
write_uint(v) == <<20>> \o v
write_real(v) == IF v \in DOMAIN Floats THEN <<34>> \o Floats[v] ELSE <<35>> \o v
write_date(v) == <<51>> \o v
write_uid(v) ==
    LET low == Zeros(4) \o Low(v, 4)
    IN  <<128 + NodeBytes(low) - 1>> \o Low(low, NodeBytes(low))

(* The marker of a type with a size, which from 15 on follows as an int.   *)
Marker(mark, size) ==
    IF size < 15 THEN <<mark + size>>
    ELSE <<mark + 15>> \o write_int(Bytes(size, 8))

write_data(v)   == Marker(64, Len(v)) \o v
write_string(v) == Marker(80, Len(v)) \o v
write_unicode(v) ==
    LET units == plist_utf8_to_utf16be(v, 1)
    IN  Marker(96, Len(units)) \o FlattenSeq([i \in DOMAIN units |-> Bytes(units[i], 2)])

(* References to the nodes of a sequence, each of size bytes. *)
Refs(h, objects, nodes, shared, size) ==
    FlattenSeq([i \in DOMAIN nodes |->
        Bytes((CHOOSE o \in DOMAIN objects : Same(h, objects[o], nodes[i], shared)) - 1, size)])

write_array(h, n, objects, shared, ref_size) ==
    Marker(160, h[n].count) \o Refs(h, objects, Children(h, n), shared, ref_size)

(* All the keys, then all the items. *)
write_dict(h, n, objects, shared, ref_size) ==
    LET pairs == Children(h, n)
        size == h[n].count \div 2
    IN  Marker(208, size)
        \o Refs(h, objects, [i \in 1..size |-> pairs[2 * i - 1]], shared, ref_size)
        \o Refs(h, objects, [i \in 1..size |-> pairs[2 * i]], shared, ref_size)

Written(h, n, objects, shared, ref_size) ==
    LET v == h[n].val
    IN  CASE h[n].type = "bool"  -> <<IF v THEN 9 ELSE 8>>
          [] h[n].type = "uint"  -> IF Len(v) = 16 THEN write_uint(v) ELSE write_int(v)
          [] h[n].type = "uid"   -> write_uid(v)
          [] h[n].type = "real"  -> write_real(v)
          [] h[n].type = "date"  -> write_date(v)
          [] h[n].type = "data"  -> write_data(v)
          [] h[n].type \in {"key", "string"} ->
                IF is_ascii_string(v) THEN write_string(v) ELSE write_unicode(v)
          [] h[n].type = "array" -> write_array(h, n, objects, shared, ref_size)
          [] h[n].type = "dict"  -> write_dict(h, n, objects, shared, ref_size)

Magic == <<98, 112, 108, 105, 115, 116>>      \* "bplist"
Version == <<48, 48>>                         \* "00"

Trailer(offset_size, ref_size, num_objects, offset_table) ==
    Zeros(6) \o <<offset_size, ref_size>> \o Bytes(num_objects, 8) \o Bytes(0, 8)
        \o Bytes(offset_table, 8)

(* Where each of what is written from i on begins, and where it ends. *)
RECURSIVE Offsets(_, _, _)
Offsets(written, i, at) ==
    <<at>> \o IF i > Len(written) THEN <<>> ELSE Offsets(written, i + 1, at + Len(written[i]))

(* plist_to_bin.  The buffer grows when what was reserved does not do, so  *)
(* the size required is not computed here.                                 *)
plist_to_bin(h, n, shared) ==
    LET objects == Objects(h, n, shared)
        ref_size == NeededBytes(Len(objects))
        written == [i \in DOMAIN objects |->
                        Written(h, objects[i], objects, shared, ref_size)]
        offsets == Offsets(written, 1, Len(Magic \o Version))
        table == Last(offsets)
        offset_size == NeededBytes(table)
    IN  Magic \o Version \o FlattenSeq(written)
        \o FlattenSeq([i \in DOMAIN objects |-> Bytes(offsets[i], offset_size)])
        \o Trailer(offset_size, ref_size, Len(objects), table)

-----------------------------------------------------------------------------
(* Reading.  What is read of a file f is its bytes, and from its trailer   *)
(* the number of objects, the sizes of references and of offsets, and the  *)
(* offset of the table of offsets, where the objects end.                  *)

RECURSIVE parse_bin_node_at_index(_, _, _)

Ends(f, o, n) == o + n <= f.offset_table

(* Strings of C end at the first zero. *)
CString(s) == IF Contains(s, 0) THEN SubSeq(s, 1, SelectInSeq(s, LAMBDA c : c = 0) - 1) ELSE s

parse_uint_node(f, o, size) ==
    CASE size \in 0..3 -> [type |-> "uint", val |-> UINT_TO_HOST(f.bytes, o, Power2(size))]
      [] size = 4 -> [type |-> "uint", val |-> Zeros(8) \o UINT_TO_HOST(f.bytes, o, 16)]
      [] OTHER -> NoPlist

parse_real_node(f, o, size) ==
    LET v == SubSeq(f.bytes, o + 1, o + Power2(size))
    IN  CASE size = 2 -> [type |-> "real", val |-> CHOOSE d \in DOMAIN Floats : Floats[d] = v]
          [] size = 3 -> [type |-> "real", val |-> v]
          [] OTHER -> NoPlist

parse_date_node(f, o, size) == [parse_real_node(f, o, size) EXCEPT !.type = "date"]

parse_string_node(f, o, size) ==
    [type |-> "string", val |-> CString(SubSeq(f.bytes, o + 1, o + size))]

(* A string that has no unit is not read as the empty one. *)
parse_unicode_node(f, o, size) ==
    IF size = 0 THEN NoPlist
    ELSE [type |-> "string",
          val |-> plist_utf16be_to_utf8([i \in 1..size |-> Num(f.bytes, o + 2 * (i - 1), 2)],
                                        <<>>)]

parse_data_node(f, o, size) ==
    [type |-> "data", val |-> SubSeq(f.bytes, o + 1, o + size)]

(* Values over UINT32_MAX are too large for a UID. *)
parse_uid_node(f, o, size) ==
    LET v == UINT_TO_HOST(f.bytes, o, size + 1)
    IN  IF get_needed_bytes(v) = 8 THEN NoPlist ELSE [type |-> "uid", val |-> v]

(* The item that the i-th reference of those at o names. *)
Item(f, o, i, above) ==
    LET at == o + (i - 1) * f.ref_size
    IN  IF Ends(f, at, f.ref_size)
        THEN parse_bin_node_at_index(f, Num(f.bytes, at, f.ref_size), above)
        ELSE NoPlist

parse_array_node(f, o, size, above) ==
    LET items == [i \in 1..size |-> Item(f, o, i, above)]
    IN  IF \E i \in 1..size : items[i] = NoPlist THEN NoPlist
        ELSE [type |-> "array", items |-> items]

(* Only a string is a key. *)
parse_dict_node(f, o, size, above) ==
    LET refs == [i \in 1..(2 * size) |-> Item(f, o, i, above)]
    IN  IF \E i \in 1..(2 * size) : refs[i] = NoPlist \/ (i <= size /\ refs[i].type # "string")
        THEN NoPlist
        ELSE [type |-> "dict", items |-> [i \in 1..size |-> <<refs[i].val, refs[size + i]>>]]

(* The object at an offset. *)
parse_bin_node(f, at, above) ==
    LET type == f.bytes[at + 1] \div 16
        fill == f.bytes[at + 1] % 16
        Sized == {4, 5, 6, 10, 12, 13}
        long == fill = 15 /\ type \in Sized
        next == f.bytes[at + 2]
        next_size == Power2(next % 16)
        o == IF long THEN at + 2 + next_size ELSE at + 1
        size == IF long THEN Num(f.bytes, at + 2, next_size) ELSE fill
    IN  IF long /\ (next \div 16 # 1 \/ ~Ends(f, at + 2, next_size)) THEN NoPlist
        ELSE CASE type = 0 /\ size \in {8, 9} -> [type |-> "bool", val |-> size = 9]
               [] type = 1 /\ Ends(f, o, Power2(size)) -> parse_uint_node(f, o, size)
               [] type = 2 /\ Ends(f, o, Power2(size)) -> parse_real_node(f, o, size)
               [] type = 3 /\ size = 3 /\ Ends(f, o, 8) -> parse_date_node(f, o, size)
               [] type = 4 /\ Ends(f, o, size) -> parse_data_node(f, o, size)
               [] type = 5 /\ Ends(f, o, size) -> parse_string_node(f, o, size)
               [] type = 6 /\ Ends(f, o, 2 * size) -> parse_unicode_node(f, o, size)
               [] type = 8 /\ Ends(f, o, size + 1) -> parse_uid_node(f, o, size)
               [] type \in {10, 12} /\ Ends(f, o, size) -> parse_array_node(f, o, size, above)
               [] type = 13 /\ Ends(f, o, size) -> parse_dict_node(f, o, size, above)
               [] OTHER -> NoPlist

(* The object of an index.  above holds the indexes of the objects it is   *)
(* in, used_indexes up to the level: an object cannot be in itself.        *)
parse_bin_node_at_index(f, index, above) ==
    IF index >= f.num_objects \/ index \in above THEN NoPlist
    ELSE LET at == Num(f.bytes, f.offset_table + index * f.offset_size, f.offset_size)
         IN  IF at >= f.offset_table THEN NoPlist
             ELSE parse_bin_node(f, at, above \cup {index})

plist_from_bin(b) ==
    LET end == Len(b) - 32
        f == [bytes |-> b, offset_size |-> b[end + 7], ref_size |-> b[end + 8],
              num_objects |-> Num(b, end + 8, 8), offset_table |-> Num(b, end + 24, 8)]
        root == Num(b, end + 16, 8)
    IN  IF \/ end < 8 \/ SubSeq(b, 1, 8) # Magic \o Version
           \/ 0 \in {f.num_objects, f.offset_size, f.ref_size}
           \/ root >= f.num_objects
           \/ f.offset_table \notin 8..(end - 1)
           \/ f.offset_table + f.num_objects * f.offset_size > end
        THEN NoPlist
        ELSE parse_bin_node_at_index(f, root, {})
=============================================================================
