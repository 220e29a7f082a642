------------------------------- MODULE Json -------------------------------
(* cJSON, the library that builds, prints and parses what the two ends of iperf send *)
(* each other, down to its pointers: a pool of memory blocks that hold items or strings. *)
(* The callers keep to the header: they add an item to one place, change no item while *)
(* a reference shows it, and delete what they own. Anything may run out of memory. *)
EXTENDS Naturals, FiniteSets, FiniteSetsExt, Sequences, SequencesExt, TLC

CONSTANTS MaxBlocks,            \* blocks malloc can hand out
          MaxCalls,             \* bound: calls of the library
          CJSON_NESTING_LIMIT   \* 1000 in cjson.h

Blocks == 1..MaxBlocks
NULL == 0
Texts == {<<"\"", "\n">>}               \* the string values: characters to escape
Names == {<<"a">>}                      \* the keys that are copied
Escape == ("\"" :> "\"") @@ ("\\" :> "\\") @@ ("\n" :> "n")
Literals == [p \in MaxBlocks + 1..MaxBlocks + 1 |-> <<"b">>]    \* the keys that are not
Kinds == {"Array", "Object", "String", "Number"}   \* Number: any kind that is only a value
NoName == <<"no name">>

VARIABLES mem,      \* the blocks
          roots,    \* the items the callers own
          crashed,  \* a null pointer was followed
          calls     \* the calls made so far

vars == <<mem, roots, crashed, calls>>

Free == [is |-> "free"]
Text(t) == [is |-> "text", text |-> t]
NewItem == [is |-> "item", kind |-> "Invalid", next |-> NULL, prev |-> NULL, child |-> NULL,
            string |-> NULL, valuestring |-> NULL, ref |-> FALSE, const |-> FALSE]

Alloc(m) == LET spare == {b \in Blocks : m[b].is = "free"}
            IN IF spare = {} THEN NULL ELSE Min(spare)
\* The block for string t, or none: allocate and fill.
Strdup(m, t) == LET p == Alloc(m) IN [p |-> p, m |-> IF p = NULL THEN m ELSE [m EXCEPT ![p] = Text(t)]]

TextAt(m, p) == IF p > MaxBlocks THEN Literals[p] ELSE m[p].text

RECURSIVE Chain(_, _)
Chain(m, p) == IF p = NULL THEN <<>> ELSE <<p>> \o Chain(m, m[p].next)
Kids(m, c) == Chain(m, m[c].child)

RECURSIVE Freed(_, _)
\* The blocks cJSON_Delete(p) frees: p, all that follows it in its list, and what they own.
Freed(m, p) ==
  IF p = NULL THEN {}
  ELSE {p} \cup Freed(m, m[p].next)
       \cup (IF m[p].ref THEN {} ELSE Freed(m, m[p].child) \cup ({m[p].valuestring} \ {NULL}))
       \cup (IF m[p].const THEN {} ELSE {m[p].string} \ {NULL})

cJSON_Delete(m, p) == [b \in Blocks |-> IF b \in Freed(m, p) THEN Free ELSE m[b]]

---------------------------------------------------------------------------
(* The calls that change lists, as functions of the memory. *)

cJSON_AddItemToArray(m, a, i) ==
  IF i = NULL THEN m
  ELSE IF m[a].child = NULL THEN [m EXCEPT ![a].child = i]
  ELSE LET last == Last(Kids(m, a)) IN [m EXCEPT ![last].next = i, ![i].prev = last]

\* Mutant: the key the item had before is not freed.
cJSON_AddItemToObjectCS_Leak(m, o, string, i) ==
  cJSON_AddItemToArray([m EXCEPT ![i].string = string, ![i].const = TRUE], o, i)

cJSON_AddItemToObjectCS(m, o, string, i) ==
  LET old == m[i].string
      unnamed == IF ~m[i].const /\ old # NULL THEN [m EXCEPT ![old] = Free] ELSE m
  IN cJSON_AddItemToArray([unnamed EXCEPT ![i].string = string, ![i].const = TRUE], o, i)

\* The key is copied; without memory for it the item is added without a name.
cJSON_AddItemToObject(m, o, t, i) ==
  LET key == Strdup(m, t)
  IN [cJSON_AddItemToObjectCS(key.m, o, key.p, i) EXCEPT ![i].const = FALSE]

create_reference(m, i, r) ==
  [m EXCEPT ![r] = [m[i] EXCEPT !.string = NULL, !.ref = TRUE, !.next = NULL, !.prev = NULL]]

cJSON_DetachItemViaPointer(m, parent, i) ==
  LET prev == m[i].prev
      next == m[i].next
      m1 == IF prev = NULL THEN m ELSE [m EXCEPT ![prev].next = next]
      m2 == IF next = NULL THEN m1 ELSE [m1 EXCEPT ![next].prev = prev]
      m3 == IF m[parent].child = i THEN [m2 EXCEPT ![parent].child = next] ELSE m2
  IN [m3 EXCEPT ![i].prev = NULL, ![i].next = NULL]

cJSON_InsertItemInArray(m, a, which, i) ==
  IF which >= Len(Kids(m, a)) THEN cJSON_AddItemToArray(m, a, i)
  ELSE LET after == Kids(m, a)[which + 1]
           prev == m[after].prev
           linked == [m EXCEPT ![i].next = after, ![i].prev = prev, ![after].prev = i]
       IN IF after = m[a].child THEN [linked EXCEPT ![a].child = i]
          ELSE [linked EXCEPT ![prev].next = i]

\* Mutant: the items after the replaced one are not linked to the new one.
cJSON_ReplaceItemViaPointer_DropNext(m, parent, i, new) ==
  LET prev == m[i].prev
      m1 == [m EXCEPT ![new].prev = prev]
      m2 == IF prev = NULL THEN m1 ELSE [m1 EXCEPT ![prev].next = new]
      m3 == IF m[parent].child = i THEN [m2 EXCEPT ![parent].child = new] ELSE m2
  IN cJSON_Delete([m3 EXCEPT ![i].next = NULL, ![i].prev = NULL], i)

cJSON_ReplaceItemViaPointer(m, parent, i, new) ==
  LET prev == m[i].prev
      next == m[i].next
      m1 == [m EXCEPT ![new].next = next, ![new].prev = prev]
      m2 == IF next = NULL THEN m1 ELSE [m1 EXCEPT ![next].prev = new]
      m3 == IF prev = NULL THEN m2 ELSE [m2 EXCEPT ![prev].next = new]
      m4 == IF m[parent].child = i THEN [m3 EXCEPT ![parent].child = new] ELSE m3
  IN cJSON_Delete([m4 EXCEPT ![i].next = NULL, ![i].prev = NULL], i)

\* The first item of object o with name t (names that differ only in letter case are one name).
get_object_item(m, o, t) ==
  LET Named(i) == m[i].string # NULL /\ TextAt(m, m[i].string) = t
      found == SelectSeq(Kids(m, o), Named)
  IN IF found = <<>> THEN NULL ELSE Head(found)

\* cJSON_CreateArray, cJSON_CreateObject, cJSON_CreateNumber, cJSON_CreateString, ...:
\* [p |-> the item or NULL, m |-> the memory then]
cJSON_Create(m, kind) ==
  LET p == Alloc(m)
      made == [m EXCEPT ![p] = [NewItem EXCEPT !.kind = kind]]
      copy == Strdup(made, CHOOSE t \in Texts : TRUE)
  IN IF p = NULL THEN [p |-> NULL, m |-> m]
     ELSE IF kind # "String" THEN [p |-> p, m |-> made]
     ELSE IF copy.p = NULL THEN [p |-> NULL, m |-> cJSON_Delete(made, p)]
     ELSE [p |-> p, m |-> [copy.m EXCEPT ![p].valuestring = copy.p]]

\* The copy d, [p |-> item, m |-> memory], with the string of item i that key names copied too.
Duplicated(d, i, key) ==
  LET WithString(copy) ==
        IF copy.p = NULL THEN [p |-> NULL, m |-> cJSON_Delete(copy.m, d.p)]
        ELSE [p |-> d.p, m |-> [copy.m EXCEPT ![d.p][key] = copy.p]]
      old == d.m[i][key]
  IN IF d.p = NULL \/ old = NULL THEN d
     ELSE IF key = "string" /\ d.m[i].const THEN [d EXCEPT !.m[d.p].string = old]
     ELSE WithString(Strdup(d.m, d.m[old].text))

RECURSIVE cJSON_Duplicate(_, _, _)
\* [p |-> the copy of item i or NULL, m |-> the memory then]
cJSON_Duplicate(m, i, recurse) ==
  LET Added(acc, d) ==
        IF d.p = NULL THEN [p |-> NULL, m |-> cJSON_Delete(d.m, acc.p)]
        ELSE [p |-> acc.p, m |-> cJSON_AddItemToArray(d.m, acc.p, d.p)]
      AddChild(acc, child) ==
        IF acc.p = NULL THEN acc ELSE Added(acc, cJSON_Duplicate(acc.m, child, TRUE))
      WithChildren(d) == IF d.p = NULL \/ ~recurse THEN d ELSE FoldLeft(AddChild, d, Kids(m, i))
      New(p) == [p |-> p, m |-> [m EXCEPT ![p] = [NewItem EXCEPT !.kind = m[i].kind,
                                                                 !.const = m[i].const]]]
  IN IF Alloc(m) = NULL THEN [p |-> NULL, m |-> m]
     ELSE WithChildren(Duplicated(Duplicated(New(Alloc(m)), i, "valuestring"), i, "string"))

---------------------------------------------------------------------------
(* The text of an item, as a sequence of characters; "7" is any value without a text. *)

print_string_ptr(t) ==
  <<"\"">> \o FlattenSeq([k \in DOMAIN t |->
                IF t[k] \in DOMAIN Escape THEN <<"\\", Escape[t[k]]>> ELSE <<t[k]>>]) \o <<"\"">>

Space(format, w) == IF format THEN w ELSE <<>>

RECURSIVE print_value(_, _, _)

print_array(m, i, format) ==
  LET kids == Kids(m, i)
      Element(k) == print_value(m, kids[k], format)
                    \o (IF m[kids[k]].next = NULL THEN <<>> ELSE <<",">> \o Space(format, <<" ">>))
  IN <<"[">> \o FlattenSeq([k \in DOMAIN kids |-> Element(k)]) \o <<"]">>

print_object(m, i, format) ==
  LET kids == Kids(m, i)
      Key(p) == print_string_ptr(IF m[p].string = NULL THEN <<>> ELSE TextAt(m, m[p].string))
      Member(p) == Space(format, <<"\t">>) \o Key(p) \o <<":">> \o Space(format, <<"\t">>)
                   \o print_value(m, p, format)
                   \o (IF m[p].next = NULL THEN <<>> ELSE <<",">>) \o Space(format, <<"\n">>)
  IN <<"{">> \o Space(format, <<"\n">>) \o FlattenSeq([k \in DOMAIN kids |-> Member(kids[k])])
     \o <<"}">>

print_value(m, i, format) ==
  CASE m[i].kind = "Number" -> <<"7">>
    [] m[i].kind = "String" -> print_string_ptr(m[m[i].valuestring].text)
    [] m[i].kind = "Array"  -> print_array(m, i, format)
    [] m[i].kind = "Object" -> print_object(m, i, format)

(* The parser: s is [ok, m, pos, depth], the memory and the place in the text. *)

At(text, s) == IF s.pos <= Len(text) THEN text[s.pos] ELSE "end"

RECURSIVE buffer_skip_whitespace(_, _)
buffer_skip_whitespace(text, s) ==
  IF At(text, s) \in {" ", "\t", "\n"}
    THEN buffer_skip_whitespace(text, [s EXCEPT !.pos = @ + 1]) ELSE s

Step(text, s) == buffer_skip_whitespace(text, [s EXCEPT !.pos = @ + 1])

RECURSIVE Unquoted(_, _)
\* [ok, pos, text]: the characters from pos to the closing quote, and the place after it.
Unquoted(text, q) ==
  LET c == At(text, q)
      escaped == At(text, [q EXCEPT !.pos = @ + 1])
      Meaning == {e \in DOMAIN Escape : Escape[e] = escaped}
  IN CASE c = "\"" -> [q EXCEPT !.pos = @ + 1]
       [] c = "end" -> [q EXCEPT !.ok = FALSE]
       [] c = "\\" /\ Meaning = {} -> [q EXCEPT !.ok = FALSE]
       [] c = "\\" /\ Meaning # {} ->
            Unquoted(text, [q EXCEPT !.pos = @ + 2, !.text = Append(@, CHOOSE e \in Meaning : TRUE)])
       [] OTHER -> Unquoted(text, [q EXCEPT !.pos = @ + 1, !.text = Append(@, c)])

\* The characters that Unquoted found, q, become the value of item i.
SetString(s, q, copy, i) ==
  IF ~q.ok \/ copy.p = NULL THEN [s EXCEPT !.ok = FALSE]
  ELSE [s EXCEPT !.pos = q.pos, !.m = [copy.m EXCEPT ![i].kind = "String", ![i].valuestring = copy.p]]

parse_string(text, s, i) ==
  LET Stored(q) == SetString(s, q, Strdup(s.m, q.text), i)
  IN Stored(Unquoted(text, [ok |-> At(text, s) = "\"", pos |-> s.pos + 1, text |-> <<>>]))

\* An object's element starts with its name, which parse_string leaves in valuestring.
parse_name(text, s, i) ==
  LET Colon(named) == [Step(text, named) EXCEPT
                         !.ok = At(text, named) = ":",
                         !.m[i].string = named.m[i].valuestring, !.m[i].valuestring = NULL]
      Named(named) == IF named.ok THEN Colon(buffer_skip_whitespace(text, named)) ELSE named
  IN Named(parse_string(text, s, i))

RECURSIVE parse_value(_, _, _)
RECURSIVE parse_elements(_, _, _, _, _)
\* From the character before an element to the one after the last: the list is in s.head.
parse_elements(text, s, kind, head, current) ==
  LET new == Alloc(s.m)
      first == IF head = NULL THEN new ELSE head
      Linked(made) == IF current = NULL THEN made ELSE [made EXCEPT ![current].next = new]
      Named(start) == IF kind = "Object" THEN parse_name(text, start, new) ELSE start
      Valued(named) == IF named.ok THEN parse_value(text, named, new) ELSE named
      Fail(r, list) == [r EXCEPT !.ok = FALSE, !.m = cJSON_Delete(r.m, list)]
      Ended(done) ==
        IF ~done.ok THEN Fail(done, first)
        ELSE IF At(text, done) = "," THEN parse_elements(text, done, kind, first, new)
        ELSE IF At(text, done) # (IF kind = "Array" THEN "]" ELSE "}") THEN Fail(done, first)
        ELSE [done EXCEPT !.head = first]
      start == Step(text, [s EXCEPT !.m = Linked([s.m EXCEPT ![new] = [NewItem EXCEPT !.prev = current]])])
  IN IF new = NULL THEN Fail(s, head)
     ELSE Ended(buffer_skip_whitespace(text, Valued(Named(start))))

\* The list between the brackets, from the first character behind the opening one.
parse_items(text, in, kind) ==
  IF At(text, in) = (IF kind = "Array" THEN "]" ELSE "}") THEN in
  ELSE parse_elements(text, [in EXCEPT !.pos = @ - 1], kind, NULL, NULL)

\* Mutant: the nesting is not counted down at the end of a list.
parse_list_KeepDepth(text, s, i, kind) ==
  LET Closed(list) == IF ~list.ok THEN list
                      ELSE [list EXCEPT !.pos = @ + 1, !.m[i].kind = kind, !.m[i].child = list.head]
  IN IF s.depth >= CJSON_NESTING_LIMIT THEN [s EXCEPT !.ok = FALSE]
     ELSE Closed(parse_items(text, Step(text, [s EXCEPT !.depth = @ + 1, !.head = NULL]), kind))

parse_list(text, s, i, kind) ==
  LET Closed(list) == IF ~list.ok THEN list
                      ELSE [list EXCEPT !.depth = @ - 1, !.pos = @ + 1,
                                        !.m[i].kind = kind, !.m[i].child = list.head]
  IN IF s.depth >= CJSON_NESTING_LIMIT THEN [s EXCEPT !.ok = FALSE]
     ELSE Closed(parse_items(text, Step(text, [s EXCEPT !.depth = @ + 1, !.head = NULL]), kind))

parse_array(text, s, i) == parse_list(text, s, i, "Array")
parse_object(text, s, i) == parse_list(text, s, i, "Object")

parse_value(text, s, i) ==
  CASE At(text, s) = "7"  -> [s EXCEPT !.m[i].kind = "Number", !.pos = @ + 1]
    [] At(text, s) = "\"" -> parse_string(text, s, i)
    [] At(text, s) = "["  -> parse_array(text, s, i)
    [] At(text, s) = "{"  -> parse_object(text, s, i)
    [] OTHER -> [s EXCEPT !.ok = FALSE]

\* The value of the new item p.
parse_root(m, text, p) ==
  parse_value(text, buffer_skip_whitespace(text,
    [ok |-> TRUE, m |-> [m EXCEPT ![p] = NewItem], pos |-> 1, depth |-> 0, head |-> NULL]), p)

\* Mutant: the root item is not deleted when its value cannot be parsed.
cJSON_Parse_KeepItem(m, text) ==
  LET Parsed(p, s) == [p |-> IF s.ok THEN p ELSE NULL, m |-> s.m]
  IN IF Alloc(m) = NULL THEN [p |-> NULL, m |-> m]
     ELSE Parsed(Alloc(m), parse_root(m, text, Alloc(m)))

\* [p |-> the item the text stands for or NULL, m |-> the memory then]
cJSON_Parse(m, text) ==
  LET Parsed(p, s) == IF s.ok THEN [p |-> p, m |-> s.m] ELSE [p |-> NULL, m |-> cJSON_Delete(s.m, p)]
  IN IF Alloc(m) = NULL THEN [p |-> NULL, m |-> m]
     ELSE Parsed(Alloc(m), parse_root(m, text, Alloc(m)))

---------------------------------------------------------------------------
Items == {b \in Blocks : mem[b].is = "item"}
Lists == {c \in Items : mem[c].kind \in {"Array", "Object"}}

RECURSIVE Below(_)
\* The items item i shows, through references too.
Below(i) == {i} \cup UNION {Below(k) : k \in ToSet(Kids(mem, i))}

\* What the callers keep to: nothing that a reference shows is changed or deleted.
References == {r \in Items : mem[r].ref}
Unshared(c) == ~\E r \in References : mem[r].child # NULL /\ mem[r].child = mem[c].child
Changeable == {c \in Lists : ~mem[c].ref /\ Unshared(c)}
Deletable(m, i) == \A r \in References :
  r \in Freed(m, i) \/ {m[r].child, m[r].valuestring} \cap Freed(m, i) = {}
FitsIn(i, c) == i \in roots /\ c \notin Below(i)

Init == /\ mem = [b \in Blocks |-> Free]
        /\ roots = {}
        /\ crashed = FALSE
        /\ calls = 0

\* A call returns item r.p, or NULL, to its caller.
Returns(r) == /\ mem' = r.m
              /\ roots' = roots \cup ({r.p} \ {NULL})
              /\ UNCHANGED crashed

CreateItem == \E kind \in Kinds \ {"String"} : Returns(cJSON_Create(mem, kind))

\* cJSON_AddNumberToObject and its like: without memory for the item an object's item->type
\* is read through NULL.
AddNewItem == \E c \in Changeable, kind \in {"String", "Number"}, t \in Names :
  LET new == cJSON_Create(mem, kind)
  IN /\ IF mem[c].kind = "Array" THEN /\ mem' = cJSON_AddItemToArray(new.m, c, new.p)
                                     /\ UNCHANGED crashed
        ELSE IF new.p = NULL THEN /\ crashed' = TRUE
                                  /\ UNCHANGED mem
        ELSE /\ mem' = cJSON_AddItemToObject(new.m, c, t, new.p)
             /\ UNCHANGED crashed
     /\ UNCHANGED roots

AddItemToArray == \E a \in Changeable, i \in roots :
  /\ mem[a].kind = "Array" /\ FitsIn(i, a)
  /\ mem' = cJSON_AddItemToArray(mem, a, i)
  /\ roots' = roots \ {i}
  /\ UNCHANGED crashed

AddItemToObject == \E o \in Changeable, i \in roots, t \in Names :
  /\ mem[o].kind = "Object" /\ FitsIn(i, o)
  /\ mem' = cJSON_AddItemToObject(mem, o, t, i)
  /\ roots' = roots \ {i}
  /\ UNCHANGED crashed

AddItemToObjectCS == \E o \in Changeable, i \in roots, p \in DOMAIN Literals :
  /\ mem[o].kind = "Object" /\ FitsIn(i, o)
  /\ mem' = cJSON_AddItemToObjectCS(mem, o, p, i)
  /\ roots' = roots \ {i}
  /\ UNCHANGED crashed

AddItemReference == \E c \in Changeable, i \in Items, t \in Names :
  LET r == Alloc(mem)
      made == create_reference(mem, i, r)
  IN /\ c \notin Below(i)
     /\ IF r = NULL THEN /\ crashed' = (mem[c].kind = "Object")
                         /\ UNCHANGED mem
        ELSE /\ mem' = IF mem[c].kind = "Array" THEN cJSON_AddItemToArray(made, c, r)
                       ELSE cJSON_AddItemToObject(made, c, t, r)
             /\ UNCHANGED crashed
     /\ UNCHANGED roots

\* cJSON_DetachItemFromArray
DetachItem == \E c \in Changeable : \E i \in ToSet(Kids(mem, c)) :
  /\ mem' = cJSON_DetachItemViaPointer(mem, c, i)
  /\ roots' = roots \cup {i}
  /\ UNCHANGED crashed

DeleteItemFromObject == \E o \in Changeable, t \in Names \cup Range(Literals) :
  LET i == get_object_item(mem, o, t)
      detached == cJSON_DetachItemViaPointer(mem, o, i)
  IN /\ mem[o].kind = "Object" /\ i # NULL
     /\ Deletable(detached, i)
     /\ mem' = cJSON_Delete(detached, i)
     /\ UNCHANGED <<roots, crashed>>

InsertItemInArray == \E a \in Changeable, i \in roots, which \in 0..MaxBlocks :
  /\ mem[a].kind = "Array" /\ FitsIn(i, a)
  /\ mem' = cJSON_InsertItemInArray(mem, a, which, i)
  /\ roots' = roots \ {i}
  /\ UNCHANGED crashed

Delete == \E i \in roots :
  /\ Deletable(mem, i)
  /\ mem' = cJSON_Delete(mem, i)
  /\ roots' = roots \ {i}
  /\ UNCHANGED crashed

Duplicate == \E i \in Items, recurse \in BOOLEAN :
  Returns(cJSON_Duplicate(mem, i, recurse))

\* cJSON_ReplaceItemInArray or ...InObject; an index or name that is not there is not looked for.
ReplaceItem == \E c \in Changeable, new \in roots :
  /\ FitsIn(new, c)
  /\ \E i \in ToSet(Kids(mem, c)) \cup {NULL} :
       IF i = NULL THEN /\ crashed' = TRUE
                        /\ UNCHANGED <<mem, roots>>
       ELSE /\ Deletable(cJSON_DetachItemViaPointer(mem, c, i), i)
            /\ mem[c].kind = "Object" => \E t \in Names \cup Range(Literals) : i = get_object_item(mem, c, t)
            /\ mem' = cJSON_ReplaceItemViaPointer(mem, c, i, new)
            /\ roots' = roots \ {new}
            /\ UNCHANGED crashed

\* JSON_write prints the item and sends the length before the text; JSON_read parses the text
\* only when as many characters came as the length says.
JSON_read(m, text, hsize, came) == IF came = hsize THEN cJSON_Parse(m, text) ELSE [p |-> NULL, m |-> m]

Transfer == \E i \in roots :
  LET text == print_value(mem, i, FALSE)
  IN \E came \in {Len(text) - 1, Len(text)} :
       Returns(JSON_read(mem, SubSeq(text, 1, came), Len(text), came))

Next == /\ ~crashed /\ calls < MaxCalls
        /\ calls' = calls + 1
        /\ \/ CreateItem \/ AddNewItem \/ Delete \/ Duplicate \/ Transfer
           \/ AddItemToArray \/ AddItemToObject \/ AddItemToObjectCS \/ AddItemReference
           \/ DetachItem \/ DeleteItemFromObject \/ InsertItemInArray \/ ReplaceItem

Spec == Init /\ [][Next]_vars
---------------------------------------------------------------------------
TypeOK ==
  /\ \A b \in Blocks : mem[b].is = "item" =>
       /\ mem[b].kind \in Kinds
       /\ {mem[b].next, mem[b].prev, mem[b].child, mem[b].valuestring} \subseteq Blocks \cup {NULL}
       /\ mem[b].string \in Blocks \cup DOMAIN Literals \cup {NULL}
  /\ roots \subseteq Items
  /\ crashed \in BOOLEAN /\ calls \in 0..MaxCalls

\* The blocks of memory an item is responsible for.
Owns(i) == (IF mem[i].ref THEN {} ELSE ToSet(Kids(mem, i)) \cup {mem[i].valuestring})
           \cup (IF mem[i].const THEN {} ELSE {mem[i].string})

\* Whatever is called in whatever order and whenever memory runs out, every block in use has
\* exactly one owner, a caller or an item: nothing leaks, and cJSON_Delete (cjson.c:181) frees
\* nothing twice; and no item, not even a reference, points to a block that was freed or is of
\* the other sort.
OwnedOnce ==
  /\ TypeOK
  /\ \A b \in Blocks :
       Cardinality({i \in Items : b \in Owns(i)}) + (IF b \in roots THEN 1 ELSE 0)
         = (IF mem[b].is = "free" THEN 0 ELSE 1)
  /\ \A i \in Items :
       /\ {mem[i].next, mem[i].prev, mem[i].child} \subseteq Items \cup {NULL}
       /\ {mem[i].string, mem[i].valuestring} \cap Blocks
            \subseteq {b \in Blocks : mem[b].is = "text"}

\* The pointers implement the forest of JsonForest: each call changes one sequence of items as it
\* should, deletes a whole subtree or nothing, and a copy, by cJSON_Duplicate or through the text,
\* has the value of the original.
Forest == INSTANCE JsonForest WITH
  forest <- [i \in Items |->
    [kind |-> mem[i].kind, ref |-> mem[i].ref, kids |-> Kids(mem, i),
     text |-> IF mem[i].valuestring = NULL THEN NoName ELSE mem[mem[i].valuestring].text,
     name |-> IF mem[i].string = NULL THEN NoName ELSE TextAt(mem, mem[i].string)]]
ImplementsForest == Forest!Spec

RECURSIVE Height(_)
Height(i) == IF i \notin Lists THEN 0 ELSE 1 + Max({0} \cup {Height(k) : k \in ToSet(Kids(mem, i))})
RECURSIVE Cost(_)
\* The blocks a parsed copy of item i takes, its name not counted.
Cost(i) == 1 + (IF mem[i].kind = "String" THEN 1 ELSE 0)
           + MapThenSumSet(LAMBDA k : Cost(k) + (IF mem[i].kind = "Object" THEN 1 ELSE 0),
                           ToSet(Kids(mem, i)))

\* The text of an item, formatted or not, can be parsed again as long as there is memory for the
\* copy and the nesting stays within CJSON_NESTING_LIMIT, and only then.
PrintedParses == \A i \in roots, format \in BOOLEAN :
  (cJSON_Parse(mem, print_value(mem, i, format)).p # NULL)
    <=> /\ Cost(i) <= Cardinality({b \in Blocks : mem[b].is = "free"})
        /\ Height(i) <= CJSON_NESTING_LIMIT

\* A parse that fails, because the text stops early or memory runs out anywhere in it, frees all
\* it allocated (the fail labels of cjson.c:993, 1370 and 1541).
FailedParseFreesAll == \A i \in roots :
  LET text == print_value(mem, i, TRUE)
      AllFreed(n, read) == IF n < Len(text) THEN read = [p |-> NULL, m |-> mem]
                           ELSE read.p = NULL => read.m = mem
  IN \A n \in 0..Len(text) : AllFreed(n, cJSON_Parse(mem, SubSeq(text, 1, n)))
===========================================================================
