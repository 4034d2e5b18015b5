----------------------------- MODULE Flattening -----------------------------
(***************************************************************************)
(* flatten_payload, which the rules and discovery read every payload       *)
(* through, and what a path of a profile finds in its result.              *)
(***************************************************************************)
EXTENDS Onboarding

CONSTANT Indexed   \* <<segment, index>> -> the segment "items[0]" of items, 0

(* A Python dict keeps the place of a key that is set again.               *)
SetDefault(flat, item) ==
  IF item[1] \in Paths(flat) THEN flat ELSE Append(flat, item)

SetItem(flat, item) ==
  IF item[1] \in Paths(flat)
    THEN [i \in DOMAIN flat |-> IF flat[i][1] = item[1] THEN item ELSE flat[i]]
    ELSE Append(flat, item)

Update(flat, other) == FoldLeft(SetItem, flat, other)

(* The path of the i-th element of the list at a path.                     *)
Element(path, i) == Append(Front(path), Indexed[<<Last(path), i - 1>>])

(* A scalar in a list has no key and is found nowhere.                     *)
RECURSIVE FlattenPayload(_, _)
FlattenPayload(node, prefix) ==
  CASE "doc" \in DOMAIN node ->
         FoldLeft(LAMBDA out, entry :
                    LET path == prefix \o entry[1] IN
                    IF "value" \in DOMAIN entry[2]
                      THEN SetDefault(SetItem(out, <<path, entry[2].value>>),
                                      <<entry[1], entry[2].value>>)
                      ELSE Update(out, FlattenPayload(entry[2], path)),
                  <<>>, node.doc)
    [] "list" \in DOMAIN node ->
         FoldLeftDomain(LAMBDA out, i :
                          Update(out, FlattenPayload(node.list[i], Element(prefix, i))),
                        <<>>, node.list)
    [] OTHER -> <<>>

(* A webhook or a sample is an object.                                     *)
Flattened(doc) == FlattenPayload([doc |-> doc], <<>>)

----------------------------------------------------------------------------
(* The values of a document in the order of the JSON text, each with its   *)
(* path and its key.                                                       *)
RECURSIVE Leaves(_, _)
Leaves(node, prefix) ==
  CASE "doc" \in DOMAIN node ->
         FlattenSeq([i \in DOMAIN node.doc |->
           LET key == node.doc[i][1]
               child == node.doc[i][2]
           IN IF "value" \in DOMAIN child
                THEN <<[path |-> prefix \o key, key |-> key, value |-> child.value]>>
                ELSE Leaves(child, prefix \o key)])
    [] "list" \in DOMAIN node ->
         FlattenSeq([i \in DOMAIN node.list |->
                       Leaves(node.list[i], Element(prefix, i))])
    [] OTHER -> <<>>

(***************************************************************************)
(* Whichever values claim a name: every path of the payload is found, and  *)
(* what stands under a name is a value that has it for its path or for its *)
(* bare key, and comes in the payload no earlier than the last value whose *)
(* path it is.  A key alone thus never hides a path that follows it.       *)
(***************************************************************************)
EntriesAreTheirOwn ==
  payload # None =>
    LET leaves == Leaves([doc |-> payload], <<>>)
        flat == Flattened(payload)
    IN /\ {leaf.path : leaf \in Range(leaves)} \subseteq Paths(flat)
       /\ \A p \in Paths(flat) : \E j \in DOMAIN leaves :
            /\ p \in {leaves[j].path, leaves[j].key}
            /\ leaves[j].value = ValueAt(flat, p)
            /\ \A i \in DOMAIN leaves : leaves[i].path = p => i <= j
=============================================================================
