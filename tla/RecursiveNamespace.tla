------------------------- MODULE RecursiveNamespace -------------------------
(***************************************************************************)
(* lib/recursive_namespace.py: nested namespaces, and dictionaries, lists  *)
(* and scalars as YAML and the sheet give them.  The methods are operators *)
(* on values; module Config applies them one after another.                *)
(*                                                                         *)
(* A method that raises returns the exception.  One that stores, raising   *)
(* or not, leaves a tree behind: SetNested returns both.                   *)
(***************************************************************************)
EXTENDS Naturals, SequencesExt

CONSTANTS
  Names,    \* the keys of namespaces; an index of a list is a natural number
  Scalars   \* what is neither a dictionary nor a list

Leaf(x) == [kind |-> "leaf", leaf |-> x]
Space(entries) == [kind |-> "space", entries |-> entries]
Dict(entries) == [kind |-> "dict", entries |-> entries]
List(items) == [kind |-> "list", items |-> items]
Raised(error) == [kind |-> "raised", error |-> error]

NoEntries == [n \in {} |-> {}]
Raises(v) == v.kind = "raised"
\* Where get_nested and set_nested may go deeper.
Inner(v) == v.kind \in {"space", "list"}

-----------------------------------------------------------------------------
(* Conversion of dictionaries and back. *)

\* update and map_entry: dictionaries become namespaces, those in a list, too, but not
\* those in a list within a list.
RECURSIVE Converted(_)
Converted(v) ==
  CASE v.kind = "dict" -> Space([n \in DOMAIN v.entries |-> Converted(v.entries[n])])
    [] v.kind = "list" ->
         List([i \in DOMAIN v.items |->
                 IF v.items[i].kind = "dict" THEN Converted(v.items[i]) ELSE v.items[i]])
    [] OTHER -> v

\* Mutant of Update: the values are stored as they are.
UpdateAsIs(tree, d) == Space(d.entries @@ tree.entries)
Update(tree, d) == Space(Converted(d).entries @@ tree.entries)
FromDict(d) == Update(Space(NoEntries), d)

\* Mutant of ToDict: lists are taken as they are.
RECURSIVE ToDictNoLists(_)
ToDictNoLists(v) ==
  IF v.kind = "space" THEN Dict([n \in DOMAIN v.entries |-> ToDictNoLists(v.entries[n])]) ELSE v

RECURSIVE ToDict(_)
ToDict(v) ==
  CASE v.kind = "space" -> Dict([n \in DOMAIN v.entries |-> ToDict(v.entries[n])])
    [] v.kind = "list" ->
         List([i \in DOMAIN v.items |->
                 IF v.items[i].kind = "space" THEN ToDict(v.items[i]) ELSE v.items[i]])
    [] OTHER -> v

\* __eq__
Equal(v, w) == ToDict(v) = ToDict(w)

-----------------------------------------------------------------------------
(* Access by a sequence of keys. *)

\* tree[key]: __getitem__, or that of a Python list.
GetItem(tree, key) ==
  CASE tree.kind = "space" ->
         IF key \in DOMAIN tree.entries THEN tree.entries[key] ELSE Raised("AttributeError")
    [] tree.kind = "list" ->
         IF key \in Names THEN Raised("TypeError")
         ELSE IF key < Len(tree.items) THEN tree.items[key + 1] ELSE Raised("IndexError")

\* Keys that are left over below a scalar are an AttributeError.
GoDeeper(v, key) ==
  CASE Raises(v) -> v
    [] Inner(v) -> GetItem(v, key)
    [] OTHER -> Raised("AttributeError")

GetNested(tree, keys) == FoldLeft(GoDeeper, tree, keys)

\* Mutant of Missing: it is a KeyError that is caught.
KeyErrorCaught(v) == v = Raised("KeyError")
Missing(v) == v = Raised("AttributeError")

GetNestedDefault(tree, keys, default) ==
  LET v == GetNested(tree, keys) IN IF Missing(v) THEN default ELSE v

\* What storing leaves: the tree, and the exception if there was one.
Stored(tree) == [tree |-> tree, raised |-> "nothing"]
Failed(tree, error) == [tree |-> tree, raised |-> error]

\* A dictionary becomes a namespace; a list stays as it is, with what is in it.
Given(value) == IF value.kind = "dict" THEN Converted(value) ELSE value

\* tree[key] = value: __setitem__, or that of a list.  A dictionary becomes one of the
\* class of tree, which a Config, at the top, is not made for: its __init__ takes no keys.
SetItem(top, tree, key, value) ==
  CASE tree.kind = "space" ->
         IF top /\ value.kind = "dict" THEN Failed(tree, "TypeError")
         ELSE IF key \notin Names THEN Failed(tree, "AttributeError")
         ELSE Stored(Space((key :> Given(value)) @@ tree.entries))
    [] tree.kind = "list" ->
         LET old == GetItem(tree, key)
         IN  IF Raises(old) THEN Failed(tree, old.error)
             ELSE Stored(List([tree.items EXCEPT ![key + 1] = value]))

\* Mutant of Creates: a namespace is created whether there is one or not.
CreatesAnew(tree, key, create) == create /\ tree.kind = "space"
\* A list has no __dict__ to look into (see SetNestedRecurse).
Creates(tree, key, create) ==
  create /\ tree.kind = "space" /\ key \notin DOMAIN tree.entries

RECURSIVE SetNestedRecurse(_, _, _, _, _)
SetNestedRecurse(top, tree, keys, value, create) ==
  LET key == Head(keys)
      created == IF Creates(tree, key, create) THEN SetItem(top, tree, key, Space(NoEntries))
                 ELSE Stored(tree)
      next == GetItem(created.tree, key)
      below == SetNestedRecurse(FALSE, next, Tail(keys), value, create)
  IN  CASE keys = << >> -> Failed(tree, "IndexError")
        [] Len(keys) = 1 -> SetItem(top, tree, key, value)
        [] Len(keys) > 1 ->
             IF create /\ tree.kind = "list" THEN Failed(tree, "AttributeError")
             ELSE IF created.raised # "nothing" THEN created
             ELSE IF Raises(next) THEN Failed(created.tree, next.error)
             ELSE IF Inner(next)
                  THEN [below EXCEPT !.tree = SetItem(top, created.tree, key, @).tree]
             ELSE Failed(created.tree, "AttributeError")

SetNested(tree, keys, value, create) ==
  SetNestedRecurse(TRUE, tree, keys, Given(value), create)

-----------------------------------------------------------------------------
(* Flattening and merging. *)

\* Mutant of FirstIndex: the indices of a flat key begin at 1.
FromOne == 1
FirstIndex == 0

\* flatten, as the set of its items: lists of lists are not entered.
RECURSIVE FlattenBelow(_, _)
FlattenBelow(root, tree) ==
  UNION {LET v == tree.entries[n]
             key == Append(root, n)
         IN  CASE v.kind = "space" -> FlattenBelow(key, v)
               [] v.kind = "list" ->
                    UNION {LET item == v.items[i]
                               list_key == Append(key, i - 1 + FirstIndex)
                           IN  IF item.kind = "space" THEN FlattenBelow(list_key, item)
                               ELSE {<<list_key, item>>} : i \in DOMAIN v.items}
               [] OTHER -> {<<key, v>>} : n \in DOMAIN tree.entries}

Flatten(tree) == FlattenBelow(<< >>, tree)
FlatKeys(tree) == {item[1] : item \in Flatten(tree)}

\* Mutant of Merge: the levels below the first are replaced, as update does.
MergeTop(tree, other) == Space(other.entries @@ tree.entries)

\* No entry of a namespace is a dictionary, so __setitem__ has nothing to convert here.
RECURSIVE Merge(_, _)
Merge(tree, other) ==
  LET mine == tree.entries
      theirs == other.entries
      Both(n) == n \in DOMAIN mine /\ mine[n].kind = "space" /\ theirs[n].kind = "space"
  IN  Space([n \in DOMAIN theirs |-> IF Both(n) THEN Merge(mine[n], theirs[n]) ELSE theirs[n]]
            @@ mine)
=============================================================================
