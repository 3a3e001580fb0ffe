------------------------------- MODULE Config -------------------------------
(***************************************************************************)
(* lib/config.py: a namespace that is loaded from a YAML file, changed by  *)
(* the methods of RecursiveNamespace in any order, and saved.              *)
(*                                                                         *)
(* An overlay is loaded for the merge and dropped: that merge stores the   *)
(* overlay's own sub-namespaces, not copies, is of no consequence then.    *)
(***************************************************************************)
EXTENDS RecursiveNamespace

CONSTANTS
  Dicts,    \* what files hold: dictionaries
  Values,   \* what is set: scalars, dictionaries, lists
  MaxSet,   \* bound on the number of keys in a set_nested that is carried out
  MaxKeys   \* bound on the number of keys in the calls the properties are about

ASSUME ConfigAssumption ==
  /\ MaxSet \in Nat /\ MaxKeys \in Nat
  /\ \A d \in Dicts : d.kind = "dict"
  /\ \A v \in Values : v.kind \in {"leaf", "dict", "list"}

VARIABLE config

Empty == Dict(NoEntries)
Keys == Names \cup {0, 1}
Paths(n) == UNION {[1 .. k -> Keys] : k \in 0 .. n}

\* safe_dump represents dictionaries, lists and scalars only.
RECURSIVE Plain(_)
Plain(v) ==
  CASE v.kind = "space" -> FALSE
    [] v.kind = "dict" -> \A n \in DOMAIN v.entries : Plain(v.entries[n])
    [] v.kind = "list" -> \A i \in DOMAIN v.items : Plain(v.items[i])
    [] OTHER -> TRUE

\* The file is opened, and so emptied, before anything is represented.
Saved(tree) == IF Plain(ToDict(tree)) THEN ToDict(tree) ELSE Empty

\* An empty file is an empty configuration.
FromFile(content) == FromDict(content)

Init == \E d \in Dicts : config = FromFile(d)

SetKey(key, value) == config' = SetItem(TRUE, config, key, value).tree
Set(keys, value, create) == config' = SetNested(config, keys, value, create).tree
Overlay(d) == config' = Merge(config, FromFile(d))
UpdateWith(d) == config' = Update(config, d)
Restart == config' = FromFile(Saved(config))

Next ==
  \/ \E key \in Keys, v \in Values : SetKey(key, v)
  \/ \E keys \in Paths(MaxSet), v \in Values, create \in BOOLEAN : Set(keys, v, create)
  \/ \E d \in Dicts : Overlay(d) \/ UpdateWith(d)
  \/ Restart

Spec == Init /\ [][Next]_config

-----------------------------------------------------------------------------
(* Properties. *)

\* The methods are total: whatever was stored before, a namespace holds namespaces, lists
\* and scalars, never a dictionary.
RECURSIVE WellFormed(_)
WellFormed(v) ==
  CASE v.kind = "space" ->
         \A n \in DOMAIN v.entries : n \in Names /\ WellFormed(v.entries[n])
    [] v.kind = "list" ->
         \A i \in DOMAIN v.items :
           v.items[i].kind = "dict" \/ WellFormed(v.items[i])
    [] v.kind = "leaf" -> v.leaf \in Scalars
    [] OTHER -> FALSE

TypeOK == config.kind = "space" /\ WellFormed(config)

\* The keys of flatten are those of get_nested: each leads to the value flatten gives, none
\* leads past another, and every sequence of keys that leads to a scalar has one of them as
\* its beginning.
FlatKeysLead ==
  /\ \A item \in Flatten(config) : GetNested(config, item[1]) = item[2]
  /\ \A k, l \in FlatKeys(config) : IsPrefix(k, l) => k = l
  /\ \A path \in Paths(MaxKeys) :
       GetNested(config, path).kind = "leaf" => \E k \in FlatKeys(config) : IsPrefix(k, path)

\* get_nested_default never raises, and gives the default for what is not there, as long as
\* the keys do not lead through a list; the thresholds of a board are read without a handler.
DefaultGiven ==
  \A path \in Paths(MaxKeys) :
    (\A p \in Prefixes(path) : GetNested(config, p).kind # "list") =>
      GetNestedDefault(config, path, Leaf("default")) =
        IF Raises(GetNested(config, path)) THEN Leaf("default") ELSE GetNested(config, path)

Apart(k, l) == ~ IsPrefix(k, l) /\ ~ IsPrefix(l, k)
Elsewhere(tree, keys) == {item \in Flatten(tree) : Apart(item[1], keys)}

\* set_nested changes what its keys lead to and no value beside it, along whatever lists and
\* namespaces they lead; one that raises may leave empty namespaces but changes no value.
SetsOnlyThere ==
  \A keys \in Paths(MaxKeys), v \in Values, create \in BOOLEAN :
    LET outcome == SetNested(config, keys, v, create)
    IN  IF outcome.raised = "nothing"
        THEN /\ GetNested(outcome.tree, keys) = Given(v)
             /\ Elsewhere(outcome.tree, keys) = Elsewhere(config, keys)
        ELSE Flatten(outcome.tree) = Flatten(config)

\* Whether the overlay's value replaces the one at these keys, where one of the two is no
\* namespace.
Replaces(overlay, keys) ==
  /\ ~ Raises(GetNested(overlay, keys))
  /\ GetNested(overlay, keys).kind # "space" \/ GetNested(config, keys).kind # "space"

\* merge: "You want to preserve the base keys and overwrite the overlay keys where defined".
\* After it there are the overlay's values, and those of the base on whose way nothing was
\* replaced.
MergeOverlays ==
  \A d \in Dicts :
    LET overlay == FromDict(d)
    IN  Flatten(Merge(config, overlay)) = Flatten(overlay) \cup
          {item \in Flatten(config) : \A p \in Prefixes(item[1]) : ~ Replaces(overlay, p)}

\* No list in a list.
RECURSIVE ListsFlat(_)
ListsFlat(v) ==
  CASE v.kind = "space" -> \A n \in DOMAIN v.entries : ListsFlat(v.entries[n])
    [] v.kind = "list" ->
         \A i \in DOMAIN v.items : v.items[i].kind # "list" /\ ListsFlat(v.items[i])
    [] OTHER -> TRUE

\* However a configuration without lists of lists came about, it can be saved, and what is
\* loaded then equals it.
SavedIsLoaded == ListsFlat(config) => Equal(FromFile(Saved(config)), config)
=============================================================================
