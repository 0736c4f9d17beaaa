----------------------------- MODULE ValueTrees -----------------------------
(***************************************************************************)
(* What chromium/values.hh promises, without pointers: the caller holds    *)
(* independent values, a call changes one container inside one of them,    *)
(* and a value that is handed over is gone from the caller's hands. No     *)
(* call has an effect on any other value, and what a call does to its      *)
(* container is the textbook operation on finite maps and sequences.       *)
(***************************************************************************)
EXTENDS Integers, Sequences, FiniteSets, FiniteSetsExt, SequencesExt, Functions

CONSTANTS
    Handles,        \* names for the values the caller holds
    Keys,           \* dictionary keys, with a dot or without
    Path,           \* the path a key stands for, keys split at the dots
    Scalars,        \* values without parts
    MaxIndex        \* bound: list indices

VARIABLES
    tree,           \* handle -> value
    ret             \* what the last call returned; TRUE for void

Empty == {<<"dict", <<>>>>, <<"list", <<>>>>}

(* A place inside a value: the keys and indices that lead to it.           *)
Steps(v) ==
    CASE v[1] = "dict" -> {<<"key", k>> : k \in DOMAIN v[2]}
      [] v[1] = "list" -> {<<"at", i>> : i \in DOMAIN v[2]}
      [] OTHER -> {}

RECURSIVE Places(_)
Places(v) == {<<>>} \cup UNION {{<<s>> \o p : p \in Places(v[2][s[2]])} : s \in Steps(v)}

RECURSIVE At(_, _)
At(v, p) == IF p = <<>> THEN v ELSE At(v[2][p[1][2]], Tail(p))

RECURSIVE Replaced(_, _, _)
Replaced(v, p, w) ==
    IF p = <<>> THEN w
    ELSE <<v[1], [v[2] EXCEPT ![p[1][2]] = Replaced(v[2][p[1][2]], Tail(p), w)]>>

Apart(p, q) == ~IsPrefix(p, q) /\ ~IsPrefix(q, p)

(* Operations on dictionaries.                                             *)
With(d, k, w) == <<"dict", [x \in DOMAIN d[2] \cup {k} |-> IF x = k THEN w ELSE d[2][x]]>>
Without(d, k) == <<"dict", Restrict(d[2], DOMAIN d[2] \ {k})>>
Child(d, k) == IF k \in DOMAIN d[2] /\ d[2][k][1] = "dict" THEN d[2][k] ELSE <<"dict", <<>>>>

RECURSIVE WithPath(_, _, _)
WithPath(d, path, w) ==
    With(d, path[1], IF Len(path) = 1 THEN w ELSE WithPath(Child(d, path[1]), Tail(path), w))

RECURSIVE Merged(_, _)
Merged(d, e) ==
    <<"dict", [k \in DOMAIN d[2] \cup DOMAIN e[2] |->
        CASE k \notin DOMAIN e[2] -> d[2][k]
          [] k \in DOMAIN d[2] /\ k \in DOMAIN e[2] /\ d[2][k][1] = "dict" /\ e[2][k][1] = "dict"
               -> Merged(d[2][k], e[2][k])
          [] OTHER -> e[2][k]]>>

(* The value without the parts that are, or become, empty.                 *)
RECURSIVE Pruned(_)
Pruned(v) ==
    CASE v[1] = "dict" ->
            LET kept == {k \in DOMAIN v[2] : Pruned(v[2][k]) \notin Empty}
            IN  <<"dict", [k \in kept |-> Pruned(v[2][k])]>>
      [] v[1] = "list" ->
            <<"list", SelectSeq([i \in DOMAIN v[2] |-> Pruned(v[2][i])], LAMBDA w : w \notin Empty)>>
      [] OTHER -> v

(* Operations on lists, with indices from 0.                               *)
Padded(s, index) == s \o [i \in 1..index - Len(s) |-> <<"null">>]
WithIndex(s, index, w) ==
    IF index < Len(s) THEN [s EXCEPT ![index + 1] = w] ELSE Append(Padded(s, index), w)

-----------------------------------------------------------------------------
Init == tree = <<>> /\ ret = TRUE

(* A call leaves `t` and returns r. `after` is tree', evaluated once.       *)
Effect(after, t, r) == ret' = r /\ after = t

(* The container at p in r becomes `new`; the caller loses `given`.        *)
Edit(r, p, new, given) ==
    [h \in DOMAIN tree \ given |-> IF h = r THEN Replaced(tree[r], p, new) ELSE tree[h]]
Plus(t, h, v) == [x \in DOMAIN t \cup {h} |-> IF x = h THEN v ELSE t[x]]
Free == Handles \ DOMAIN tree
Refused(after) == Effect(after, tree, FALSE)

Create(after) == \E h \in Free : \E v \in Scalars \cup Empty : Effect(after, Plus(tree, h, v), TRUE)
Delete(after) == \E h \in DOMAIN tree : Effect(after, Restrict(tree, DOMAIN tree \ {h}), TRUE)

DictionaryCall(after, r, p) ==
    LET d == At(tree[r], p)
    IN  /\ d[1] = "dict"
        /\ \/ \E path \in {Path[k] : k \in Keys} \cup {<<k>> : k \in Keys} :
                \E v \in DOMAIN tree \ {r} :
                   Effect(after, Edit(r, p, WithPath(d, path, tree[v]), {v}), TRUE)
           \/ \E path \in {Path[k] : k \in Keys} \cup {<<k>> : k \in Keys} :
                LET place == [i \in DOMAIN path |-> <<"key", path[i]>>]
                    owner == At(tree[r], p \o Front(place))
                IN  IF place \in Places(d) /\ At(d, Front(place))[1] = "dict"
                    THEN LET rest == Edit(r, p \o Front(place), Without(owner, Last(path)), {})
                         IN  \/ Effect(after, rest, TRUE)
                             \/ \E h \in Free : Effect(after, Plus(rest, h, At(d, place)), TRUE)
                    ELSE Refused(after)
           \/ \E h \in Free : Effect(after, Plus(tree, h, Pruned(d)), TRUE)
           \/ \E s \in DOMAIN tree : \E q \in Places(tree[s]) :
                /\ At(tree[s], q)[1] = "dict"
                /\ s # r \/ q = p
                /\ Effect(after, Edit(r, p, Merged(d, At(tree[s], q)), {}), TRUE)

ListCall(after, r, p) ==
    LET l == At(tree[r], p)
        List(s) == <<"list", s>>
    IN  /\ l[1] = "list"
        /\ \/ \E v \in DOMAIN tree \ {r} : \E index \in 0..MaxIndex :
                \/ Effect(after, Edit(r, p, List(WithIndex(l[2], index, tree[v])), {v}), TRUE)
                \/ IF index <= Len(l[2])
                   THEN Effect(after, Edit(r, p, List(InsertAt(l[2], index + 1, tree[v])), {v}), TRUE)
                   ELSE Refused(after)
           \/ \E v \in DOMAIN tree \ {r} :
                \/ Effect(after, Edit(r, p, List(Append(l[2], tree[v])), {v}), TRUE)
                \/ IF \E i \in DOMAIN l[2] : l[2][i] = tree[v]
                   THEN Effect(after, Edit(r, p, l, {v}), FALSE)
                   ELSE Effect(after, Edit(r, p, List(Append(l[2], tree[v])), {v}), TRUE)
           \/ \E index \in 0..MaxIndex :
                IF index < Len(l[2])
                THEN LET rest == Edit(r, p, List(RemoveAt(l[2], index + 1)), {})
                     IN  \/ Effect(after, rest, TRUE)
                         \/ \E h \in Free : Effect(after, Plus(rest, h, l[2][index + 1]), TRUE)
                ELSE Refused(after)
           \/ \E s \in DOMAIN tree : \E q \in Places(tree[s]) :
                LET equal == {i \in DOMAIN l[2] : l[2][i] = At(tree[s], q)}
                IN  IF equal # {} THEN Effect(after, Edit(r, p, List(RemoveAt(l[2], Min(equal))), {}), TRUE)
                    ELSE Refused(after)

(* Clear, DeepCopy and Swap exist for both.                                *)
ContainerCall(after, r, p) ==
    LET c == At(tree[r], p)
    IN  /\ c[1] \in {"dict", "list"}
        /\ \/ Effect(after, Edit(r, p, <<c[1], <<>>>>, {}), TRUE)
           \/ \E s \in DOMAIN tree : \E q \in Places(tree[s]) :
                LET e == At(tree[s], q)
                IN  /\ e[1] = c[1]
                    /\ s = r => Apart(p, q)
                    /\ Effect(after, [h \in DOMAIN tree |->
                                LET once == IF h = r THEN Replaced(tree[h], p, e) ELSE tree[h]
                                IN  IF h = s THEN Replaced(once, q, c) ELSE once], TRUE)

DeepCopy(after, r, p) == \E h \in Free : Effect(after, Plus(tree, h, At(tree[r], p)), TRUE)

Call(after) ==
    \E r \in DOMAIN tree : \E p \in Places(tree[r]) :
        \/ DictionaryCall(after, r, p) \/ ListCall(after, r, p)
        \/ ContainerCall(after, r, p) \/ DeepCopy(after, r, p)

Next == \E after \in {tree'} : Create(after) \/ Delete(after) \/ Call(after)

Spec == Init /\ [][Next]_<<tree, ret>>
=============================================================================
