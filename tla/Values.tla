------------------------------- MODULE Values -------------------------------
(***************************************************************************)
(* Value, DictionaryValue and ListValue (chromium/values.cc, values.hh):   *)
(* trees of heap nodes linked by raw pointers, in which every container    *)
(* owns its children and every root is owned by the caller. `heap` holds   *)
(* the nodes that have been created and not deleted; reading any other     *)
(* node is an error TLC reports.                                           *)
(*                                                                         *)
(* The caller keeps to the contract of values.hh: what it hands over is a  *)
(* root it owns, and not the root of the tree it hands it to; neither side *)
(* of Swap is inside the other. A target may be any container in a tree,   *)
(* as Get returns pointers to them. One thing is assumed of callers that   *)
(* values.hh:296-300 does not ask of them: a source of MergeDictionary is  *)
(* the target itself or in another tree. Inside the target's own tree the  *)
(* loop of values.cc:633-651 may delete the dictionary it is reading.      *)
(***************************************************************************)
EXTENDS Integers, Sequences, FiniteSets, FiniteSetsExt, SequencesExt, Functions, TLC

CONSTANTS
    Keys,           \* dictionary keys, with a dot or without
    Path,           \* the path a key stands for, keys split at the dots
    Scalars,        \* values without children, <<type, ...>>
    MaxNodes,       \* bound: live nodes between two calls
    MaxAddress      \* bound: their addresses; a merge copies before it deletes

ASSUME PathAssumption == \A k \in Keys : Path[k] \in Seq(Keys) \ {<<>>}

VARIABLES
    heap,           \* live nodes: [data, kids], kids a function of keys or indices
    held,           \* roots owned by the caller
    ret             \* what the last call returned; TRUE for void

vars == <<heap, held, ret>>

NULL == 0
Nodes == 1..MaxAddress
(* Bound: the last is past the end of every list that can still grow.     *)
Indices == 0..MaxNodes - 2
Dictionary == [data |-> <<"dict">>, kids |-> <<>>]
List == [data |-> <<"list">>, kids |-> <<>>]
IsType(h, n, type) == h[n].data[1] = type
IsContainer(h, n) == IsType(h, n, "dict") \/ IsType(h, n, "list")

(* operator new takes the lowest free address.                             *)
New(h, node) ==
    LET n == Min({i \in 1..Cardinality(DOMAIN h) + 1 : i \notin DOMAIN h})
    IN  [heap |-> h @@ (n :> node), ptr |-> n]

RECURSIVE Tree(_, _)
Tree(h, n) == {n} \cup UNION {Tree(h, kid) : kid \in Range(h[n].kids)}

(* ~Value: a container clears itself first.                                *)
Deleted(h, n) == Restrict(h, DOMAIN h \ Tree(h, n))
Cleared(h, n) ==
    [Restrict(h, (DOMAIN h \ Tree(h, n)) \cup {n}) EXCEPT ![n].kids = <<>>]

RECURSIVE Equals(_, _, _)
Equals(h, a, b) ==
    /\ h[a].data = h[b].data
    /\ DOMAIN h[a].kids = DOMAIN h[b].kids
    /\ \A k \in DOMAIN h[a].kids : Equals(h, h[a].kids[k], h[b].kids[k])

-----------------------------------------------------------------------------
(* DictionaryValue.                                                        *)
HasKey(h, d, key) == key \in DOMAIN h[d].kids
GetWithoutPathExpansion(h, d, key) == IF HasKey(h, d, key) THEN h[d].kids[key] ELSE NULL
GetDictionaryWithoutPathExpansion(h, d, key) ==
    LET value == GetWithoutPathExpansion(h, d, key)
    IN  IF value # NULL /\ IsType(h, value, "dict") THEN value ELSE NULL

(* Get: the dictionaries along the path, then whatever the last key names. *)
Get(h, d, path) ==
    LET Walk[i \in 0..Len(path)] ==
            IF i = 0 THEN d
            ELSE IF Walk[i - 1] = NULL \/ ~IsType(h, Walk[i - 1], "dict") THEN NULL
            ELSE GetWithoutPathExpansion(h, Walk[i - 1], path[i])
    IN  Walk[Len(path)]
GetDictionary(h, d, path) ==
    LET value == Get(h, d, path)
    IN  IF value # NULL /\ IsType(h, value, "dict") THEN value ELSE NULL

Hooked(h, d, key, value) ==
    [h EXCEPT ![d].kids = [k \in DOMAIN @ \cup {key} |-> IF k = key THEN value ELSE @[k]]]

(* Mutant of SetWithoutPathExpansion: the value that was there is lost.    *)
SetAndForget(h, d, key, value) == Hooked(h, d, key, value)

SetWithoutPathExpansion(h, d, key, value) ==
    Hooked(IF HasKey(h, d, key) THEN Deleted(h, h[d].kids[key]) ELSE h, d, key, value)

RECURSIVE SetAlong(_, _, _, _)
SetAlong(h, d, path, value) ==
    IF Len(path) = 1 THEN SetWithoutPathExpansion(h, d, path[1], value)
    ELSE LET child == GetDictionary(h, d, <<path[1]>>)
             fresh == New(h, Dictionary)
         IN  IF child # NULL THEN SetAlong(h, child, Tail(path), value)
             ELSE SetAlong(SetWithoutPathExpansion(fresh.heap, d, path[1], fresh.ptr),
                           fresh.ptr, Tail(path), value)

(* The keys of a dictionary, or the indices of a list, in their order.     *)
InOrder(h, n) == IF IsType(h, n, "list") THEN [i \in DOMAIN h[n].kids |-> i]
                 ELSE SetToSeq(DOMAIN h[n].kids)

(* `copy` adopts what was made for key k of a node.                        *)
Adopt(made, copy, k) ==
    IF IsType(made.heap, copy, "list")
    THEN [made.heap EXCEPT ![copy].kids = Append(@, made.ptr)]
    ELSE SetWithoutPathExpansion(made.heap, copy, k, made.ptr)

RECURSIVE DeepCopied(_, _)
DeepCopied(h, n) ==
    LET start == New(h, [h[n] EXCEPT !.kids = <<>>])
        Step(acc, k) ==
            LET made == DeepCopied(acc.heap, h[n].kids[k])
            IN  [acc EXCEPT !.heap = Adopt(made, acc.ptr, k)]
    IN  FoldLeft(Step, start, InOrder(h, n))

RECURSIVE CopyWithoutEmptyChildren(_, _)
CopyWithoutEmptyChildren(h, n) ==
    LET start == New(h, [h[n] EXCEPT !.kids = <<>>])
        Step(acc, k) ==
            LET made == CopyWithoutEmptyChildren(acc.heap, h[n].kids[k])
            IN  [acc EXCEPT !.heap = IF made.ptr = NULL THEN made.heap
                                     ELSE Adopt(made, acc.ptr, k)]
        done == FoldLeft(Step, start, InOrder(h, n))
    IN  IF ~IsContainer(h, n) THEN DeepCopied(h, n)
        ELSE IF done.heap[done.ptr].kids # <<>> THEN done
        ELSE [heap |-> Deleted(done.heap, done.ptr), ptr |-> NULL]

(* Mutant of Merged: the members are set as paths.                         *)
RECURSIVE MergedAlongPaths(_, _, _)
MergedAlongPaths(h, d, from) ==
    LET Step(acc, k) ==
            LET value == acc[from].kids[k]
                sub == GetDictionaryWithoutPathExpansion(acc, d, k)
                copy == DeepCopied(acc, value)
            IN  IF IsType(acc, value, "dict") /\ sub # NULL
                THEN MergedAlongPaths(acc, sub, value)
                ELSE SetAlong(copy.heap, d, Path[k], copy.ptr)
    IN  FoldLeft(Step, h, InOrder(h, from))

RECURSIVE Merged(_, _, _)
Merged(h, d, from) ==
    LET Step(acc, k) ==
            LET value == acc[from].kids[k]
                sub == GetDictionaryWithoutPathExpansion(acc, d, k)
                copy == DeepCopied(acc, value)
            IN  IF IsType(acc, value, "dict") /\ sub # NULL THEN Merged(acc, sub, value)
                ELSE SetWithoutPathExpansion(copy.heap, d, k, copy.ptr)
    IN  FoldLeft(Step, h, InOrder(h, from))

-----------------------------------------------------------------------------
Init == heap = <<>> /\ held = {} /\ ret = TRUE

(* The outcome of a call, as long as the heap stays within its bound.      *)
Call(h, roots, value) ==
    /\ heap' = h /\ DOMAIN h \subseteq Nodes /\ Cardinality(DOMAIN h) <= MaxNodes
    /\ held' = roots
    /\ ret' = value

Root(n) == CHOOSE r \in held : n \in Tree(heap, r)
Dictionaries == {n \in DOMAIN heap : IsType(heap, n, "dict")}
Lists == {n \in DOMAIN heap : IsType(heap, n, "list")}
Inside(m, n) == m \in Tree(heap, n)

Create ==
    \E node \in {Dictionary, List} \cup {[data |-> s, kids |-> <<>>] : s \in Scalars} :
        LET made == New(heap, node)
        IN  Call(made.heap, held \cup {made.ptr}, TRUE)

Delete == \E r \in held : Call(Deleted(heap, r), held \ {r}, TRUE)

(* A value the caller may hand to container n.                             *)
Offers(n) == held \ {Root(n)}

DictionarySet(d, key, in_value) ==
    Call(SetAlong(heap, d, Path[key], in_value), held \ {in_value}, TRUE)

DictionarySetWithoutPathExpansion(d, key, in_value) ==
    Call(SetWithoutPathExpansion(heap, d, key, in_value), held \ {in_value}, TRUE)

RemoveWithoutPathExpansion(d, key, wanted) ==
    LET entry == GetWithoutPathExpansion(heap, d, key)
        erased(h) == [h EXCEPT ![d].kids = Restrict(@, DOMAIN @ \ {key})]
    IN  IF entry = NULL THEN Call(heap, held, FALSE)
        ELSE IF wanted THEN Call(erased(heap), held \cup {entry}, TRUE)
        ELSE Call(erased(Deleted(heap, entry)), held, TRUE)

(* The path is split at its last dot.                                      *)
DictionaryRemove(d, key, wanted) ==
    LET owner == GetDictionary(heap, d, Front(Path[key]))
    IN  IF owner = NULL THEN Call(heap, held, FALSE)
        ELSE RemoveWithoutPathExpansion(owner, Last(Path[key]), wanted)

DeepCopyWithoutEmptyChildren(d) ==
    LET copy == CopyWithoutEmptyChildren(heap, d)
        made == IF copy.ptr # NULL THEN copy ELSE New(copy.heap, Dictionary)
    IN  Call(made.heap, held \cup {made.ptr}, TRUE)

(* The first conjunct is the assumption about callers made above.          *)
MergeDictionary(d, from) ==
    /\ from = d \/ Root(from) # Root(d)
    /\ Call(Merged(heap, d, from), held, TRUE)

(* Both containers have Clear and Swap, every value has DeepCopy.          *)
Clear(n) == Call(Cleared(heap, n), held, TRUE)

Swap(m, n) ==
    /\ ~Inside(m, n) /\ ~Inside(n, m)
    /\ Call([heap EXCEPT ![m].kids = heap[n].kids, ![n].kids = heap[m].kids], held, TRUE)

DeepCopy(n) ==
    LET made == DeepCopied(heap, n)
    IN  Call(made.heap, held \cup {made.ptr}, TRUE)

-----------------------------------------------------------------------------
(* ListValue. Indices start at 0.                                          *)
Elements(l) == heap[l].kids
Relinked(h, l, list) == [h EXCEPT ![l].kids = list]

(* Mutant of Padding: the null values are counted, not created.            *)
PaddingForgotten(h, l, index) == h

(* Append(CreateNullValue()) while the index is past the end.              *)
Padding(h, l, index) ==
    LET Null(acc, i) ==
            LET made == New(acc, [data |-> <<"null">>, kids |-> <<>>])
            IN  Relinked(made.heap, l, Append(made.heap[l].kids, made.ptr))
    IN  FoldLeft(Null, h, [i \in 1..index - Len(h[l].kids) |-> i])

ListSet(l, index, in_value) ==
    Call(IF index >= Len(Elements(l))
         THEN LET padded == Padding(heap, l, index)
              IN  Relinked(padded, l, [i \in DOMAIN padded[l].kids \cup {index + 1} |->
                              IF i = index + 1 THEN in_value ELSE padded[l].kids[i]])
         ELSE [Deleted(heap, Elements(l)[index + 1]) EXCEPT ![l].kids[index + 1] = in_value],
         held \ {in_value}, TRUE)

ListRemove(l, index, wanted) ==
    IF index >= Len(Elements(l)) THEN Call(heap, held, FALSE)
    ELSE LET entry == Elements(l)[index + 1]
             rest == RemoveAt(Elements(l), index + 1)
         IN  IF wanted THEN Call(Relinked(heap, l, rest), held \cup {entry}, TRUE)
             ELSE Call(Relinked(Deleted(heap, entry), l, rest), held, TRUE)

(* The first element that equals `value`, which may be that very element.  *)
ListRemoveValue(l, value) ==
    LET equal == {i \in DOMAIN Elements(l) : Equals(heap, Elements(l)[i], value)}
    IN  IF equal = {} THEN Call(heap, held, FALSE)
        ELSE Call(Relinked(Deleted(heap, Elements(l)[Min(equal)]), l,
                           RemoveAt(Elements(l), Min(equal))), held, TRUE)

ListAppend(l, in_value) ==
    Call(Relinked(heap, l, Append(Elements(l), in_value)), held \ {in_value}, TRUE)

AppendIfNotPresent(l, in_value) ==
    IF \E i \in DOMAIN Elements(l) : Equals(heap, Elements(l)[i], in_value)
    THEN Call(Deleted(heap, in_value), held \ {in_value}, FALSE)
    ELSE ListAppend(l, in_value)

(* An index past the end: the caller keeps the value.                      *)
Insert(l, index, in_value) ==
    IF index > Len(Elements(l)) THEN Call(heap, held, FALSE)
    ELSE Call(Relinked(heap, l, InsertAt(Elements(l), index + 1, in_value)),
              held \ {in_value}, TRUE)

DictionaryCall ==
    \E d \in Dictionaries :
        \/ \E key \in Keys, in_value \in Offers(d) :
              DictionarySet(d, key, in_value) \/ DictionarySetWithoutPathExpansion(d, key, in_value)
        \/ \E key \in Keys, wanted \in BOOLEAN :
              DictionaryRemove(d, key, wanted) \/ RemoveWithoutPathExpansion(d, key, wanted)
        \/ DeepCopyWithoutEmptyChildren(d)
        \/ \E other \in Dictionaries : MergeDictionary(d, other) \/ Swap(d, other)

ListCall ==
    \E l \in Lists :
        \/ \E index \in Indices, in_value \in Offers(l) :
              ListSet(l, index, in_value) \/ Insert(l, index, in_value)
        \/ \E index \in Indices, wanted \in BOOLEAN : ListRemove(l, index, wanted)
        \/ \E value \in DOMAIN heap : ListRemoveValue(l, value)
        \/ \E in_value \in Offers(l) : ListAppend(l, in_value) \/ AppendIfNotPresent(l, in_value)
        \/ \E other \in Lists : Swap(l, other)

Next ==
    \/ Create \/ Delete \/ DictionaryCall \/ ListCall
    \/ \E n \in Dictionaries \cup Lists : Clear(n)
    \/ \E n \in DOMAIN heap : DeepCopy(n)

Spec == Init /\ [][Next]_vars

-----------------------------------------------------------------------------
(* A list is a sequence, a dictionary has keys, nothing else has children. *)
TypeOK ==
    /\ DOMAIN heap \subseteq Nodes /\ held \subseteq Nodes /\ ret \in BOOLEAN
    /\ \A n \in DOMAIN heap :
          CASE IsType(heap, n, "dict") -> DOMAIN heap[n].kids \subseteq Keys
            [] IsType(heap, n, "list") -> DOMAIN heap[n].kids = 1..Cardinality(DOMAIN heap[n].kids)
            [] OTHER -> heap[n].data \in Scalars \cup {<<"null">>} /\ heap[n].kids = <<>>

Slots(n) == UNION {{<<m, k>> : k \in {k \in DOMAIN heap[m].kids : heap[m].kids[k] = n}} :
                   m \in DOMAIN heap}

(* Ownership (values.hh:62, "we own all our children" values.cc:408): a    *)
(* node exists exactly as long as one container or the caller owns it.     *)
(* Nothing is owned twice, so nothing is deleted twice; nothing is owned   *)
(* after it has been deleted; nothing is unreachable, so nothing leaks,    *)
(* whatever order values are handed over, replaced, taken out, copied,     *)
(* merged and swapped in.                                                  *)
OneOwner ==
    /\ held \subseteq DOMAIN heap
    /\ \A n \in DOMAIN heap :
          /\ Range(heap[n].kids) \subseteq DOMAIN heap
          /\ Cardinality(Slots(n)) = IF n \in held THEN 0 ELSE 1
    /\ DOMAIN heap = UNION {Tree(heap, r) : r \in held}

RECURSIVE ValueAt(_, _)
ValueAt(h, n) ==
    IF IsContainer(h, n)
    THEN <<h[n].data[1], [k \in DOMAIN h[n].kids |-> ValueAt(h, h[n].kids[k])]>>
    ELSE h[n].data

Trees == INSTANCE ValueTrees WITH
    Handles <- Nodes, MaxIndex <- MaxNodes - 2,
    tree <- [r \in held |-> ValueAt(heap, r)]

(* The pointer structure implements independent values: a call changes the *)
(* container it is called on by the operation values.hh documents, and no  *)
(* other value the caller holds, through no alias (values.hh:220-300,      *)
(* 371-437).                                                               *)
RefinesTrees == Trees!Spec
=============================================================================
