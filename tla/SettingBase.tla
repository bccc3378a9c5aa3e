---------------------------- MODULE SettingBase ----------------------------
(***************************************************************************)
(* QCatGraySettingBase: static functions that write and read an INI file   *)
(* through QSettings.  The file is a function from paths, sequences of     *)
(* names, to values; each call opens it, and its changes are written when  *)
(* it returns.                                                             *)
(*                                                                         *)
(* QSettings is external.  Names that are numerals are numbers here: the   *)
(* i-th element of an array is the group i of its node, from 1, and the    *)
(* number of elements is the value of `size'.  An empty name is dropped    *)
(* from a path.                                                            *)
(***************************************************************************)
EXTENDS Integers, Sequences, FiniteSets

CONSTANTS
    Nodes,         \* the names of groups and arrays
    Names,         \* the names of values: `size', numerals and others
    Values,
    MaxLength,     \* bound: the length of the lists that are written
    MaxCalls,      \* bound: the calls that write
    Size,          \* the name `size'
    None           \* the empty name, and no array

ASSUME BoundAssumption == MaxLength \in Nat /\ MaxCalls \in Nat
ASSUME NamesAssumption ==
    /\ Size \notin Nodes \cup {None} \cup Nat
    /\ None \notin Nodes \cup Names \cup Nat
    /\ Nodes \cap (Names \cup Nat) = {}

Lists(S) == UNION {[1..n -> S] : n \in 0..MaxLength}
Least(m, n) == IF m < n THEN m ELSE n

VARIABLES
    setting,   \* the file
    array,     \* history: by node, the keys and values that SetArray() wrote last, until the
               \* node is written or removed otherwise
    over,      \* history: the nodes that had elements when SetArray() wrote that
    calls      \* how many calls wrote

vars == <<setting, array, over, calls>>

TypeOK ==
    /\ DOMAIN setting \subseteq Seq(Nodes \cup Names \cup Nat \cup {Size})
    /\ \A path \in DOMAIN setting : setting[path] \in Values \cup 0..MaxLength
    /\ array \in [Nodes -> Seq(Names \X Values) \cup {None}]
    /\ over \subseteq Nodes
    /\ calls \in 0..MaxCalls

Init ==
    /\ setting = [path \in {} |-> None]
    /\ array = [node \in Nodes |-> None]
    /\ over = {}
    /\ calls = 0

(* A node and a key, each of which may be empty. *)
Path(node, key) ==
    IF node = None THEN IF key = None THEN <<>> ELSE <<key>>
    ELSE IF key = None THEN <<node>> ELSE <<node, key>>

Under(path) == {p \in DOMAIN setting : Len(p) >= Len(path) /\ SubSeq(p, 1, Len(path)) = path}

(* QSettings::remove: the path and what is under it; everything for the empty path. *)
Remove(path) == setting' = [p \in DOMAIN setting \ Under(path) |-> setting[p]]

(* What is not part of an array: any key but its size and its elements. *)
Disturbs(key) == key \in {Size, None} \cup Nat

Forgets(nodes) == array' = [node \in Nodes |-> IF node \in nodes THEN None ELSE array[node]]

-----------------------------------------------------------------------------
(* Writing.                                                                *)

SetValue(node, key, var) ==
    /\ setting' = [p \in DOMAIN setting \cup {Path(node, key)} |->
                      IF p = Path(node, key) THEN var ELSE setting[p]]
    /\ Forgets(IF Disturbs(key) THEN {node} ELSE {})
    /\ UNCHANGED over

RemoveNodeValue(node, key) ==
    /\ Remove(Path(node, key))
    /\ Forgets(IF node = None THEN {key} ELSE IF Disturbs(key) THEN {node} ELSE {})
    /\ UNCHANGED over

RemoveNode(node) ==
    /\ Remove(Path(node, None))
    /\ Forgets(IF node = None THEN Nodes ELSE {node})
    /\ UNCHANGED over

(* The last of several values for one key stays. *)
SetGroup(node, keys, list) ==
    LET size == Least(Len(keys), Len(list))
        places == {i \in 1..size : \A j \in (i + 1)..size : keys[j] # keys[i]}
        value(p) == list[CHOOSE i \in places : Path(node, keys[i]) = p]
        written == {Path(node, keys[i]) : i \in places}
    IN  /\ setting' = [p \in DOMAIN setting \cup written |->
                          IF p \in written THEN value(p) ELSE setting[p]]
        /\ Forgets(IF \E i \in places : Disturbs(keys[i]) THEN {node} ELSE {})
        /\ UNCHANGED over

(* An element of an array: it holds the one key of its place. *)
Element(node, i, key) == <<node, i, key>>
Elements(node) == {p \in DOMAIN setting : Len(p) = 3 /\ p[1] = node}

ArraySize(node) ==
    IF <<node, Size>> \in DOMAIN setting /\ setting[<<node, Size>>] \in Nat
    THEN setting[<<node, Size>>] ELSE 0

(* Mutant: the size of a longer array stays. *)
SizeKept(node, size) == IF ArraySize(node) > size THEN ArraySize(node) ELSE size

(* endArray(): the highest index that was set. *)
SizeWritten(node, size) == size

(* The elements of a longer array that was there before stay. *)
SetArray(node, keys, list) ==
    LET size == Least(Len(keys), Len(list))
        written == {Element(node, i, keys[i]) : i \in 1..size}
    IN  /\ setting' = [p \in DOMAIN setting \cup written \cup {<<node, Size>>} |->
                          IF p \in written THEN list[p[2]]
                          ELSE IF p = <<node, Size>> THEN SizeWritten(node, size)
                          ELSE setting[p]]
        /\ array' = [array EXCEPT ![node] = [i \in 1..size |-> <<keys[i], list[i]>>]]
        /\ over' = IF Elements(node) = {} THEN over \ {node} ELSE over \cup {node}

-----------------------------------------------------------------------------
(* Reading.                                                                *)

Value(path) == IF path \in DOMAIN setting THEN setting[path] ELSE None

(* The values from the last element to the first, each under the key that is its index. *)
GetArrays(node) ==
    LET size == ArraySize(node)
    IN  [i \in 1..size |-> Value(Element(node, size - i + 1, size - i))]

(* Mutant: the index is looked for in the keys. *)
GetArrayByIndex(node, keys) ==
    {<<p[3], setting[p]>> : p \in {q \in Elements(node) : q[2] \in keys}}

(* The keys and values of every element there is, whatever the size of the array. *)
GetArray(node, keys) == {<<p[3], setting[p]>> : p \in {q \in Elements(node) : q[3] \in keys}}

-----------------------------------------------------------------------------

Next ==
    /\ calls < MaxCalls
    /\ calls' = calls + 1
    /\ \/ \E node \in Nodes \cup {None}, key \in Names :
            \/ \E var \in Values : SetValue(node, key, var)
            \/ RemoveNodeValue(node, key)
       \/ \E node \in Nodes \cup {None} : RemoveNode(node)
       \/ \E node \in Nodes : RemoveNodeValue(node, None)
       \/ \E node \in Nodes, keys \in Lists(Names), list \in Lists(Values) :
            SetGroup(node, keys, list) \/ SetArray(node, keys, list)

Spec == Init /\ [][Next]_vars

-----------------------------------------------------------------------------
(* Properties.                                                             *)

(* What SetArray() wrote under the indices is what GetArrays() reads, last element first,   *)
(* whatever arrays, longer ones too, groups and values were written or removed before, and  *)
(* whatever is written beside it.                                                           *)
ArraysReadBack == \A node \in Nodes :
    (array[node] # None /\ \A i \in DOMAIN array[node] : array[node][i][1] = i - 1) =>
        LET size == Len(array[node])
        IN  GetArrays(node) = [i \in 1..size |-> array[node][size - i + 1][2]]

(* What SetArray() wrote is what GetArray() reads for its keys, if the node had no elements *)
(* then; if it had some, what was written is among what is read.                            *)
ElementsReadBack == \A node \in Nodes : array[node] # None =>
    LET written == {array[node][i] : i \in DOMAIN array[node]}
        read == GetArray(node, {entry[1] : entry \in written})
    IN  written \subseteq read /\ (node \notin over => read = written)
=============================================================================
