------------------------- MODULE SettingBaseProofs -------------------------
(***************************************************************************)
(* Theorems about SettingBase for any names, values, lists and number of   *)
(* calls.                                                                  *)
(***************************************************************************)
EXTENDS SettingBase, TLAPS

Paths == Seq(Nodes \cup Names \cup Nat \cup {Size})

(* The array that SetArray() wrote last is in the file.                                      *)
Stored == \A node \in Nodes : array[node] # None =>
    /\ <<node, Size>> \in DOMAIN setting
    /\ setting[<<node, Size>>] = Len(array[node])
    /\ \A i \in 1..Len(array[node]) :
         /\ Element(node, i, array[node][i][1]) \in DOMAIN setting
         /\ setting[Element(node, i, array[node][i][1])] = array[node][i][2]

(* A node that had no elements then has no other ones now.                                   *)
Alone == \A node \in Nodes \ over : array[node] # None =>
    \A p \in Elements(node) :
        \E i \in 1..Len(array[node]) : p = Element(node, i, array[node][i][1])

IInv == TypeOK /\ Stored /\ Alone

-----------------------------------------------------------------------------

LEMMA InitInv == Init => IInv
  BY BoundAssumption
  DEF Init, IInv, TypeOK, Stored, Alone, Elements

LEMMA PathTyped ==
  ASSUME NEW node \in Nodes \cup {None}, NEW key \in Names \cup {None}
  PROVE  Path(node, key) \in Paths /\ Len(Path(node, key)) <= 2
<1>1. CASE node = None /\ key = None
  BY <1>1 DEF Path, Paths
<1>2. CASE node = None /\ key # None
  <2>1. <<key>> \in Paths
    BY <1>2 DEF Paths
  <2> QED  BY <1>2, <2>1 DEF Path
<1>3. CASE node # None /\ key = None
  <2>1. <<node>> \in Paths
    BY <1>3 DEF Paths
  <2> QED  BY <1>3, <2>1 DEF Path
<1>4. CASE node # None /\ key # None
  <2>1. <<node, key>> \in Paths
    BY <1>4 DEF Paths
  <2> QED  BY <1>4, <2>1 DEF Path
<1> QED  BY <1>1, <1>2, <1>3, <1>4

(* Paths of two names at most are written, none of them the size of an array that is not     *)
(* forgotten.                                                                                *)
LEMMA WriteKeeps ==
  ASSUME IInv, NEW written \in SUBSET Paths, NEW nodes,
         DOMAIN setting' = DOMAIN setting \cup written,
         \A p \in written : Len(p) <= 2 /\ setting'[p] \in Values \cup 0..MaxLength,
         \A p \in DOMAIN setting \ written : setting'[p] = setting[p],
         \A node \in Nodes \ nodes : <<node, Size>> \notin written,
         Forgets(nodes), UNCHANGED over, calls' \in 0..MaxCalls
  PROVE  IInv'
<1>1. \A node \in Nodes : array'[node] # None => array'[node] = array[node] /\ node \notin nodes
  BY DEF Forgets
<1>2. TypeOK'
  BY <1>1 DEF IInv, TypeOK, Paths, Forgets
<1>3. \A node, i, key : Len(Element(node, i, key)) = 3 /\ Element(node, i, key) \notin written
  BY DEF Element
<1>4. Stored'
  BY <1>1, <1>3 DEF IInv, Stored, Element
<1>5. \A node \in Nodes : Elements(node)' \subseteq Elements(node)
  BY DEF Elements
<1>6. Alone'
  BY <1>1, <1>5 DEF IInv, Alone
<1> QED  BY <1>2, <1>4, <1>6 DEF IInv

(* What is under a path is removed, no part of an array that is not forgotten.               *)
LEMMA RemoveKeeps ==
  ASSUME IInv, NEW path \in Paths, NEW nodes, Len(path) <= 2,
         Remove(path), Forgets(nodes), UNCHANGED over, calls' \in 0..MaxCalls,
         \A node \in Nodes \ nodes :
             path # <<>> /\ path[1] = node =>
                 Len(path) = 2 /\ path[2] # Size /\ path[2] \notin Nat,
         \A node \in Nodes \ nodes : path # <<>>
  PROVE  IInv'
<1>1. \A node \in Nodes : array'[node] # None => array'[node] = array[node] /\ node \notin nodes
  BY DEF Forgets
<1>2. DOMAIN setting' = DOMAIN setting \ Under(path)
      /\ \A p \in DOMAIN setting' : setting'[p] = setting[p]
  BY DEF Remove
<1>3. TypeOK'
  BY <1>1, <1>2 DEF IInv, TypeOK, Forgets
<1>4. ASSUME NEW node \in Nodes \ nodes
      PROVE  <<node, Size>> \notin Under(path)
  BY <1>4 DEF Under, Paths
<1>5. ASSUME NEW node \in Nodes \ nodes, NEW i \in Nat, NEW key
      PROVE  Element(node, i, key) \notin Under(path)
  BY <1>5 DEF Under, Element, Paths
<1>6. Stored'
  BY <1>1, <1>2, <1>4, <1>5 DEF IInv, Stored
<1>7. \A node \in Nodes : Elements(node)' \subseteq Elements(node)
  BY <1>2 DEF Elements
<1>8. Alone'
  BY <1>1, <1>7 DEF IInv, Alone
<1> QED  BY <1>3, <1>6, <1>8 DEF IInv

-----------------------------------------------------------------------------
(* The calls.                                                                                *)

LEMMA SetValueKeeps ==
  ASSUME IInv, NEW node \in Nodes \cup {None}, NEW key \in Names, NEW var \in Values,
         SetValue(node, key, var), calls' \in 0..MaxCalls
  PROVE  IInv'
<1> DEFINE nodes == IF Disturbs(key) THEN {node} ELSE {}
           written == {Path(node, key)}
<1>1. written \in SUBSET Paths /\ \A p \in written : Len(p) <= 2
  BY PathTyped
<1>2. \A n \in Nodes \ nodes : <<n, Size>> \notin written
  BY NamesAssumption DEF Path, Disturbs
<1>3. /\ DOMAIN setting' = DOMAIN setting \cup written
      /\ \A p \in written : setting'[p] \in Values \cup 0..MaxLength
      /\ \A p \in DOMAIN setting \ written : setting'[p] = setting[p]
      /\ Forgets(nodes) /\ UNCHANGED over
  BY DEF SetValue
<1> QED  BY <1>1, <1>2, <1>3, WriteKeeps

LEMMA SetGroupKeeps ==
  ASSUME IInv, NEW node \in Nodes, NEW keys \in Lists(Names), NEW list \in Lists(Values),
         SetGroup(node, keys, list), calls' \in 0..MaxCalls
  PROVE  IInv'
<1> DEFINE size == Least(Len(keys), Len(list))
           places == {i \in 1..size : \A j \in (i + 1)..size : keys[j] # keys[i]}
           value(p) == list[CHOOSE i \in places : Path(node, keys[i]) = p]
           written == {Path(node, keys[i]) : i \in places}
           nodes == IF \E i \in places : Disturbs(keys[i]) THEN {node} ELSE {}
<1>1. keys \in Seq(Names) /\ list \in Seq(Values)
  BY BoundAssumption DEF Lists
<1>2. \A i \in places : keys[i] \in Names /\ list[i] \in Values
  BY <1>1 DEF Least
<1>3. written \in SUBSET Paths /\ \A p \in written : Len(p) <= 2
  BY <1>2, PathTyped
<1>4. \A n \in Nodes \ nodes : <<n, Size>> \notin written
  BY <1>2, NamesAssumption DEF Path, Disturbs
<1>5. \A p \in written : value(p) \in Values
  BY <1>2
<1>6. /\ DOMAIN setting' = DOMAIN setting \cup written
      /\ \A p \in written : setting'[p] = value(p)
      /\ \A p \in DOMAIN setting \ written : setting'[p] = setting[p]
      /\ Forgets(nodes) /\ UNCHANGED over
  BY DEF SetGroup
<1> HIDE DEF written, nodes, value
<1> QED  BY <1>3, <1>4, <1>5, <1>6, WriteKeeps

LEMMA RemoveNodeValueKeeps ==
  ASSUME IInv, NEW node \in Nodes \cup {None}, NEW key \in Names \cup {None},
         node # None \/ key # None,
         RemoveNodeValue(node, key), calls' \in 0..MaxCalls
  PROVE  IInv'
<1> DEFINE nodes == IF node = None THEN {key} ELSE IF Disturbs(key) THEN {node} ELSE {}
           path == Path(node, key)
<1>1. path \in Paths /\ Len(path) <= 2
  BY PathTyped
<1>2. path # <<>>
  BY DEF Path
<1>3. \A n \in Nodes \ nodes : path[1] = n => Len(path) = 2 /\ path[2] # Size /\ path[2] \notin Nat
  BY NamesAssumption DEF Path, Disturbs
<1>4. Remove(path) /\ Forgets(nodes) /\ UNCHANGED over
  BY DEF RemoveNodeValue
<1> HIDE DEF path, nodes
<1> QED  BY <1>1, <1>2, <1>3, <1>4, RemoveKeeps

LEMMA RemoveNodeKeeps ==
  ASSUME IInv, NEW node \in Nodes \cup {None}, RemoveNode(node), calls' \in 0..MaxCalls
  PROVE  IInv'
<1> DEFINE nodes == IF node = None THEN Nodes ELSE {node}
           path == Path(node, None)
<1>1. path \in Paths /\ Len(path) <= 2
  BY PathTyped
<1>2. \A n \in Nodes \ nodes : path # <<>> /\ path[1] # n
  BY NamesAssumption DEF Path
<1>3. Remove(path) /\ Forgets(nodes) /\ UNCHANGED over
  BY DEF RemoveNode
<1> HIDE DEF path, nodes
<1> QED  BY <1>1, <1>2, <1>3, RemoveKeeps

LEMMA SetArrayKeeps ==
  ASSUME IInv, NEW node \in Nodes, NEW keys \in Lists(Names), NEW list \in Lists(Values),
         SetArray(node, keys, list), calls' \in 0..MaxCalls
  PROVE  IInv'
<1> DEFINE size == Least(Len(keys), Len(list))
           written == {Element(node, i, keys[i]) : i \in 1..size}
           entries == [i \in 1..size |-> <<keys[i], list[i]>>]
<1>1. /\ keys \in Seq(Names) /\ list \in Seq(Values)
      /\ size \in 0..MaxLength /\ size <= Len(keys) /\ size <= Len(list)
  BY BoundAssumption DEF Lists, Least
<1>2. entries \in Seq(Names \X Values) /\ Len(entries) = size
  BY <1>1
<1>3. /\ DOMAIN setting' = DOMAIN setting \cup written \cup {<<node, Size>>}
      /\ setting' = [p \in DOMAIN setting' |->
                        IF p \in written THEN list[p[2]]
                        ELSE IF p = <<node, Size>> THEN size ELSE setting[p]]
      /\ array' = [array EXCEPT ![node] = entries]
      /\ over' = IF Elements(node) = {} THEN over \ {node} ELSE over \cup {node}
  BY DEF SetArray, SizeWritten
<1>4. /\ array' \in [Nodes -> Seq(Names \X Values) \cup {None}]
      /\ array'[node] = entries /\ \A n \in Nodes \ {node} : array'[n] = array[n]
  BY <1>2, <1>3 DEF IInv, TypeOK
<1>5. \A i \in 1..size : keys[i] \in Names /\ list[i] \in Values
  BY <1>1
<1>6. ASSUME NEW p \in written
      PROVE  /\ p \in Paths /\ Len(p) = 3 /\ p[1] = node /\ p # <<node, Size>>
             /\ \E i \in 1..size : p = Element(node, i, keys[i]) /\ p[2] = i
  <2>1. PICK i \in 1..size : p = <<node, i, keys[i]>>
    BY DEF Element
  <2> QED  BY <1>5, <2>1 DEF Paths, Element
<1>7. <<node, Size>> \in Paths /\ Len(<<node, Size>>) = 2
  BY DEF Paths
<1> HIDE DEF written, entries, size
<1>8. TypeOK'
  <2>1. DOMAIN setting' \subseteq Paths
    BY <1>3, <1>6, <1>7 DEF IInv, TypeOK, Paths
  <2>2. \A p \in written : setting'[p] \in Values
    BY <1>3, <1>5, <1>6
  <2>3. \A p \in DOMAIN setting' : setting'[p] \in Values \cup 0..MaxLength
    BY <1>1, <1>3, <2>2 DEF IInv, TypeOK
  <2> QED  BY <1>3, <1>4, <2>1, <2>3 DEF IInv, TypeOK, Paths
<1>9. Stored'
  <2>1. setting'[<<node, Size>>] = Len(array'[node])
    BY <1>2, <1>3, <1>4, <1>6
  <2>2. ASSUME NEW i \in 1..size
        PROVE  /\ Element(node, i, array'[node][i][1]) \in DOMAIN setting'
               /\ setting'[Element(node, i, array'[node][i][1])] = array'[node][i][2]
    <3>1. array'[node][i] = <<keys[i], list[i]>>
      BY <1>4 DEF entries
    <3>2. Element(node, i, keys[i]) \in written /\ Element(node, i, keys[i])[2] = i
      BY DEF written, Element
    <3> QED  BY <1>3, <3>1, <3>2
  <2>3. ASSUME NEW n \in Nodes \ {node}, NEW i, NEW key
        PROVE  /\ Element(n, i, key) \notin written \cup {<<node, Size>>}
               /\ <<n, Size>> \notin written \cup {<<node, Size>>}
    BY <1>6, <1>7 DEF Element
  <2>4. ASSUME NEW n \in Nodes \ {node}, array'[n] # None
        PROVE  /\ <<n, Size>> \in DOMAIN setting' /\ setting'[<<n, Size>>] = Len(array'[n])
               /\ \A i \in 1..Len(array'[n]) :
                    /\ Element(n, i, array'[n][i][1]) \in DOMAIN setting'
                    /\ setting'[Element(n, i, array'[n][i][1])] = array'[n][i][2]
    BY <1>3, <1>4, <2>3, <2>4 DEF IInv, Stored
  <2>5. <<node, Size>> \in DOMAIN setting' /\ Len(array'[node]) = size
    BY <1>2, <1>3, <1>4
  <2> QED  BY <2>1, <2>2, <2>4, <2>5 DEF Stored, Element
<1>10. Alone'
  <2>1. \A n \in Nodes \ {node} : Elements(n)' \subseteq Elements(n)
    BY <1>3, <1>6, <1>7 DEF Elements
  <2>2. ASSUME Elements(node) = {}, NEW p \in Elements(node)'
        PROVE  \E i \in 1..Len(array'[node]) : p = Element(node, i, array'[node][i][1])
    <3>1. p \in written
      BY <1>3, <1>7, <2>2 DEF Elements
    <3>2. PICK i \in 1..size : p = Element(node, i, keys[i])
      BY <1>6, <3>1
    <3>3. array'[node][i][1] = keys[i]
      BY <1>4 DEF entries
    <3> QED  BY <1>2, <1>4, <3>2, <3>3
  <2> QED  BY <1>3, <1>4, <2>1, <2>2 DEF IInv, Alone
<1> QED  BY <1>8, <1>9, <1>10 DEF IInv

LEMMA NextInv ==
  ASSUME IInv, [Next]_vars
  PROVE  IInv'
<1>1. CASE Next
  <2>1. calls' \in 0..MaxCalls
    BY <1>1, BoundAssumption DEF Next, IInv, TypeOK
  <2>2. None \notin Names /\ None \notin Nodes
    BY NamesAssumption
  <2> QED
    BY <1>1, <2>1, <2>2, SetValueKeeps, SetGroupKeeps, SetArrayKeeps, RemoveNodeValueKeeps,
       RemoveNodeKeeps DEF Next
<1>2. CASE UNCHANGED vars
  BY <1>2 DEF vars, IInv, TypeOK, Stored, Alone, Elements
<1> QED  BY <1>1, <1>2

THEOREM Invariant == Spec => []IInv
<1>1. Init => IInv
  BY InitInv
<1>2. IInv /\ [Next]_vars => IInv'
  BY NextInv
<1> QED  BY <1>1, <1>2, PTL DEF Spec

LEMMA ReadsArrays == IInv => ArraysReadBack
<1> SUFFICES ASSUME IInv, NEW node \in Nodes, array[node] # None,
                    \A i \in DOMAIN array[node] : array[node][i][1] = i - 1
             PROVE  GetArrays(node) =
                        [i \in 1..Len(array[node]) |-> array[node][Len(array[node]) - i + 1][2]]
  BY DEF ArraysReadBack
<1> DEFINE size == Len(array[node])
<1>1. array[node] \in Seq(Names \X Values) /\ size \in Nat
  BY DEF IInv, TypeOK
<1>2. ArraySize(node) = size
  BY <1>1 DEF IInv, Stored, ArraySize
<1>3. ASSUME NEW i \in 1..size
      PROVE  Value(Element(node, size - i + 1, size - i)) = array[node][size - i + 1][2]
  <2>1. size - i + 1 \in 1..size /\ size - i + 1 \in DOMAIN array[node]
    BY <1>1
  <2>2. array[node][size - i + 1][1] = size - i
    BY <1>1, <2>1
  <2> QED  BY <2>1, <2>2 DEF IInv, Stored, Value
<1> QED  BY <1>2, <1>3 DEF GetArrays

LEMMA ReadsElements == IInv => ElementsReadBack
<1> SUFFICES ASSUME IInv, NEW node \in Nodes, array[node] # None
             PROVE  LET written == {array[node][i] : i \in DOMAIN array[node]}
                        read == GetArray(node, {entry[1] : entry \in written})
                    IN  written \subseteq read /\ (node \notin over => read = written)
  BY DEF ElementsReadBack
<1> DEFINE written == {array[node][i] : i \in DOMAIN array[node]}
           keys == {entry[1] : entry \in written}
<1>1. /\ array[node] \in Seq(Names \X Values)
      /\ DOMAIN array[node] = 1..Len(array[node])
  BY DEF IInv, TypeOK
<1>2. ASSUME NEW i \in 1..Len(array[node])
      PROVE  LET p == Element(node, i, array[node][i][1])
             IN  /\ p \in Elements(node) /\ p[3] \in keys
                 /\ <<p[3], setting[p]>> = array[node][i]
  <2>1. array[node][i] \in Names \X Values /\ array[node][i] \in written
    BY <1>1
  <2> DEFINE p == Element(node, i, array[node][i][1])
  <2>2. p \in DOMAIN setting /\ setting[p] = array[node][i][2]
    BY DEF IInv, Stored
  <2>3. Len(p) = 3 /\ p[1] = node /\ p[3] = array[node][i][1]
    BY DEF Element
  <2>4. array[node][i] = <<array[node][i][1], array[node][i][2]>>
    BY <2>1
  <2>5. p[3] \in keys
    BY <2>1, <2>3
  <2>6. p \in Elements(node)
    BY <2>2, <2>3 DEF Elements
  <2>7. <<p[3], setting[p]>> = array[node][i]
    BY <2>2, <2>3, <2>4
  <2> QED  BY <2>5, <2>6, <2>7
<1>3. written \subseteq GetArray(node, keys)
  BY <1>1, <1>2 DEF GetArray
<1>4. ASSUME node \notin over
      PROVE  GetArray(node, keys) \subseteq written
  <2>1. ASSUME NEW p \in Elements(node)
        PROVE  <<p[3], setting[p]>> \in written
    <3>1. PICK i \in 1..Len(array[node]) : p = Element(node, i, array[node][i][1])
      BY <1>4 DEF IInv, Alone
    <3> QED  BY <1>1, <1>2, <3>1
  <2> QED  BY <2>1 DEF GetArray
<1> QED  BY <1>3, <1>4

(* The file, a function from paths to values, and the histories keep their types. *)
THEOREM TypeCorrect == Spec => []TypeOK
<1>1. IInv => TypeOK
  BY DEF IInv
<1> QED  BY <1>1, Invariant, PTL

(* Whatever was written and removed before, what SetArray() writes under its indices is what *)
(* GetArrays() reads, until the node is written or removed otherwise.                        *)
THEOREM ArraysCorrect == Spec => []ArraysReadBack
  BY Invariant, ReadsArrays, PTL

(* What SetArray() writes is what GetArray() reads for its keys, and all it reads if the node *)
(* had no elements before.                                                                    *)
THEOREM ElementsCorrect == Spec => []ElementsReadBack
  BY Invariant, ReadsElements, PTL
=============================================================================
