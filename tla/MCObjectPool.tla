--------------------------- MODULE MCObjectPool ---------------------------
(* The instances of ObjectPool that TLC checks. *)
EXTENDS ObjectPool, TLC

CONSTANTS o1, o2, o3, o4

MCObjects == {o1, o2, o3, o4}

ObjectSymmetry == Permutations(MCObjects)

KindOrder == [array |-> 1, plain |-> 2, string |-> 3, value |-> 4, values |-> 5]

\* Are the first n shapes of s in the order of their kinds?  It is enough to look
\* at such heaps, as a dump may start from any object.
InOrder(s, n) == \A i \in 1..(n - 1) : KindOrder[s[i][1]] <= KindOrder[s[i + 1][1]]

Index == (o1 :> 1) @@ (o2 :> 2) @@ (o3 :> 3) @@ (o4 :> 4)

\* What the elements of an array of values or strings can be
WellTyped(s) ==
  \A i \in DOMAIN s : s[i][1] = "values" =>
    s[Index[s[i][2][1]]][1] \in {"value", "string"}

\* A hash code is called by an object that has it.  All are different, or one is
\* that of two objects, or of three.
Different == [o \in Objects |-> o]
MCHashes ==
  {Different, [Different EXCEPT ![o2] = o1], [Different EXCEPT ![o3] = o1],
   [Different EXCEPT ![o3] = o2], [Different EXCEPT ![o2] = o1, ![o3] = o1]}

\* The heap of shapes s, given in the order of the objects
Graph(s) ==
  [hash  |-> Different,
   kind  |-> (o1 :> s[1][1]) @@ (o2 :> s[2][1]) @@ (o3 :> s[3][1]) @@ (o4 :> s[4][1]),
   field |-> (o1 :> s[1][2]) @@ (o2 :> s[2][2]) @@ (o3 :> s[3][2]) @@ (o4 :> s[4][2])]

String == <<"string", <<>>>>

\* Three objects: plain ones have two fields, values one, arrays one or none.
Shapes3 ==
  LET T == {o1, o2, o3} IN
  ({"plain"} \X ((T \cup {NoObject}) \X (T \cup {NoObject})))
    \cup ({"array", "value", "values"} \X {<<t>> : t \in T})
    \cup {<<"array", <<>>>>, String}

Graphs3 ==
  {Graph(s) : s \in {t \in Shapes3 \X Shapes3 \X Shapes3 \X {String} :
     InOrder(t, 3) /\ WellTyped(t)}}

\* Four objects: everything has one field.
Shapes4 ==
  ({"plain", "array", "value", "values"} \X {<<o>> : o \in Objects}) \cup {String}

Graphs4 ==
  {Graph(s) : s \in {t \in Shapes4 \X Shapes4 \X Shapes4 \X Shapes4 :
     InOrder(t, 4) /\ WellTyped(t)}}

\* Three objects: everything has one field, and hash codes may be equal.
Shapes1 ==
  ({"plain", "array", "value", "values"} \X {<<o>> : o \in {o1, o2, o3}}) \cup {String}

Graphs1 ==
  {[Graph(s) EXCEPT !.hash = hash] :
     s \in {t \in Shapes1 \X Shapes1 \X Shapes1 \X {String} : InOrder(t, 3) /\ WellTyped(t)},
     hash \in MCHashes}

\* By hash code and by tag, without a limit and with one.
MCHeaps ==
  {[graphs |-> Graphs3,
    settings |-> {[nest |-> 2, limit |-> 100, byTag |-> FALSE],
                  [nest |-> 2, limit |-> 100, byTag |-> TRUE]}],
   [graphs |-> Graphs4,
    settings |-> {[nest |-> 1, limit |-> 100, byTag |-> FALSE]}],
   [graphs |-> Graphs1,
    settings |-> {[nest |-> 1, limit |-> 100, byTag |-> FALSE],
                  [nest |-> 2, limit |-> 3, byTag |-> FALSE]}]}

=============================================================================
