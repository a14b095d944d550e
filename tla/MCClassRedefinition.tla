------------------------ MODULE MCClassRedefinition ------------------------
(* The instance of ClassRedefinition that TLC checks. *)
EXTENDS ClassRedefinition, TLC

\* Two classes of one name from different loaders, and one of another name.
MCClasses == {"near", "far", "other"}
MCLoader == [c \in MCClasses |-> CASE c = "near" -> "web1" [] c = "far" -> "web2" [] OTHER -> "boot"]

\* Two keys of the name A, with a string that both urls contain and with one
\* that is part of one url only, and a key of the name B.
MCKeys == {"A", "A#near", "B"}
MCName == ("near" :> "A") @@ ("far" :> "A") @@ ("other" :> "B")
            @@ ("A" :> "A") @@ ("A#near" :> "A") @@ ("B" :> "B")
MCCovers == ("A" :> {"near", "far"}) @@ ("A#near" :> {"near"}) @@ ("B" :> {"other"})
MCKeyOrder == ("A" :> 1) @@ ("A#near" :> 2) @@ ("B" :> 3)
MCUrlOrder == ("far" :> 1) @@ ("near" :> 2) @@ ("other" :> 3)

MCMethods == {"m", "n"}
MCHas == ("near" :> {"m", "n"}) @@ ("far" :> {"m"}) @@ ("other" :> {"m", "n"})

AtStart == [m \in MCMethods |-> 1]
AtEnd == [AtStart EXCEPT !["m"] = 2]

Instances == [type |-> 1, methods |-> {}, at |-> AtStart]
M == [type |-> 2, methods |-> {"m"}, at |-> AtStart]
Moved == [M EXCEPT !.at = AtEnd]
N == [type |-> 2, methods |-> {"n"}, at |-> AtStart]
Both == [type |-> 3, methods |-> {"m"}, at |-> AtStart]

MCConfigs == {
  <<>>,
  [k \in {"A"} |-> M],
  [k \in {"A"} |-> Moved],
  [k \in {"A"} |-> N],
  [k \in {"A#near", "B"} |-> IF k = "B" THEN Instances ELSE M],
  [k \in {"A#near", "B"} |-> IF k = "B" THEN Both ELSE Instances],
  [k \in {"A", "A#near"} |-> M]}

=============================================================================
