----------------------------- MODULE MCPackages -----------------------------
(* Two packages over one helper, and a later version of the helper that    *)
(* needs a further file; both need one Python package, spelled two ways,   *)
(* and the first spells the helper's otherwise than the helper does.       *)
EXTENDS Packages, TLC

CONSTANTS a, b, c, d

TheTargets == {{a}, {b}, {a, b}}
TheNeeds == (a :> <<{c}, {c}>>) @@ (b :> <<{c}, {c}>>) @@ (c :> <<{}, {d}>>)
            @@ (d :> <<{}, {}>>)
ThePips == (a :> <<{"Yaml", "LXML"}, {"Yaml", "LXML"}>>) @@ (b :> <<{"yaml"}, {"yaml"}>>)
           @@ (c :> <<{"lxml"}, {"lxml"}>>) @@ (d :> <<{}, {}>>)
TheStore == <<(a :> 1) @@ (b :> 1) @@ (c :> 1) @@ (d :> 0),
              (a :> 1) @@ (b :> 1) @@ (c :> 2) @@ (d :> 1)>>
NoOthers == [files |-> {}, pips |-> {}]
Lower(n) == IF n = "Yaml" THEN "yaml" ELSE IF n = "LXML" THEN "lxml" ELSE n
=============================================================================
