------------------------------ MODULE MCLookup ------------------------------
(***************************************************************************)
(* An instance of Lookup for TLC: two paths that may be linked with each   *)
(* other and with themselves.                                              *)
(***************************************************************************)
EXTENDS Lookup

p == "p"
q == "q"
TwoPaths == {p, q}
AnyKeys == SUBSET {<<"spec", p>>, <<"spec", q>>, <<"dir", p>>, <<"user", p>>, <<"user", q>>, <<"system", q>>}

Meta(override, namespaces, fallback) ==
    [override: override, namespaces: namespaces, fallback: fallback, default: BOOLEAN]
LinkedSpecs ==
    {(p :> m @@ q :> n) :
        m \in Meta({<<>>, <<<<"/", q>>>>, <<<<"dir", q>>, <<"/", p>>>>}, {<<>>, <<"system", "user">>},
                   {<<>>, <<<<"/", q>>>>}),
        n \in Meta({<<>>, <<<<"/", p>>>>}, {<<>>, <<"system">>}, {<<>>})}
Options == {{}, {"NODEFAULT"}, {"NOSPEC"}, {"POP"}, {"CREATE"}}
=============================================================================
