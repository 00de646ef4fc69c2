------------------------------ MODULE MCMount ------------------------------
(***************************************************************************)
(* An instance of Mount for TLC: every sequence of up to MaxMounted        *)
(* mountpoints.                                                            *)
(***************************************************************************)
EXTENDS Mount

CONSTANT MaxMounted

a == <<"a">>
ab == <<"a", "b">>
Mountpoints ==
    {Key("/", <<>>), Key("/", <<a>>), Key("user", <<>>), Key("user", <<a>>), Key("user", <<a, a>>),
     Key("system", <<>>), Key("system", <<Elektra>>), Key("spec", <<a>>)}
AnyConfig == UNION {[1..n -> Mountpoints] : n \in 0..MaxMounted}
FourBackends == <<"b1", "b2", "b3", "b4">>
ThreeModules == <<"r", "x", "r">>
SomePaths == {<<>>, <<a>>, <<ab>>, <<a, a>>, <<Elektra>>, <<Elektra, Module, <<"r">>>>}
=============================================================================
