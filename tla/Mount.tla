-------------------------------- MODULE Mount --------------------------------
(***************************************************************************)
(* kdbOpen() and kdbClose(): which backend is responsible for a key.  The  *)
(* mounted backends are kept twice, in a trie of their mountpoints         *)
(* (src/libs/elektra/trie.c), which answers what backend a key belongs to, *)
(* and in the list kdb->split (split.c), from which kdbGet() and kdbSet()  *)
(* take the backends they work with.  mount.c fills both.                  *)
(*                                                                         *)
(* A name is a sequence of characters.  The parts of a name are one or two *)
(* characters long; the namespaces spec and system begin alike.            *)
(***************************************************************************)
EXTENDS Integers, Sequences, FiniteSets, FiniteSetsExt, SequencesExt

CONSTANTS
    Configured,  \* the backends for the entries of the configuration
    Modules,     \* the plugin names of the modules that are loaded
    Letters,     \* the characters in the parts of names
    Paths,       \* the paths of the mountpoints and of the keys that are asked for
    Configs      \* what may be mounted: sequences of mountpoints

Namespaces == <<"spec", "dir", "user", "system">>
NS == {"spec", "dir", "user", "system"}
NamespaceName ==
    [spec |-> <<"s", "p">>, dir |-> <<"d">>, user |-> <<"u">>, system |-> <<"s", "y">>]

\* The name of a key, and of a backend: an empty path is the root.  The
\* namespace of a cascading name is "/".
Name(ns, path) == NamespaceName[ns] \o FlattenSeq([i \in DOMAIN path |-> <<"/">> \o path[i]])
Key(ns, path) == [ns |-> ns, path |-> path]
AllKeys == [ns: NS, path: Paths]
Parents == [ns: NS \cup {"/"}, path: Paths]

Elektra == <<"e", "k">>
Version == <<"v">>
Module == <<"m">>
Characters == Letters \cup {"e", "k", "v", "m"} \cup ToSet(Modules)

\* The backends: those of the configuration, and the built-in ones.
BuiltIn == {"default", "init", "version"}
NULL == "NULL"
Backends == ToSet(Configured) \cup BuiltIn \cup ToSet(Modules)

ASSUME MountAssumption ==
    /\ Modules \in Seq(ToSet(Modules)) /\ Configured \in Seq(ToSet(Configured))
    /\ \A i, j \in DOMAIN Configured : Configured[i] = Configured[j] => i = j
    /\ ToSet(Modules) \cap ToSet(Configured) = {}
    /\ (ToSet(Modules) \cup ToSet(Configured)) \cap (BuiltIn \cup {NULL}) = {}
    /\ "/" \notin Characters
    /\ Paths \subseteq Seq(Seq(Characters))
    /\ Configs \subseteq Seq(Parents) /\ \A c \in Configs : Len(c) <= Len(Configured)

VARIABLES
    pc,          \* the next step of kdbOpen(), "open" after it, "closed" or "failed"
    config,      \* the mountpoints below system/elektra/mountpoints
    inFallback,  \* were they read from the fallback file?
    next,        \* the next entry of config or of Modules
    trie,
    split,       \* kdb->split
    refcounter,  \* the references of the backends, 0 for one that is not allocated
    handle,      \* kdb->defaultBackend and kdb->initBackend
    mounted      \* history: the insertions into the trie

vars == <<pc, config, inFallback, next, trie, split, refcounter, handle, mounted>>

-----------------------------------------------------------------------------
(***************************************************************************)
(* trie.c.  An entry is known by the characters on the way to it from the  *)
(* root, so its text is what it has more than the node it is in.  The node *)
(* behind an entry (its child) is known by the same characters, and the    *)
(* root by none.  A trie is a function from them to the value of the entry *)
(* and the empty_value of the node.  A node without entries and without    *)
(* empty_value stands for the null pointer.                                *)
(***************************************************************************)
Slot(value, empty_value) == [value |-> value, empty_value |-> empty_value]
EmptyTrie == [n \in {<<>>} |-> Slot(NULL, NULL)]
Put(t, name, slot) == [n \in DOMAIN t \cup {name} |-> IF n = name THEN slot ELSE t[n]]

First(name, i) == SubSeq(name, 1, i)

\* The first mismatch in substr, 0 if str starts with it.
elektraTrieStartsWith(str, substr) ==
    LET mismatches == {i \in 1..Len(substr) : i > Len(str) \/ substr[i] # str[i]}
    IN IF mismatches = {} THEN 0 ELSE Min(mismatches)

\* What begins with the first i characters of name and the next one; the
\* shortest of these is the entry for name in the node of the first i.
Alike(t, name, i) == {n \in DOMAIN t : i < Len(name) /\ i < Len(n) /\ First(n, i + 1) = First(name, i + 1)}
Shortest(S) == CHOOSE n \in S : \A m \in S : Len(n) <= Len(m)

\* As if a split entry kept its value.
SplitKeepsValue(t, entry, short, name, value) ==
    LET u == Put(t, short, Slot(t[entry].value, IF name = short THEN value ELSE NULL))
    IN IF name = short THEN u ELSE Put(u, name, Slot(value, NULL))

\* The entry is shortened; what is left of it, with its value and child, comes
\* into the new node, and so does what is left of name.
Split(t, entry, short, name, value) ==
    LET u == Put(t, short, Slot(NULL, IF name = short THEN value ELSE NULL))
    IN IF name = short THEN u ELSE Put(u, name, Slot(value, NULL))

trieInsert(t, name, value) ==
    LET insert[i \in 0..Len(name)] ==
            LET alike == Alike(t, name, i)
                e == Shortest(alike)
                p == elektraTrieStartsWith(name, e)
            IN IF i = Len(name) THEN [t EXCEPT ![name].empty_value = value]
               ELSE IF alike = {} THEN Put(t, name, Slot(value, NULL))
               ELSE IF p = 0 THEN insert[Len(e)]
               ELSE Split(t, e, First(e, p - 1), name, value)
    IN insert[0]

elektraTriePrefixLookup(t, name) ==
    LET lookup[i \in 0..Len(name)] ==
            LET alike == Alike(t, name, i)
                e == Shortest(alike)
                ret == lookup[Len(e)]
                empty_value == t[First(name, i)].empty_value
            IN IF alike = {} \/ elektraTrieStartsWith(name, e) # 0 THEN empty_value
               ELSE IF ret # NULL THEN ret
               ELSE IF t[e].value # NULL THEN t[e].value ELSE empty_value
    IN lookup[0]

\* How often trieClose() closes a backend.
Slots(t, b) ==
    Cardinality({n \in DOMAIN t : t[n].value = b}) + Cardinality({n \in DOMAIN t : t[n].empty_value = b})

\* The name with the slash that trieLookup() and mountBackend() add.
TrieName(k) == Append(Name(k.ns, k.path), "/")

trieLookup(t, k) == elektraTriePrefixLookup(t, TrieName(k))

mountGetBackend(k) == IF trieLookup(trie, k) = NULL THEN handle.default ELSE trieLookup(trie, k)

-----------------------------------------------------------------------------
(***************************************************************************)
(* split.c.                                                                *)
(***************************************************************************)
Part(b, k, cascading) == [backend |-> b, parent |-> k, cascading |-> cascading]

\* keyRel (k, j) >= 0
IsAbove(k, j) == k.ns = j.ns /\ IsPrefix(k.path, j.path)

\* The parts of kdb->split that are in S, in their order.
Selected(S) ==
    LET selected[i \in 0..Len(split)] ==
            IF i = 0 THEN <<>>
            ELSE IF split[i] \in S THEN Append(selected[i - 1], split[i]) ELSE selected[i - 1]
    IN selected[Len(split)]

\* As if only the backends below the parent key were added.
BelowOnly(k) == Selected({s \in ToSet(split) : IsAbove(k, s.parent)})

\* The backend of the parent key, and those below.
Relevant(k) ==
    LET b == mountGetBackend(k)
    IN Selected({s \in ToSet(split) : (s.backend = b /\ IsAbove(s.parent, k)) \/ IsAbove(k, s.parent)})

\* The backends that kdbGet() and kdbSet() with the parent key k work with.
splitBuildup(k) ==
    IF k.ns # "/" THEN Relevant(k)
    ELSE IF k.path = <<>> THEN split
    ELSE FlattenSeq([i \in DOMAIN Namespaces |-> Relevant(Key(Namespaces[i], k.path))])

\* The part of a split in which splitDivide() and splitAppoint() put a key.
splitSearchBackend(parts, b, k) ==
    SelectInSeq(parts, LAMBDA s : s.backend = b /\ (s.cascading => s.parent.ns = k.ns))

-----------------------------------------------------------------------------
(***************************************************************************)
(* mount.c: mountBackend inserts a backend once or once for each           *)
(* namespace.                                                              *)
(***************************************************************************)
\* The keys at which a backend with mountpoint mp is mounted, and whether the
\* parts in the split are kept apart by namespaces.
MountKeys(mp) ==
    IF mp.ns # "/" THEN <<mp>>
    ELSE IF mp.path = <<>> THEN [i \in 1..4 |-> Key(Namespaces[i], <<>>)]
    ELSE [i \in 1..3 |-> Key(Namespaces[i + 1], mp.path)]

Inserted(t, b, keys) ==
    LET after[i \in 0..Len(keys)] == IF i = 0 THEN t ELSE trieInsert(after[i - 1], TrieName(keys[i]), b)
    IN after[Len(keys)]

\* The reference counter becomes the number of insertions, plus extra.
MountAt(b, keys, extra, refs) ==
    /\ trie' = Inserted(trie, b, keys)
    /\ mounted' = mounted \o [i \in DOMAIN keys |-> [name |-> TrieName(keys[i]), backend |-> b]]
    /\ refcounter' = [refs EXCEPT ![b] = Len(keys) + extra]

mountBackend(b, mp) ==
    /\ MountAt(b, MountKeys(mp), 0, refcounter)
    /\ split' = split \o [i \in DOMAIN MountKeys(mp) |-> Part(b, MountKeys(mp)[i], mp.ns = "/")]

Init ==
    /\ pc = "bootstrap"
    /\ config = <<>> /\ inFallback = FALSE /\ next = 1
    /\ trie = EmptyTrie /\ split = <<>> /\ mounted = <<>>
    /\ refcounter = [b \in Backends |-> 0]
    /\ handle = [default |-> NULL, init |-> NULL]

\* elektraOpenBootstrap: system/elektra is read with a backend that is closed
\* again before anything is mounted, from the init file or from the fallback.
elektraOpenBootstrap ==
    /\ pc = "bootstrap"
    /\ config' \in Configs
    /\ inFallback' \in BOOLEAN
    /\ pc' = "mountOpen"
    /\ UNCHANGED <<next, trie, split, refcounter, handle, mounted>>

elektraOpenBootstrapFail ==
    /\ pc = "bootstrap"
    /\ pc' = "failed"
    /\ UNCHANGED <<config, inFallback, next, trie, split, refcounter, handle, mounted>>

\* One entry of the configuration.
mountOpen ==
    /\ pc = "mountOpen" /\ next <= Len(config)
    /\ mountBackend(Configured[next], config[next])
    /\ next' = next + 1
    /\ UNCHANGED <<pc, config, inFallback, handle>>

\* The entry has no mountpoint: its backend is closed and left out.
mountOpenSkip ==
    /\ pc = "mountOpen" /\ next <= Len(config)
    /\ next' = next + 1
    /\ UNCHANGED <<pc, config, inFallback, trie, split, refcounter, handle, mounted>>

mountOpenEnd ==
    /\ pc = "mountOpen" /\ next > Len(config)
    /\ pc' = "mountDefault" /\ next' = 1
    /\ UNCHANGED <<config, inFallback, trie, split, refcounter, handle, mounted>>

-----------------------------------------------------------------------------
(***************************************************************************)
(* mountDefault: the default backend takes what is left of each namespace, *)
(* and system/elektra stays with the backend that kdbOpen() has read it    *)
(* from.                                                                   *)
(***************************************************************************)
Root(ns) == Key(ns, <<>>)
SystemElektra == Key("system", <<Elektra>>)
BackendIn(t, k) == IF trieLookup(t, k) = NULL THEN "default" ELSE trieLookup(t, k)
\* The part of the default backend in a namespace whose root is not mounted.
DefaultPart(t, ns) == IF BackendIn(t, Root(ns)) = "default" THEN <<Part("default", Root(ns), TRUE)>> ELSE <<>>
DefaultParts == DefaultPart(trie, "spec") \o DefaultPart(trie, "dir") \o DefaultPart(trie, "user")

\* As if system/elektra were mounted only where it belongs to nobody else.
mountInitIfFree ==
    /\ IF BackendIn(trie, SystemElektra) = "default"
       THEN MountAt("init", <<SystemElektra>>, 1, [refcounter EXCEPT !["default"] = 1])
       ELSE UNCHANGED <<trie, mounted>> /\ refcounter' = [refcounter EXCEPT !["init"] = 1, !["default"] = 1]
    /\ split' = split \o DefaultParts \o <<Part("init", SystemElektra, TRUE)>> \o DefaultPart(trie', "system")

\* As if the reference of the handle were not counted.
mountInitUncounted ==
    /\ MountAt("init", <<SystemElektra>>, 0, [refcounter EXCEPT !["default"] = 1])
    /\ split' = split \o DefaultParts \o <<Part("init", SystemElektra, TRUE)>> \o DefaultPart(trie', "system")

mountInit ==
    /\ MountAt("init", <<SystemElektra>>, 1, [refcounter EXCEPT !["default"] = 1])
    /\ split' = split \o DefaultParts \o <<Part("init", SystemElektra, TRUE)>> \o DefaultPart(trie', "system")

mountFallback ==
    IF BackendIn(trie, SystemElektra) = "default"
    THEN /\ split' = split \o DefaultParts \o <<Part("default", Root("system"), TRUE)>>
         /\ refcounter' = [refcounter EXCEPT !["default"] = 1]
         /\ UNCHANGED <<trie, mounted>>
    ELSE /\ MountAt("default", <<SystemElektra>>, 1, refcounter)
         /\ split' = split \o DefaultParts \o <<Part("default", SystemElektra, TRUE)>>

mountDefault ==
    /\ pc = "mountDefault"
    /\ IF inFallback THEN mountFallback ELSE mountInit
    /\ handle' = [default |-> "default", init |-> IF inFallback THEN NULL ELSE "init"]
    /\ pc' = "mountVersion"
    /\ UNCHANGED <<config, inFallback, next>>

\* As if the handle did not keep the default backend when the init backend
\* cannot be opened.
mountDefaultFailForgets(default) ==
    /\ pc = "mountDefault"
    /\ default # NULL => ~inFallback
    /\ refcounter' = [b \in Backends |-> IF b = default THEN 1 ELSE refcounter[b]]
    /\ pc' = "giveUp"
    /\ UNCHANGED <<config, inFallback, next, trie, split, handle, mounted>>

\* The default backend, or the init backend after it, cannot be opened.
mountDefaultFail(default) ==
    /\ pc = "mountDefault"
    /\ default # NULL => ~inFallback
    /\ handle' = [handle EXCEPT !.default = default]
    /\ refcounter' = [b \in Backends |-> IF b = default THEN 1 ELSE refcounter[b]]
    /\ pc' = "giveUp"
    /\ UNCHANGED <<config, inFallback, next, trie, split, mounted>>

mountVersion ==
    /\ pc = "mountVersion"
    /\ mountBackend("version", Key("system", <<Elektra, Version>>))
    /\ pc' = "mountModules"
    /\ UNCHANGED <<config, inFallback, next, handle>>

\* One module; one that has been mounted before is closed again.
mountModules ==
    /\ pc = "mountModules" /\ next <= Len(Modules)
    /\ IF \E i \in 1..(next - 1) : Modules[i] = Modules[next]
       THEN UNCHANGED <<trie, split, refcounter, mounted>>
       ELSE mountBackend(Modules[next], Key("system", <<Elektra, Module, <<Modules[next]>>>>))
    /\ next' = next + 1
    /\ UNCHANGED <<pc, config, inFallback, handle>>

\* After the last module, or at once when the modules have no root key.
mountModulesEnd ==
    /\ pc = "mountModules" /\ next \in {1, Len(Modules) + 1}
    /\ pc' = "open"
    /\ UNCHANGED <<config, inFallback, next, trie, split, refcounter, handle, mounted>>

kdbClose ==
    /\ pc \in {"open", "giveUp"}
    /\ refcounter' = [b \in Backends |-> refcounter[b] - Slots(trie, b)
                                          - (IF handle.default = b THEN 1 ELSE 0)
                                          - (IF handle.init = b THEN 1 ELSE 0)]
    /\ pc' = IF pc = "open" THEN "closed" ELSE "failed"
    /\ UNCHANGED <<config, inFallback, next, trie, split, handle, mounted>>

kdbOpen ==
    \/ elektraOpenBootstrap \/ elektraOpenBootstrapFail
    \/ mountOpen \/ mountOpenSkip \/ mountOpenEnd
    \/ mountDefault \/ (\E default \in {NULL, "default"} : mountDefaultFail(default))
    \/ mountVersion
    \/ mountModules \/ mountModulesEnd

Next == kdbOpen \/ kdbClose

Spec == Init /\ [][Next]_vars

-----------------------------------------------------------------------------
\* No backend is closed more often than it is referenced.
MountTypeOK ==
    /\ pc \in {"bootstrap", "mountOpen", "mountDefault", "mountVersion", "mountModules",
               "open", "giveUp", "closed", "failed"}
    /\ refcounter \in [Backends -> Nat]
    /\ handle \in [default: {NULL, "default"}, init: {NULL, "init"}]
    /\ split \in Seq([backend: Backends, parent: [ns: NS, path: Seq(Seq(Characters))], cascading: BOOLEAN])

\* A key belongs to the backend with the longest mountpoint above it, of two
\* with the same mountpoint to the one mounted last, and to the default
\* backend if there is none, in whatever order the backends were mounted.
LongestMountpoint ==
    \A k \in AllKeys :
        LET name == TrieName(k)
            above == {i \in DOMAIN mounted : IsPrefix(mounted[i].name, name)}
            longest == {i \in above : \A j \in above : Len(mounted[j].name) <= Len(mounted[i].name)}
        IN mountGetBackend(k) = IF above = {} THEN handle.default ELSE mounted[Max(longest)].backend

\* Whatever is mounted, the mountpoints stay where kdbOpen() reads them:
\* system/elektra belongs to the init backend, in fallback to the default one.
ElektraStaysReachable ==
    pc = "open" => mountGetBackend(SystemElektra) = IF inFallback THEN "default" ELSE "init"

\* No backend of the configuration is mounted at system/elektra itself.
ElektraIsFree == \A i \in DOMAIN config : config[i] \notin {SystemElektra, Key("/", SystemElektra.path)}

\* kdbGet() and kdbSet() reach every key at or below their parent key: its
\* backend is in the split they work with, in a part that is above the key.
\* (mountFallback takes system/elektra back from a backend that is mounted
\* there, and then leaves out the part for the rest of the namespace.)
EveryKeyIsSplit ==
    pc = "open" /\ (inFallback => ElektraIsFree) => \A p \in Parents :
        LET parts == splitBuildup(p)
        IN \A k \in AllKeys : p.ns \in {"/", k.ns} /\ IsPrefix(p.path, k.path) =>
               LET i == splitSearchBackend(parts, mountGetBackend(k), k)
               IN i # 0 /\ IsAbove(parts[i].parent, k)

\* kdbClose(), also the one of a kdbOpen() that fails, releases every backend
\* that no other one has replaced at the same mountpoint.
AllReleased ==
    pc \in {"closed", "failed"} => \A b \in Backends :
        \/ refcounter[b] = 0
        \/ \E i, j \in DOMAIN mounted :
             i < j /\ mounted[i].name = mounted[j].name /\ mounted[i].backend = b
=============================================================================
