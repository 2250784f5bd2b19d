-------------------------- MODULE MCRichProviders --------------------------
(* An instance of RichProviders for TLC.                                   *)
EXTENDS RichProviders

CONSTANTS e, f, b, code, other, w1, w2, kExact, kStem, t1, t2

\* Two tabs in two windows of the browser.
TwoPatches == t1 :> 1 @@ t2 :> 2

\* The application has an exact key; both have the stem.
SomeKeys == code :> {kExact, kStem} @@ other :> {kStem}

\* The provider only knows the stem of its application and claims another id.
StemKey == {kStem}

SomeWorlds == {code :> {w1}, code :> {w1, w2}, code :> {w1} @@ other :> {w2}}

B(changes, commands, natives, expiries, reloads, drops, dials) ==
    [changes |-> changes, commands |-> commands, natives |-> natives, expiries |-> expiries,
     reloads |-> reloads, drops |-> drops, dials |-> dials]

S(hosts1, native1, budget1) == [hosts |-> hosts1, native |-> native1, budget |-> budget1]

\* The shell's world changes under a provider; a host alone goes through drops,
\* restarts of the daemon and of itself, commands and dials that fail; two editors
\* share the provider.
SomeStarts ==
    {S({h}, w, B(1, 0, 1, 1, 0, 0, 0)) : h \in {e, b}, w \in SomeWorlds}
    \cup {S({h}, code :> {w1}, x) : h \in {e, b},
            x \in {B(1, 1, 0, 1, 0, 1, 1), B(1, 1, 0, 0, 1, 1, 0)}}
    \cup {S({e, f}, code :> {w1, w2}, x) : x \in {B(0, 1, 0, 0, 0, 1, 0), B(0, 0, 0, 0, 1, 0, 0)}}
=============================================================================
