----------------------------- MODULE MCRegistry -----------------------------
EXTENDS Registry
CONSTANTS s1, s2, e1, r1, w1, b1, a1, k1, k2, any

\* What shares something with something else: an alias, a name, a secret, a
\* credential that a binding or a policy refers to.
Calls ==
    [kind : {"addService"}, service : {s1, s2}, aliases : {{a1}}]
    \cup [kind : {"addEnvironment"}, service : {s1, s2}, environment : {e1}]
    \cup [kind : {"addCredentialRef"}, service : {s1}, environment : {e1},
          name : {r1}, access : Access, secret : {k1}]
    \cup [kind : {"addCredentialRef"}, service : {s1}, environment : {e1},
          name : {w1}, access : {"write"}, secret : {k1, k2}]
    \cup [kind : {"addSourceBinding"}, service : {s1}, environment : {e1},
          name : {b1}, ref : {r1}]
    \cup [kind : {"setActionPolicy"}, service : {s1}, environment : {e1},
          allow : {any}, refs : {{w1}}]
    \cup [kind : {"removeEnvironment"}, service : {s1}, environment : {e1}]
    \cup [kind : {"removeService"}, service : {s1, s2}]

=============================================================================
