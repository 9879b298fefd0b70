------------------------------ MODULE MCClients ------------------------------
EXTENDS Clients, TLC
CONSTANTS s1, e1, b1, k1, any, other, a1, a2, c1, i1, i2, k2

Service1 == [kind |-> "addService", service |-> s1, aliases |-> {}]
Environment1 == [kind |-> "addEnvironment", service |-> s1, environment |-> e1]
Binding1 == [kind |-> "addSourceBinding", service |-> s1, environment |-> e1,
             name |-> b1, ref |-> None]

\* Parents before their children, and a policy that may differ.
Document ==
    <<Service1, Environment1,
      [kind |-> "setActionPolicy", service |-> s1, environment |-> e1,
       allow |-> any, refs |-> {}]>>

\* A document that a single apply would get through.
ASSUME DocumentAssumption == ManifestIsAcceptable

\* Another client sets the policy to something else.
OtherPolicy == [kind |-> "setActionPolicy", service |-> s1, environment |-> e1,
                allow |-> other, refs |-> {}]

NoEnvironment ==
    [kind |-> "removeEnvironment", service |-> s1, environment |-> e1]
NoService == [kind |-> "removeService", service |-> s1]

MCOffered == {Document[i] : i \in DOMAIN Document}
                \cup {OtherPolicy, NoEnvironment, NoService}

By(c, calls) == [d \in Client |-> IF d = c THEN calls ELSE {}]

\* The scope comes, goes with its service or alone, and comes back.
MCAsked == [
    apply |-> [By(c1, {OtherPolicy}) EXCEPT ![a1] = MCOffered, ![a2] = MCOffered],
    start |-> By(c1, {Service1, Environment1, NoEnvironment, NoService}),
    investigate |-> By(c1, {})]

MCUntil == [apply |-> 4, start |-> 4, investigate |-> 6]

MCBefore == [apply |-> <<>>, start |-> <<>>,
             investigate |-> <<Service1, Environment1, NoEnvironment, Environment1, Binding1>>]

\* Two incidents of one scope.
Started(starter, number, environment, basis) ==
    [id |-> <<starter, number>>,
     key |-> [service |-> 1, environment |-> environment, basis |-> basis]]
MCBegun == [apply |-> {}, start |-> {},
            investigate |-> {Started(i1, 1, 4, k1), Started(i1, 2, 4, k2)}]

\* The id that is the first one's by default.
MCNamedRun == {<<i1, 1>>}

Symmetry == Permutations(Found) \cup Permutations(Investigator)

=============================================================================
