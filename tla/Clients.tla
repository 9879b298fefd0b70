-------------------------------- MODULE Clients --------------------------------
(***************************************************************************)
(* The commands of the CLI over the registry they share: aic apply, aic    *)
(* incident start and aic incident investigate.  A behaviour has a cast,   *)
(* the commands that run in it beside the registry's other clients.        *)
(***************************************************************************)
EXTENDS RegistryApply, IncidentInvestigate

CONSTANTS Casts,  \* the casts of this instance
          Asked,  \* in each cast, what each registry client asks for
          Until,  \* bound: in each cast, mutations after which none is asked
          Before, \* in each cast, the mutations made before it begins
          Begun   \* in each cast, the incidents started before it begins

VARIABLE cast

clientVars == <<vars, applyVars, startVars, commandVars, cast>>

\* The registry after these mutations, each numbered by its place.
After(mutations) ==
    LET m[n \in 0..Len(mutations)] ==
            IF n = 0 THEN [tables |-> Empty, events |-> {}]
            ELSE LET made == Outcome(m[n - 1].tables, mutations[n], n)
                 IN  [tables |-> Changed(m[n - 1].tables, made),
                      events |-> m[n - 1].events \cup EventsOf(made)]
    IN  m[Len(mutations)]

ClientsInit ==
    /\ cast \in Casts
    /\ tables = After(Before[cast]).tables
    /\ events = After(Before[cast]).events
    /\ issued = Len(Before[cast])
    /\ incidents = Begun[cast]
    /\ Idle
    /\ NoApply
    /\ NoStart
    /\ NoInvestigation

\* What the registry's clients are asked for in this cast.
AsCast ==
    /\ issued <= Until[cast]
    /\ \A c \in Client : op[c] \in Asked[cast][c] \cup {None}

ClientsNext ==
    /\ \/ /\ cast = "apply"
          /\ ApplyNext
          /\ UNCHANGED <<startVars, commandVars>>
       \/ /\ cast = "start"
          /\ StartNext
          /\ UNCHANGED <<applyVars, commandVars>>
       \/ /\ cast = "investigate"
          /\ InvestigateNext \/ (Next /\ UNCHANGED <<startVars, commandVars>>)
          /\ UNCHANGED applyVars
    /\ UNCHANGED cast
    /\ AsCast'

ClientsSpec == ClientsInit /\ [][ClientsNext]_clientVars

=============================================================================
