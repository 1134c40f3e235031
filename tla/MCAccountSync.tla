---------------------------- MODULE MCAccountSync ----------------------------
(***************************************************************************)
(* Two devices with a tab each; and the hosted tutor, which trusts their   *)
(* sessions for a while.  A behaviour follows one of them.                 *)
(***************************************************************************)
EXTENDS AccountSync, TutorProxy, TLC

CONSTANTS t1, t2, d1, d2

ATabPerDevice == t1 :> d1 @@ t2 :> d2

VARIABLE part

sessionVars == <<part, vars, proxyVars>>

SessionsInit == part \in {"sync", "tutor"} /\ Init /\ ProxyInit

SessionsNext ==
    \/ part = "sync" /\ Next /\ UNCHANGED <<part, proxyVars>>
    \/ part = "tutor" /\ ProxyNext /\ UNCHANGED <<part, vars>>

SessionsSpec == SessionsInit /\ [][SessionsNext]_sessionVars

\* Swapping the two devices together with their tabs.
DeviceSymmetry ==
    {p \in Permutations({t1, t2, d1, d2}) :
        /\ p[t1] \in {t1, t2} /\ p[t2] \in {t1, t2}
        /\ \A t \in {t1, t2} : p[ATabPerDevice[t]] = ATabPerDevice[p[t]]}

\* A page that is closed, a message lost, storage full, an agreement damaged:
\* two of them and a session that ended are explored with one device, before the
\* other is used.
Faults == reloads + lost + full + damaged

Trouble ==
    \/ Faults > 0
    \/ \E d \in Devices : cookie[d] \notin sessions \cup {NoSession}

Untouched(t) ==
    /\ booting[t] /\ view[t] = FreshState /\ shown[t] = FreshState

TroubleWithOneDevice == Trouble => Faults <= 2 /\ joins <= 2 /\ \E t \in Tabs : Untouched(t)
=============================================================================
