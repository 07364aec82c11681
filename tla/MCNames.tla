------------------------------- MODULE MCNames -------------------------------
(***************************************************************************)
(* Names with two spawns beside an old daemon, each of either name, and    *)
(* the script that the documents give for a restart.                       *)
(***************************************************************************)
EXTENDS Names, TLC

CONSTANTS s1, s2, k1, web, api
TwoSpawners == {s1, s2}
OneKiller == {k1}
TwoNames == {web, api}
Alike == Permutations({s1, s2}) \union Permutations(TwoNames)

\* SKILL.md:318-322: kill, then spawn with the same --name.
Script == \A s \in Spawners : spc[s] = "idle" /\ spc'[s] # "idle" =>
              \E k \in Killers : kpc[k] = "returned" /\ victim[k] = Old
RestartSpec == Init /\ [][Next /\ Script]_vars

\* SKILL.md:304-325: to kill and then to spawn with the same --name "is the only
\* sanctioned way to get a fresh process for a named role".
RestartTakesTheName == \A s \in Spawners : spc[s] # "refused"

=============================================================================
