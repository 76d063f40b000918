---------------------------- MODULE MCDocScenes ----------------------------
(* Two scenes for TLC: the clients of every set, and the clients of one    *)
(* set beside a reader and the collector, with fewer versions.             *)
EXTENDS MCDocStore

VARIABLE scene  \* the sets in use

Scenes == {Set} \cup {{g} : g \in Set}

SceneInit == DocInit /\ scene \in Scenes

VersionsOf(sets) == IF sets = Set THEN MaxVersion ELSE MaxVersion - 1

(* What is written, and the set a replaced doc is in, may still move on. *)
RequestsOn ==
    [sets \in Scenes |->
        {mod \in DocRequests :
            /\ \A o \in mod.inserts \cup mod.setDepends \cup mod.arrives : o.set \in sets
            /\ \A o \in mod.depends : o.version <= VersionsOf(sets)
            /\ \A o \in mod.changes \cup mod.deletes \cup mod.setDepends \cup mod.arrives :
                   o.version < VersionsOf(sets)}]

SceneNext ==
    /\ \/ ClientStep(RequestsOn[scene], scene)
       \/ Restart
       \/ scene # Set /\ (CollectorStep \/ Reader)
    /\ \A g \in Set : locks'[g].version <= VersionsOf(scene)
    /\ UNCHANGED scene

SceneSpec == SceneInit /\ [][SceneNext]_<<docVars, scene>>
=============================================================================
