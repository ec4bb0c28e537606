------------------------------ MODULE Plugins ------------------------------
(***************************************************************************)
(* Plugin files and what is registered from them: discovery at start       *)
(* (plugins/plugin_discovery), the watcher whose tick compares the files   *)
(* with those it saw before (service_plugin_watcher), the ReloadPlugin     *)
(* request that loads or unloads one (plugin_reload), calls of tools       *)
(* (agent/tool_registry) and the supervisor that counts their strikes and  *)
(* condemns a plugin (runtime/supervisor).  People save and remove files,  *)
(* calls end and users refuse requests at any moment of a tick; listing    *)
(* may fail; the process may restart.  A version of a file stands for its  *)
(* mtime and its content.  Left out: names that two files share, plugin    *)
(* settings, announcements, the supervisor's switch.                       *)
(***************************************************************************)
EXTENDS Naturals

CONSTANTS
    Services,   \* files that build services
    Tools,      \* files that hold a tool
    BuiltIn,    \* the files of the kernel's own tree
    Needs,      \* the services that a tool requires
    Oracle,     \* SECOND_BRAIN_ENABLE_LEGACY_PLUGIN_ORACLE: files from outside may be loaded
    Threshold,  \* _STRIKE_THRESHOLD
    Slots,      \* bound: calls at a time
    MaxEdits,   \* bound: saves and removals
    MaxFaults   \* bound: restarts, failed listings, requests refused

Files    == Services \cup Tools
Versions == 0 .. MaxEdits + 1      \* 0: there is no such file

PluginsConstants ==
    /\ BuiltIn \subseteq Files /\ Needs \in [Tools -> SUBSET Services] /\ Services \cap Tools = {}
    /\ Oracle \in BOOLEAN /\ Threshold \in Nat \ {0} /\ MaxEdits \in Nat /\ MaxFaults \in Nat

ASSUME PluginsAssumption == PluginsConstants

VARIABLES
    disk,       \* the version of each file
    broken,     \* files whose content cannot be imported
    reg,        \* the registries: the version registered from each file
    strikes,    \* PluginHealth._strikes
    condemned,  \* PluginHealth._quarantined
    calls,      \* calls under way, each of the tool that the registry held when it began
    seen, pending, quarantined, primed,     \* the watcher's fields
    tick,       \* where the watcher's tick is: the files it listed, those it has
                \* still to load, unload and put away, the condemned it read
    edits, faults,
    off,        \* history: files the watcher is excused from bringing up to date
    blind,      \* history: files whose condemnation the watcher may not notice
    earlier     \* history: the versions listed by ticks before this one

health == <<strikes, condemned>>
watcher == <<seen, pending, quarantined, primed, earlier>>
counters == <<edits, faults>>
vars == <<disk, broken, reg, health, calls, watcher, tick, counters, off, blind>>

NoFiles  == [f \in Files |-> 0]
NoTick   == [pc |-> "idle", cur |-> NoFiles, load |-> {}, drop |-> {}, away |-> {}, read |-> {}]
NoCall   == [file |-> {}]

(* _load_plugin_module: a file from outside is refused without the oracle.  *)
Imports(f) == disk[f] # 0 /\ f \notin broken /\ (f \in BuiltIn \/ Oracle)

(* Discovery imports each file there is.                                   *)
Discovered == [f \in Files |-> IF Imports(f) THEN disk[f] ELSE 0]

Init ==
    /\ disk \in [Files -> {0, 1}] /\ broken = {} /\ reg = Discovered
    /\ strikes = NoFiles /\ condemned = {} /\ calls = [s \in Slots |-> NoCall]
    /\ seen = NoFiles /\ pending = NoFiles /\ quarantined = {} /\ primed = FALSE
    /\ tick = NoTick /\ edits = 0 /\ faults = 0
    /\ off = {} /\ blind = {} /\ earlier = NoFiles

(* A restart forgets strikes and condemnations, and discovers again.       *)
Restart ==
    /\ faults < MaxFaults /\ faults' = faults + 1
    /\ reg' = Discovered
    /\ strikes' = NoFiles /\ condemned' = {} /\ calls' = [s \in Slots |-> NoCall]
    /\ seen' = NoFiles /\ pending' = NoFiles /\ quarantined' = {} /\ primed' = FALSE
    /\ tick' = NoTick
    /\ off' = {} /\ blind' = {} /\ earlier' = NoFiles
    /\ UNCHANGED <<disk, broken, edits>>

----------------------------------------------------------------------------
(* Files change.  Until the first listing the watcher has no baseline.     *)

Touch(f) ==
    /\ edits < MaxEdits /\ edits' = edits + 1
    /\ off' = IF primed \/ tick.pc # "idle" THEN off ELSE off \cup {f}
    /\ UNCHANGED <<reg, health, calls, watcher, tick, faults, blind>>

Save(f) ==
    /\ Touch(f) /\ disk' = [disk EXCEPT ![f] = edits + 2]
    /\ broken' \in {broken \cup {f}, broken \ {f}}

Remove(f) ==
    /\ Touch(f) /\ disk[f] # 0 /\ disk' = [disk EXCEPT ![f] = 0]
    /\ broken' = broken \ {f}

----------------------------------------------------------------------------
(* Calls and the circuit breaker.                                          *)

CallBegin(s, f) ==
    /\ calls[s] = NoCall /\ f \in Tools /\ reg[f] # 0
    /\ \A v \in Needs[f] : reg[v] # 0
    /\ calls' = [calls EXCEPT ![s] = [file |-> {f}]]
    /\ UNCHANGED <<disk, broken, reg, health, watcher, tick, counters, off, blind>>

Success(f) == strikes' = [strikes EXCEPT ![f] = 0] /\ UNCHANGED condemned

(* Strikes that have left the window are dropped when one is recorded.     *)
Strike(f) ==
    IF f \in condemned THEN UNCHANGED health ELSE
    \E n \in {m \in 0 .. strikes[f] : m < Threshold} :
       IF f \notin BuiltIn /\ n + 1 >= Threshold
       THEN condemned' = condemned \cup {f} /\ strikes' = [strikes EXCEPT ![f] = 0]
       ELSE strikes' = [strikes EXCEPT ![f] = n + 1] /\ UNCHANGED condemned

CallEnd(s) == \E f \in calls[s].file :
    /\ Success(f) \/ Strike(f)
    /\ calls' = [calls EXCEPT ![s] = NoCall]
    /\ UNCHANGED <<disk, broken, reg, watcher, tick, counters, off, blind>>

----------------------------------------------------------------------------
(* One tick of the watcher.                                                *)

(* Mutant: the baseline advances with the scan.                            *)
SeenByScan(f) == IF primed /\ tick.cur[f] # 0 THEN tick.cur[f] ELSE seen[f]
SeenBy(f) == seen[f]

(* Mutant: a change is loaded as soon as it is seen.                       *)
HeldAtOnce(f) == TRUE
Held(f) == pending[f] = tick.cur[f]

(* Mutant: what was put away once is remembered for good.                  *)
StillAwayKept(q, read) == q
StillAway(q, read) == q \cap read

Changed(f) == tick.cur[f] # 0 /\ tick.cur[f] # seen[f]
Settled    == {f \in Files : Changed(f) /\ Held(f)}

(* A directory that cannot be listed looks empty.                          *)
TickList ==
    /\ tick.pc = "idle"
    /\ \E hidden \in {{}} \cup {{f} : f \in Files} :
          /\ hidden # {} => faults < MaxFaults
          /\ faults' = IF hidden = {} THEN faults ELSE faults + 1
          /\ off' = IF primed THEN off ELSE off \cup hidden
          /\ tick' = [NoTick EXCEPT !.pc = "listed",
                         !.cur = [f \in Files |-> IF f \in hidden THEN 0 ELSE disk[f]]]
    /\ UNCHANGED <<disk, broken, reg, health, calls, watcher, edits, blind>>

TickPrime ==
    /\ tick.pc = "listed" /\ ~primed
    /\ seen' = tick.cur /\ primed' = TRUE /\ earlier' = tick.cur
    /\ tick' = NoTick
    /\ UNCHANGED <<disk, broken, reg, health, calls, pending, quarantined, counters, off, blind>>

TickRead ==
    /\ tick.pc = "listed" /\ primed
    /\ tick' = [tick EXCEPT !.pc = "load", !.load = Settled,
                   !.drop = {f \in Files : seen[f] # 0 /\ tick.cur[f] = 0},
                   !.away = condemned \ quarantined, !.read = condemned]
    /\ seen' = [f \in Files |-> SeenBy(f)]
    /\ pending' = [f \in Files |-> CASE Changed(f) /\ ~Held(f) -> tick.cur[f]
                                     [] Changed(f) /\ Held(f)  -> 0
                                     [] ~Changed(f) -> IF tick.cur[f] # 0 THEN 0 ELSE pending[f]]
    /\ blind' = blind \cap condemned
    /\ UNCHANGED <<disk, broken, reg, health, calls, quarantined, primed, counters, off, earlier>>

(* ReloadPlugin is refused, or carried out; trusted files are not asked for. *)
Refused(f) == f \notin BuiltIn /\ faults < MaxFaults /\ faults' = faults + 1
Granted    == UNCHANGED faults

Clear(f) == strikes' = [strikes EXCEPT ![f] = 0] /\ condemned' = condemned \ {f}

LoadTool(f)    == IF Imports(f) THEN disk[f] ELSE reg[f]
LoadService(f) == IF Imports(f) THEN disk[f] ELSE 0   \* the old ones are unloaded first

Reload(f) ==
    /\ Clear(f)
    /\ reg' = [reg EXCEPT ![f] = IF f \in Services THEN LoadService(f) ELSE LoadTool(f)]
    /\ off' = IF Imports(f) THEN off \ {f} ELSE off \cup {f}
    /\ blind' = IF f \in tick.read THEN blind \cup {f} ELSE blind

Unload(f) == reg' = [reg EXCEPT ![f] = 0]

(* Services go first in a batch.                                           *)
TickLoad(f) ==
    /\ tick.pc = "load" /\ f \in tick.load
    /\ f \in Services \/ tick.load \cap Services = {}
    /\ \/ Granted /\ Reload(f)
       \/ Refused(f) /\ off' = off \cup {f} /\ UNCHANGED <<reg, health, blind>>
    /\ seen' = [seen EXCEPT ![f] = tick.cur[f]]
    /\ tick' = [tick EXCEPT !.load = @ \ {f}]
    /\ UNCHANGED <<disk, broken, calls, pending, quarantined, primed, edits, earlier>>

TickDrop(f) ==
    /\ tick.pc = "load" /\ tick.load = {} /\ f \in tick.drop
    /\ \/ Granted /\ Unload(f) /\ off' = off \ {f}
       \/ Refused(f) /\ off' = off \cup {f} /\ UNCHANGED reg
    /\ seen' = [seen EXCEPT ![f] = 0] /\ pending' = [pending EXCEPT ![f] = 0]
    /\ tick' = [tick EXCEPT !.drop = @ \ {f}]
    /\ UNCHANGED <<disk, broken, health, calls, quarantined, primed, edits, blind, earlier>>

TickAway(f) ==
    /\ tick.pc = "load" /\ tick.load = {} /\ tick.drop = {} /\ f \in tick.away
    /\ \/ Granted /\ Unload(f) /\ UNCHANGED blind
       \/ Refused(f) /\ UNCHANGED reg /\ blind' = blind \cup {f}
    /\ off' = off \cup {f}
    /\ quarantined' = quarantined \cup {f}
    /\ tick' = [tick EXCEPT !.away = @ \ {f}]
    /\ UNCHANGED <<disk, broken, health, calls, seen, pending, primed, edits, earlier>>

TickEnd ==
    /\ tick.pc = "load" /\ tick.load = {} /\ tick.drop = {} /\ tick.away = {}
    /\ quarantined' = StillAway(quarantined, tick.read)
    /\ earlier' = [f \in Files |-> IF tick.cur[f] # 0 THEN tick.cur[f] ELSE earlier[f]]
    /\ tick' = NoTick
    /\ UNCHANGED <<disk, broken, reg, health, calls, seen, pending, primed, counters, off, blind>>

Tick == \/ TickList \/ TickPrime \/ TickRead \/ TickEnd
        \/ \E f \in Files : TickLoad(f) \/ TickDrop(f) \/ TickAway(f)

Next ==
    \/ Tick \/ Restart
    \/ \E f \in Files : Save(f) \/ Remove(f)
    \/ \E s \in Slots : CallEnd(s) \/ \E f \in Tools : CallBegin(s, f)

(* The clock thread ticks the watcher for as long as the process lives.    *)
Spec == Init /\ [][Next]_vars /\ WF_vars(Tick)

----------------------------------------------------------------------------
(* Once saving ends, what is registered from each file is what the file    *)
(* holds, whatever saves came in the middle of a tick - but for files that *)
(* cannot be imported, whose load was refused, which were changed between  *)
(* discovery and the first listing or missed by it, or which were put away *)
(* as condemned.                                                           *)
InSync(f) == f \in off \/ (disk[f] # 0 /\ ~Imports(f)) \/ reg[f] = disk[f]
Settles == <>[](\A f \in Files : InSync(f))

(* A condemned plugin is put away or reloaded, each time it is condemned;  *)
(* not if the user refuses, or if the tick that reloaded it had read it as *)
(* condemned and no tick has seen it clean since.                          *)
CondemnedGo == \A f \in Files :
    f \in condemned ~> (f \notin condemned \/ reg[f] = 0 \/ f \in blind)

(* A save still under way is not loaded: the watcher loads no version that *)
(* an earlier tick had not listed, unless the file changes under the tick. *)
SettledFirst == [][\A f \in Files :
    (reg'[f] \notin {0, reg[f]} /\ primed /\ primed')
        => reg'[f] = earlier[f] \/ reg'[f] # tick.cur[f]]_vars

=============================================================================
