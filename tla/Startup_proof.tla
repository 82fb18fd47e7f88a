---------------------------- MODULE Startup_proof ---------------------------
(***************************************************************************)
(* The start and the end of a process, for any number of sites, worker     *)
(* threads, plugins and passes of the loop: type correctness, what the     *)
(* registry holds, what a site that is up has, and what can break a start. *)
(*                                                                         *)
(* A constructor is at work only while the service runs (Alone), and one   *)
(* that is past naming its driver is in named (Named).  Without overlap    *)
(* the plugins that are loaded are all that can be, or none, or those up   *)
(* to the place in the list where the one constructor is (Loading).        *)
(***************************************************************************)
EXTENDS Startup, FiniteSetTheorems, TLAPS

SiteType == [at : Steps, next : Nat, children : SUBSET Plugins]

InList == \A s \in Sites : site[s].at \in {"checking", "loading"} => site[s].next \in 1..Len(Enabled)

Typed == TypeOK /\ InList

LEMMA EnabledAre ==
    /\ Len(Enabled) \in Nat
    /\ \A i \in 1..Len(Enabled) : Enabled[i] \in Plugins
    /\ Enabled # <<>> => 1 \in 1..Len(Enabled)
    /\ \A n \in 1..Len(Enabled) : n \in Nat
  BY EnabledAssumption

LEMMA AbsentIs == Absent \in SiteType /\ Absent.at = "none" /\ Absent.next = 0 /\ Absent.children = {}
  BY DEF Absent, SiteType, Steps

LEMMA NotNone == ASSUME NEW s \in Sites PROVE Live(s) <=> site[s].at # "none"
  BY DEF Live

----------------------------------------------------------------------------
(* The kinds of step.                                                      *)

LEMMA GoesTo ==
    ASSUME Typed, NEW s \in Sites, NEW step \in Steps, NEW n \in Nat, GoTo(s, step, n),
           step \in {"checking", "loading"} => n \in 1..Len(Enabled)
    PROVE  /\ site'[s].at = step /\ site'[s].next = n /\ site'[s].children = site[s].children
           /\ \A t \in Sites : t # s => site'[t] = site[t]
           /\ site' \in [Sites -> SiteType] /\ InList'
<1> DEFINE d == [site[s] EXCEPT !.at = step, !.next = n]
<1>1. site \in [Sites -> SiteType] /\ site[s] \in SiteType
  BY DEF Typed, TypeOK, SiteType, InList
<1>2. d \in SiteType /\ d.at = step /\ d.next = n /\ d.children = site[s].children
  BY <1>1 DEF SiteType
<1>3. site' = [site EXCEPT ![s] = d]
  BY DEF GoTo
<1> HIDE DEF d
<1>4. \A t \in Sites : site'[t] = IF t = s THEN d ELSE site[t]
  BY <1>1, <1>3
<1>5. InList'
  BY <1>2, <1>4 DEF Typed, InList
<1>6. QED
  BY <1>1, <1>2, <1>3, <1>4, <1>5

\* A constructor does its next step, and its site is not yet ready before it.
Move(s) ==
    /\ Building(s) /\ process = "running" /\ crashed = "no"
    /\ site'[s].at \notin {"none", "registering"}
    /\ \A t \in Sites : t # s => site'[t] = site[t]
    /\ UNCHANGED <<library, process, caught_signal, asked, crashed, round, threw, overlapped>>

\* A constructor throws: the base goes with the children it has.
Thrown(s, why) ==
    /\ Building(s) /\ process = "running" /\ crashed = "no"
    /\ why \in {"no driver", "other"} /\ (why = "no driver" => overlapped)
    /\ Throw(s, why)

Unwound(s, why) ==
    /\ threw' = threw \cup {why} \cup (IF site[s].children = {} THEN {} ELSE {"attached"})
    /\ UNCHANGED <<library, config, registry, process, caught_signal, asked, crashed,
                   round, overlapped>>

LEMMA DemolishTyped ==
    ASSUME Typed, NEW s \in Sites, Demolish(s)
    PROVE  /\ site' \in [Sites -> SiteType] /\ InList'
           /\ site'[s].at = "none" /\ site'[s].children = {}
           /\ \A t \in Sites : t # s => site'[t] = site[t]
           /\ plugin' \in [Plugins -> {"none", "alive", "deleted"}]
           /\ named' \in SUBSET Sites /\ opened' \in SUBSET Sites
<1>1. site' = [site EXCEPT ![s] = Absent] /\ site \in [Sites -> SiteType]
  BY DEF Demolish, Typed, TypeOK, SiteType
<1>2. site' \in [Sites -> SiteType] /\ \A t \in Sites : site'[t] = IF t = s THEN Absent ELSE site[t]
  BY <1>1, AbsentIs
<1>3. InList'
  BY <1>2, AbsentIs DEF Typed, InList
<1>4. plugin' \in [Plugins -> {"none", "alive", "deleted"}]
  BY DEF Demolish, Typed, TypeOK
<1>5. named' \in SUBSET Sites /\ opened' \in SUBSET Sites
  BY DEF Demolish, Typed, TypeOK
<1>6. QED
  BY <1>2, <1>3, <1>4, <1>5, AbsentIs

LEMMA ThrowTyped ==
    ASSUME Typed, NEW s \in Sites, NEW why \in {"no driver", "other"}, Demolish(s),
           Unwound(s, why)
    PROVE  Typed'
<1>1. /\ site' \in [Sites -> SiteType] /\ InList'
      /\ plugin' \in [Plugins -> {"none", "alive", "deleted"}]
      /\ named' \in SUBSET Sites /\ opened' \in SUBSET Sites
  BY DemolishTyped
<1>2. threw' \in SUBSET {"no driver", "other", "attached"}
  BY DEF Unwound, Typed, TypeOK
<1>3. TypeOK'
  BY <1>1, <1>2 DEF Unwound, Typed, TypeOK, SiteType, InList
<1>4. QED
  BY <1>1, <1>3 DEF Typed

LEMMA CrashTyped ==
    ASSUME Typed, NEW c \in Crashes, Crash(c)
    PROVE  Typed' /\ UNCHANGED <<library, config, plugin, site, named, opened, registry,
                                 process, caught_signal, asked, round, threw, overlapped>> /\ crashed' = c
  BY DEF Crash, Typed, TypeOK, InList

LEMMA StepsAre ==
    /\ {"naming", "opening", "reading", "config", "checking", "loading", "positions",
        "attaching", "built"} \subseteq Steps
    /\ 0 \in Nat /\ 1 \in Nat
    /\ {"NULL plugin", "deleted plugin", "deleted site", "deleted service"} \subseteq Crashes
  BY DEF Steps, Crashes

----------------------------------------------------------------------------
(* Each step of a constructor that goes on.                                *)

LEMMA AddModulesMoves ==
    ASSUME Typed, NEW s \in Sites, site[s].at = "registering", process = "running",
           crashed = "no", GoTo(s, "naming", 0), Add("modules", s),
           UNCHANGED <<library, config, plugin, named, opened, process, caught_signal, asked,
                       crashed, round, threw, overlapped>>
    PROVE  /\ Typed' /\ Move(s) /\ site'[s].at = "naming"
           /\ site'[s].children = site[s].children
           /\ registry' \in [{"drivers", "modules"} -> Sites \cup {None}]
           /\ registry'["drivers"] = registry["drivers"]
           /\ registry'["modules"] = IF registry["modules"] = None THEN s ELSE registry["modules"]
           /\ UNCHANGED <<plugin, named, opened>>
<1>2. /\ site'[s].at = "naming" /\ site'[s].children = site[s].children
      /\ \A t \in Sites : t # s => site'[t] = site[t]
      /\ site' \in [Sites -> SiteType] /\ InList'
  BY GoesTo, StepsAre
<1>3. registry \in [{"drivers", "modules"} -> Sites \cup {None}]
  BY DEF Typed, TypeOK
<1>4. /\ registry' \in [{"drivers", "modules"} -> Sites \cup {None}]
      /\ registry'["drivers"] = registry["drivers"]
      /\ registry'["modules"] = IF registry["modules"] = None THEN s ELSE registry["modules"]
  BY <1>3 DEF Add
<1>5. TypeOK'
  BY <1>2, <1>4 DEF Typed, TypeOK, SiteType, InList
<1>6. QED
  BY <1>2, <1>4, <1>5 DEF Typed, Move, Building

LEMMA NameDriverMoves ==
    ASSUME Typed, NEW s \in Sites, site[s].at = "naming", process = "running",
           crashed = "no", GoTo(s, "opening", 0), named' = named \cup {s},
           UNCHANGED <<library, config, plugin, opened, registry, process, caught_signal,
                       asked, crashed, round, threw, overlapped>>
    PROVE  /\ Typed' /\ Move(s) /\ site'[s].at = "opening"
           /\ site'[s].children = site[s].children
<1>2. /\ site'[s].at = "opening" /\ site'[s].children = site[s].children
      /\ \A t \in Sites : t # s => site'[t] = site[t]
      /\ site' \in [Sites -> SiteType] /\ InList'
  BY GoesTo, StepsAre
<1>3. TypeOK'
  BY <1>2 DEF Typed, TypeOK, SiteType, InList
<1>4. QED
  BY <1>2, <1>3 DEF Typed, Move, Building

LEMMA OpenDriverMoves ==
    ASSUME Typed, NEW s \in Sites, site[s].at = "opening", process = "running", crashed = "no",
           GoTo(s, "reading", 0),
           opened' = opened \cup {t \in Sites : Live(t) /\ t = registry["drivers"]},
           UNCHANGED <<library, config, plugin, named, registry, process, caught_signal, asked, crashed, round,
                       threw, overlapped>>
    PROVE  /\ Typed' /\ Move(s) /\ site'[s].at = "reading"
           /\ site'[s].children = site[s].children
           /\ Live(registry["drivers"]) => registry["drivers"] \in opened'
<1>1. /\ site'[s].at = "reading" /\ site'[s].children = site[s].children
      /\ \A t \in Sites : t # s => site'[t] = site[t]
      /\ site' \in [Sites -> SiteType] /\ InList'
  BY GoesTo, StepsAre
<1>2. TypeOK'
  BY <1>1 DEF Typed, TypeOK, SiteType, InList
<1>3. QED
  BY <1>1, <1>2 DEF Typed, Move, Building, Live

\* A step that changes nothing else than how far the site is, or config.
LEMMA OnlyMoves ==
    ASSUME Typed, NEW s \in Sites, NEW step \in Steps \ {"none", "registering"}, NEW n \in Nat,
           GoTo(s, step, n), step \in {"checking", "loading"} => n \in 1..Len(Enabled),
           Building(s), process = "running", crashed = "no", config' \in BOOLEAN,
           UNCHANGED <<library, plugin, named, opened, registry, process, caught_signal, asked, crashed, round,
                       threw, overlapped>>
    PROVE  /\ Typed' /\ Move(s) /\ site'[s].at = step /\ site'[s].next = n
           /\ site'[s].children = site[s].children
<1>1. /\ site'[s].at = step /\ site'[s].next = n /\ site'[s].children = site[s].children
      /\ \A t \in Sites : t # s => site'[t] = site[t]
      /\ site' \in [Sites -> SiteType] /\ InList'
  BY GoesTo
<1>2. TypeOK'
  BY <1>1 DEF Typed, TypeOK, SiteType, InList
<1>3. QED
  BY <1>1, <1>2 DEF Typed, Move

LEMMA AfterPluginIs ==
    ASSUME Typed, NEW s \in Sites, site[s].at \in {"checking", "loading"}, AfterPlugin(s)
    PROVE  \/ site[s].next = Len(Enabled) /\ GoTo(s, "positions", 0)
           \/ /\ site[s].next + 1 \in 1..Len(Enabled)
              /\ GoTo(s, "checking", site[s].next + 1)
  BY EnabledAre DEF AfterPlugin, Typed, InList

LEMMA LoadLibraryMoves ==
    ASSUME Typed, NEW s \in Sites, site[s].at = "loading", process = "running", crashed = "no",
           plugin' = IF /\ library[Enabled[site[s].next]] \in {"ok", "rpc only"}
                        /\ plugin[Enabled[site[s].next]] = "none"
                     THEN [plugin EXCEPT ![Enabled[site[s].next]] = "alive"] ELSE plugin,
           AfterPlugin(s),
           UNCHANGED <<library, config, named, opened, registry, process, caught_signal,
                       asked, crashed, round, threw, overlapped>>
    PROVE  LET i == site[s].next
               p == Enabled[i] IN
           /\ Typed' /\ Move(s) /\ UNCHANGED <<named, opened, registry>>
           /\ i \in 1..Len(Enabled) /\ p \in Plugins /\ site'[s].children = site[s].children
           /\ \/ i = Len(Enabled) /\ site'[s].at = "positions"
              \/ i + 1 \in 1..Len(Enabled) /\ site'[s].at = "checking" /\ site'[s].next = i + 1
           /\ \A q \in Plugins : q # p => plugin'[q] = plugin[q]
           /\ plugin'[p] = IF library[p] \in {"ok", "rpc only"} /\ plugin[p] = "none"
                           THEN "alive" ELSE plugin[p]
<1> DEFINE i == site[s].next
           p == Enabled[i]
<1>1. i \in 1..Len(Enabled) /\ p \in Plugins
  BY EnabledAre DEF Typed, InList
<1>2. plugin' = IF library[p] \in {"ok", "rpc only"} /\ plugin[p] = "none"
                THEN [plugin EXCEPT ![p] = "alive"] ELSE plugin
  OBVIOUS
<1>3. plugin \in [Plugins -> {"none", "alive", "deleted"}]
  BY DEF Typed, TypeOK
<1>4. /\ plugin' \in [Plugins -> {"none", "alive", "deleted"}]
      /\ \A q \in Plugins : q # p => plugin'[q] = plugin[q]
      /\ plugin'[p] = IF library[p] \in {"ok", "rpc only"} /\ plugin[p] = "none"
                      THEN "alive" ELSE plugin[p]
  BY <1>1, <1>2, <1>3
<1>5. /\ \/ i = Len(Enabled) /\ site'[s].at = "positions"
         \/ i + 1 \in 1..Len(Enabled) /\ site'[s].at = "checking" /\ site'[s].next = i + 1
      /\ \A t \in Sites : t # s => site'[t] = site[t]
      /\ site'[s].children = site[s].children
      /\ site' \in [Sites -> SiteType] /\ InList'
  <2>1. CASE i = Len(Enabled) /\ GoTo(s, "positions", 0)
    BY <2>1, GoesTo, StepsAre
  <2>2. CASE i + 1 \in 1..Len(Enabled) /\ GoTo(s, "checking", i + 1)
    <3> DEFINE n == i + 1
    <3>1. n \in 1..Len(Enabled) /\ GoTo(s, "checking", n)
      BY <2>2
    <3> HIDE DEF n
    <3>2. n \in Nat
      BY <3>1, EnabledAre
    <3>3. site'[s].at = "checking" /\ site'[s].next = n
      BY <3>1, <3>2, GoesTo, StepsAre
    <3>4. /\ \A t \in Sites : t # s => site'[t] = site[t]
          /\ site'[s].children = site[s].children
          /\ site' \in [Sites -> SiteType] /\ InList'
      BY <3>1, <3>2, GoesTo, StepsAre
    <3>5. QED
      BY <3>1, <3>3, <3>4 DEF n
  <2>3. QED
    BY <1>2, <2>1, <2>2, AfterPluginIs
<1>6. TypeOK'
  BY <1>2, <1>4, <1>5 DEF Typed, TypeOK, SiteType, InList
<1>7. Move(s)
  BY <1>2, <1>5 DEF Move, Building
<1> HIDE DEF i, p
<1>8. QED
  BY <1>1, <1>2, <1>4, <1>5, <1>6, <1>7 DEF Typed, i, p

LEMMA AttachMoves ==
    ASSUME Typed, NEW s \in Sites, site[s].at = "attaching", process = "running", crashed = "no",
           NEW p \in Plugins,
           site' = [site EXCEPT ![s] = [at |-> "attaching", next |-> p,
                                        children |-> @.children \cup {p}]],
           UNCHANGED <<library, config, plugin, named, opened, registry, process, caught_signal, asked, crashed,
                       round, threw, overlapped>>
    PROVE  /\ Typed' /\ Move(s) /\ site'[s].at = "attaching" /\ site'[s].next = p
           /\ site'[s].children = site[s].children \cup {p}
<1> DEFINE d == [at |-> "attaching", next |-> p, children |-> site[s].children \cup {p}]
<1>1. site \in [Sites -> SiteType] /\ site[s] \in SiteType /\ p \in Nat
  BY PluginsAssumption DEF Typed, TypeOK, SiteType, InList
<1>2. d \in SiteType /\ d.at = "attaching" /\ d.next = p /\ d.children = site[s].children \cup {p}
  BY <1>1 DEF SiteType
<1>3. site' = [site EXCEPT ![s] = d]
  OBVIOUS
<1> HIDE DEF d
<1>4. site' \in [Sites -> SiteType] /\ \A t \in Sites : site'[t] = IF t = s THEN d ELSE site[t]
  BY <1>1, <1>2, <1>3
<1>5. InList'
  BY <1>2, <1>4 DEF Typed, InList
<1>6. TypeOK'
  BY <1>4 DEF Typed, TypeOK, SiteType, InList
<1>7. QED
  BY <1>2, <1>4, <1>5, <1>6 DEF Typed, Move, Building

----------------------------------------------------------------------------
(* The invariant.                                                          *)

LiveSites == {t \in Sites : Live(t)}
Few == IsFiniteSet(LiveSites) /\ Cardinality(LiveSites) <= MaxSites

Alone ==
    /\ ~overlapped => \A s, t \in Sites : Building(s) /\ Building(t) => s = t
    /\ process # "running" => \A s \in Sites : ~Building(s)
    /\ process \in {"starting", "mounting"} => \A s \in Sites : ~Live(s)

Named == \A s \in Sites : site[s].at \notin {"none", "registering", "naming"} => s \in named

Opened ==
    ~overlapped => \A s \in Sites : site[s].at = "reading" /\ Live(registry["drivers"]) =>
                                        registry["drivers"] \in opened

Registered ==
    threw = {} =>
        /\ \A name \in {"drivers", "modules"} : registry[name] = None \/ Live(registry[name])
        /\ process = "running" =>
             \A s \in Sites :
                 /\ site[s].at # "none" => registry["drivers"] # None
                 /\ site[s].at \notin {"none", "registering"} => registry["modules"] # None

\* All enabled plugins that can be loaded are; those before the i-th are and no other.
Loaded == \A i \in 1..Len(Enabled) : library[Enabled[i]] = "ok" => plugin[Enabled[i]] # "none"
Upto(i) ==
    \A j \in 1..Len(Enabled) :
        /\ j < i /\ library[Enabled[j]] = "ok" => plugin[Enabled[j]] # "none"
        /\ j >= i => plugin[Enabled[j]] = "none"

HasAll(s) == \A i \in 1..Len(Enabled) : library[Enabled[i]] = "ok" => Enabled[i] \in site[s].children

Loading ==
    ~overlapped /\ threw = {} =>
        /\ (\A s \in Sites : site[s].at \notin {"checking", "loading"}) => Loaded \/ Upto(1)
        /\ \A s \in Sites :
              /\ site[s].children \subseteq InMap
              /\ site[s].at \in {"checking", "loading"} => Loaded \/ Upto(site[s].next)
              /\ site[s].at \in {"positions", "attaching"} => Loaded
              /\ site[s].at = "attaching" =>
                   \A p \in InMap : p <= site[s].next /\ library[p] = "ok" => p \in site[s].children
              /\ site[s].at = "built" => HasAll(s)

\* Unless a constructor threw after it had attached some, plugins are deleted in the
\* first pass only when it comes to its end.
Deleted ==
    round = 1 /\ "attached" \notin threw /\ (\E p \in Plugins : plugin[p] = "deleted") =>
        /\ process \in {"stopping", "leaving", "ended"}
        /\ MaxSites = 1 => \A s \in Sites : ~Live(s)

IInv ==
    /\ Typed /\ Few /\ Alone /\ Named /\ Opened /\ Registered /\ Loading /\ Deleted
    /\ FailuresExplained

----------------------------------------------------------------------------
(* The kinds of step keep it.                                              *)

LEMMA MoveKeeps ==
    ASSUME IInv, NEW s \in Sites, Move(s), Typed',
           named \subseteq named', site'[s].at # "naming" => s \in named',
           site'[s].at = "reading" /\ Live(registry["drivers"]) => registry["drivers"] \in opened',
           registry'["drivers"] = registry["drivers"],
           \/ registry'["modules"] = registry["modules"] /\ site[s].at # "registering"
           \/ registry'["modules"] = registry["modules"] /\ registry["modules"] # None
           \/ registry["modules"] = None /\ registry'["modules"] = s,
           \A p \in Plugins : plugin'[p] = "deleted" => plugin[p] = "deleted",
           Loading'
    PROVE  IInv'
<1>1. \A t \in Sites : Live(t)' <=> Live(t)
  BY DEF Move, Live, Building
<1>2. Few'
  <2>1. LiveSites' = LiveSites
    BY <1>1 DEF LiveSites
  <2>2. QED
    BY <2>1 DEF IInv, Few
<1>3. Alone'
  BY DEF IInv, Alone, Move, Building
<1>4. Named'
  BY DEF IInv, Named, Move
<1>5. Opened'
  <2> SUFFICES ASSUME ~overlapped', NEW t \in Sites, site'[t].at = "reading",
                      Live(registry["drivers"])'
               PROVE  registry'["drivers"] \in opened'
    BY DEF Opened
  <2>1. t = s
    BY DEF IInv, Alone, Move, Building
  <2>2. Live(registry["drivers"])
    BY <1>1 DEF Live
  <2>3. QED
    BY <2>1, <2>2
<1>6. Registered'
  <2> SUFFICES ASSUME threw' = {}
               PROVE  /\ \A name \in {"drivers", "modules"} :
                           registry'[name] = None \/ Live(registry[name])'
                      /\ process' = "running" =>
                           \A t \in Sites :
                             /\ site'[t].at # "none" => registry'["drivers"] # None
                             /\ site'[t].at \notin {"none", "registering"} => registry'["modules"] # None
    BY DEF Registered
  <2>1. /\ \A name \in {"drivers", "modules"} : registry[name] = None \/ Live(registry[name])
        /\ \A t \in Sites :
               /\ site[t].at # "none" => registry["drivers"] # None
               /\ site[t].at \notin {"none", "registering"} => registry["modules"] # None
    BY DEF IInv, Registered, Move
  <2>2. Live(s) /\ Live(s)' /\ site[s].at # "none" /\ s # None
    BY SitesAssumption DEF Live, Move, Building
  <2>3. \A name \in {"drivers", "modules"} : registry'[name] = None \/ Live(registry[name])'
    BY <1>1, <2>1, <2>2 DEF Live
  <2>4. \A t \in Sites : t # s => site'[t] = site[t]
    BY DEF Move
  <2>5. registry'["drivers"] # None /\ registry'["modules"] # None
    BY <2>1, <2>2 DEF Move, Building
  <2>6. QED
    BY <2>3, <2>5
<1>7. Deleted'
  BY DEF IInv, Deleted, Move
<1>8. FailuresExplained'
  BY DEF IInv, FailuresExplained, Move
<1>9. QED
  BY <1>2, <1>3, <1>4, <1>5, <1>6, <1>7, <1>8 DEF IInv

LEMMA FewerLive ==
    ASSUME IInv, NEW s \in Sites, site'[s].at = "none",
           \A t \in Sites : t # s => site'[t] = site[t]
    PROVE  Few' /\ \A t \in Sites : Live(t)' => Live(t)
<1>1. \A t \in Sites : Live(t)' <=> Live(t) /\ t # s
  BY DEF Live
<1>2. LiveSites' = LiveSites \ {s}
  BY <1>1 DEF LiveSites
<1>3. IsFiniteSet(LiveSites) /\ Cardinality(LiveSites) <= MaxSites
  BY DEF IInv, Few
<1>4. IsFiniteSet(LiveSites') /\ Cardinality(LiveSites') <= Cardinality(LiveSites)
        /\ Cardinality(LiveSites) \in Nat /\ Cardinality(LiveSites') \in Nat
  BY <1>2, <1>3, FS_Subset, FS_CardinalityType
<1>5. QED
  BY <1>1, <1>3, <1>4, SitesAssumption DEF Few

LEMMA RoundIs == ASSUME IInv PROVE round \in 1..MaxRounds /\ round \in Nat /\ round >= 1
<1>1. round \in 1..MaxRounds
  BY DEF IInv, Typed, TypeOK
<1>2. QED
  BY <1>1, MaxRoundsAssumption

\* How a plugin can be deleted and still be in use.
PluginGone ==
    \/ round > 1
    \/ "attached" \in threw
    \/ process \in {"stopping", "leaving"} /\ MaxSites > 1

LEMMA CrashKeeps ==
    ASSUME IInv, NEW c \in Crashes, Crash(c),
           c = "NULL plugin" => \E p \in Plugins : library[p] = "rpc only",
           c = "deleted site" => threw # {},
           c = "deleted plugin" => PluginGone, c # "deleted service"
    PROVE  IInv'
<1>1. /\ UNCHANGED <<library, config, plugin, site, named, opened, registry, process,
                     caught_signal, asked, round, threw, overlapped>>
      /\ crashed' = c /\ Typed'
  BY CrashTyped DEF IInv
<1>2. Few' /\ Alone' /\ Named' /\ Opened' /\ Registered'
  BY <1>1 DEF IInv, Few, LiveSites, Live, Alone, Building, Named, Opened, Registered
<1>3. Loading' /\ Deleted'
  BY <1>1 DEF IInv, Loading, Loaded, Upto, HasAll, InMap, Deleted, Live
<1>4. FailuresExplained'
  BY <1>1 DEF IInv, FailuresExplained, Crashes, PluginGone
<1>5. QED
  BY <1>1, <1>2, <1>3, <1>4 DEF IInv

LEMMA DeletedPlugin ==
    ASSUME IInv, NEW p \in Plugins, plugin[p] = "deleted", process = "running"
    PROVE  PluginGone
<1>1. round # 1 \/ "attached" \in threw
  BY DEF IInv, Deleted
<1>2. QED
  BY <1>1, RoundIs DEF PluginGone

LEMMA ThrowKeeps ==
    ASSUME IInv, NEW s \in Sites, NEW why, Thrown(s, why)
    PROVE  IInv'
<1>0. /\ why \in {"no driver", "other"} /\ (why = "no driver" => overlapped)
      /\ Building(s) /\ process = "running" /\ crashed = "no"
  BY DEF Thrown
<1>1. CASE Demolish(s) /\ Unwound(s, why)
  <2>1. /\ site'[s].at = "none" /\ site'[s].children = {}
        /\ \A t \in Sites : t # s => site'[t] = site[t]
    BY <1>1, DemolishTyped DEF IInv
  <2>2. /\ named' = named \ {s} /\ opened' = opened \ {s}
        /\ plugin' = [p \in Plugins |-> IF p \in site[s].children THEN "deleted" ELSE plugin[p]]
        /\ threw' = threw \cup {why} \cup (IF site[s].children = {} THEN {} ELSE {"attached"})
        /\ UNCHANGED <<library, config, registry, process, caught_signal, asked, crashed,
                       round, overlapped>>
    BY <1>1 DEF Demolish, Unwound
  <2>3. Typed'
    BY <1>0, <1>1, ThrowTyped DEF IInv
  <2>4. Few' /\ \A t \in Sites : Live(t)' => Live(t)
    BY <2>1, FewerLive
  <2>5. Alone'
    BY <1>0, <2>1, <2>2 DEF IInv, Alone, Building
  <2>6. Named'
    BY <2>1, <2>2 DEF IInv, Named
  <2>7. Opened'
    BY <1>0, <2>1, <2>2 DEF IInv, Opened, Alone, Building
  <2>8. Registered' /\ Loading'
    BY <2>2 DEF Registered, Loading
  <2>9. Deleted'
    <3> SUFFICES ASSUME round = 1, "attached" \notin threw',
                        NEW p \in Plugins, plugin'[p] = "deleted"
                 PROVE  FALSE
      BY <2>2 DEF Deleted
    <3>1. site[s].children = {} /\ "attached" \notin threw
      BY <2>2
    <3>2. plugin[p] = "deleted"
      BY <2>2, <3>1
    <3>3. QED
      BY <1>0, <3>1, <3>2 DEF IInv, Deleted
  <2>10. FailuresExplained'
    BY <1>0, <2>2 DEF IInv, FailuresExplained
  <2>11. QED
    BY <2>3, <2>4, <2>5, <2>6, <2>7, <2>8, <2>9, <2>10 DEF IInv
<1>2. CASE DeletesAgain(s)
  <2>1. PICK p \in site[s].children : plugin[p] = "deleted"
    BY <1>2 DEF DeletesAgain
  <2>2. p \in Plugins
    BY DEF IInv, Typed, TypeOK
  <2>3. PluginGone
    BY <1>0, <2>1, <2>2, DeletedPlugin
  <2>4. QED
    BY <1>2, <2>3, StepsAre, CrashKeeps DEF DeletesAgain
<1>3. QED
  BY <1>1, <1>2 DEF Thrown, Throw, Unwound

----------------------------------------------------------------------------
(* The steps of a constructor.                                             *)

\* Before a constructor comes to the plugins nothing of them changes.
LEMMA EarlyLoading ==
    ASSUME IInv, NEW s \in Sites, Move(s), UNCHANGED plugin,
           site[s].at \notin {"checking", "loading"}, site'[s].children = site[s].children,
           site'[s].at \in {"naming", "opening", "reading", "config"}
    PROVE  Loading'
  BY DEF IInv, Loading, Loaded, Upto, HasAll, InMap, Move

LEMMA AddModulesKeeps ==
    ASSUME IInv, NEW s \in Sites, AddModules(s), process = "running", crashed = "no"
    PROVE  IInv'
<1>0. site[s].at = "registering" /\ Building(s)
  BY DEF AddModules, Building
<1>1. CASE /\ GoTo(s, "naming", 0)
           /\ Add("modules", s)
           /\ UNCHANGED <<library, config, plugin, named, opened, process,
                          caught_signal, asked, crashed, round, threw, overlapped>>
  <2>1. /\ Typed' /\ Move(s) /\ site'[s].at = "naming" /\ site'[s].children = site[s].children
        /\ registry'["drivers"] = registry["drivers"]
        /\ registry'["modules"] = IF registry["modules"] = None THEN s ELSE registry["modules"]
        /\ UNCHANGED <<plugin, named, opened>>
    BY <1>0, <1>1, AddModulesMoves DEF IInv
  <2>2. Loading'
    BY <1>0, <2>1, EarlyLoading
  <2>3. QED
    BY <2>1, <2>2, MoveKeeps
<1>2. CASE Throw(s, "other")
  BY <1>0, <1>2, ThrowKeeps DEF Thrown
<1>3. QED
  BY <1>1, <1>2 DEF AddModules

LEMMA NameDriverKeeps ==
    ASSUME IInv, NEW s \in Sites, NameDriver(s), process = "running", crashed = "no"
    PROVE  IInv'
<1>0. site[s].at = "naming" /\ Building(s)
  BY DEF NameDriver, Building
<1>1. CASE /\ GoTo(s, "opening", 0)
           /\ named' = named \cup {s}
           /\ UNCHANGED <<library, config, plugin, opened, registry, process,
                          caught_signal, asked, crashed, round, threw, overlapped>>
  <2>1. /\ Typed' /\ Move(s) /\ site'[s].at = "opening" /\ site'[s].children = site[s].children
    BY <1>0, <1>1, NameDriverMoves DEF IInv
  <2>2. Loading'
    BY <1>0, <1>1, <2>1, EarlyLoading
  <2>3. QED
    BY <1>0, <1>1, <2>1, <2>2, MoveKeeps
<1>2. CASE Throw(s, "other")
  BY <1>0, <1>2, ThrowKeeps DEF Thrown
<1>3. QED
  BY <1>1, <1>2 DEF NameDriver

LEMMA OpenDriverKeeps ==
    ASSUME IInv, NEW s \in Sites, OpenDriver(s), process = "running", crashed = "no"
    PROVE  IInv'
<1>0. site[s].at = "opening" /\ Building(s) /\ s \in named
  BY DEF OpenDriver, Building, IInv, Named
<1>1. CASE /\ GoTo(s, "reading", 0)
           /\ opened' = opened \cup {t \in Sites : Live(t) /\ t = registry["drivers"]}
           /\ UNCHANGED <<library, config, plugin, named, registry, process, caught_signal, asked,
                          crashed, round, threw, overlapped>>
  <2>1. /\ Typed' /\ Move(s) /\ site'[s].at = "reading"
        /\ site'[s].children = site[s].children
        /\ Live(registry["drivers"]) => registry["drivers"] \in opened'
    BY <1>0, <1>1, OpenDriverMoves DEF IInv
  <2>2. Loading'
    BY <1>0, <1>1, <2>1, EarlyLoading
  <2>3. QED
    BY <1>0, <1>1, <2>1, <2>2, MoveKeeps
<1>2. CASE Throw(s, "other")
  BY <1>0, <1>2, ThrowKeeps DEF Thrown
<1>3. CASE ~Live(registry["drivers"]) /\ Crash("deleted site")
  <2>1. threw # {}
    BY <1>0, <1>3 DEF IInv, Registered
  <2>2. QED
    BY <1>3, <2>1, StepsAre, CrashKeeps
<1>4. QED
  BY <1>1, <1>2, <1>3 DEF OpenDriver

LEMMA ReadPagesKeeps ==
    ASSUME IInv, NEW s \in Sites, ReadPages(s), process = "running", crashed = "no"
    PROVE  IInv'
<1> DEFINE data == registry["modules"]
<1>0. site[s].at = "reading" /\ Building(s) /\ s \in named
  BY DEF ReadPages, Building, IInv, Named
<1>1. CASE /\ GoTo(s, "config", 0)
           /\ UNCHANGED <<library, config, plugin, named, opened, registry,
                          process, caught_signal, asked, crashed, round, threw, overlapped>>
  <2>1. Typed' /\ Move(s) /\ site'[s].at = "config" /\ site'[s].children = site[s].children
    BY <1>0, <1>1, OnlyMoves, StepsAre DEF IInv, Typed, TypeOK
  <2>2. Loading'
    BY <1>0, <1>1, <2>1, EarlyLoading
  <2>3. QED
    BY <1>0, <1>1, <2>1, <2>2, MoveKeeps
<1>2. CASE Throw(s, "other")
  BY <1>0, <1>2, ThrowKeeps DEF Thrown
<1>3. CASE Live(data) /\ data \notin named /\ Throw(s, "no driver")
  <2>1. Building(data) /\ data \in Sites /\ data # s
    BY <1>0, <1>3 DEF IInv, Named, Live, Building
  <2>2. overlapped
    BY <1>0, <2>1 DEF IInv, Alone, Typed, TypeOK
  <2>3. QED
    BY <1>0, <1>3, <2>2, ThrowKeeps DEF Thrown
<1>4. CASE /\ Live(registry["drivers"]) /\ registry["drivers"] \notin opened
           /\ Throw(s, "no driver")
  <2>1. overlapped
    BY <1>0, <1>4 DEF IInv, Opened, Typed, TypeOK
  <2>2. QED
    BY <1>0, <1>4, <2>1, ThrowKeeps DEF Thrown
<1>5. CASE ~(Live(data) /\ Live(registry["drivers"])) /\ Crash("deleted site")
  <2>1. threw # {}
    BY <1>0, <1>5 DEF IInv, Registered
  <2>2. QED
    BY <1>5, <2>1, StepsAre, CrashKeeps
<1>6. QED
  BY <1>1, <1>2, <1>3, <1>4, <1>5 DEF ReadPages

\* While a lone constructor is at work no other site is at a plugin.
LEMMA LoneMover ==
    ASSUME IInv, NEW s \in Sites, Building(s), ~overlapped, NEW t \in Sites, t # s
    PROVE  site[t].at \in {"none", "built"}
  BY DEF IInv, Alone, Building

LEMMA LoadConfigKeeps ==
    ASSUME IInv, NEW s \in Sites, LoadConfig(s), process = "running", crashed = "no"
    PROVE  IInv'
<1>0. site[s].at = "config" /\ Building(s) /\ s \in named
  BY DEF LoadConfig, Building, IInv, Named
<1>1. CASE /\ config' = TRUE
           /\ IF Enabled = <<>> THEN GoTo(s, "built", 0) ELSE GoTo(s, "checking", 1)
           /\ UNCHANGED <<library, plugin, named, opened, registry, process, caught_signal, asked,
                          crashed, round, threw, overlapped>>
  <2>1. CASE Enabled = <<>>
    <3>1. Typed' /\ Move(s) /\ site'[s].at = "built" /\ site'[s].children = site[s].children
      BY <1>0, <1>1, <2>1, OnlyMoves, StepsAre DEF IInv
    <3>2. Len(Enabled) = 0
      BY <2>1
    <3>3. Loading'
      BY <1>0, <1>1, <3>1, <3>2 DEF IInv, Loading, Loaded, Upto, HasAll, InMap, Move
    <3>4. QED
      BY <1>0, <1>1, <3>1, <3>3, MoveKeeps
  <2>2. CASE Enabled # <<>>
    <3>1. /\ Typed' /\ Move(s) /\ site'[s].at = "checking" /\ site'[s].next = 1
          /\ site'[s].children = site[s].children
      BY <1>0, <1>1, <2>2, OnlyMoves, StepsAre, EnabledAre DEF IInv
    <3>2. ASSUME ~overlapped, threw = {} PROVE Loaded \/ Upto(1)
      BY <1>0, <3>2, LoneMover DEF IInv, Loading
    <3>3. Loading'
      BY <1>0, <1>1, <3>1, <3>2 DEF IInv, Loading, Loaded, Upto, HasAll, InMap, Move
    <3>4. QED
      BY <1>0, <1>1, <3>1, <3>3, MoveKeeps
  <2>3. QED
    BY <2>1, <2>2
<1>2. CASE Throw(s, "other")
  BY <1>0, <1>2, ThrowKeeps DEF Thrown
<1>3. QED
  BY <1>1, <1>2 DEF LoadConfig

LEMMA CheckKeeps ==
    ASSUME IInv, NEW s \in Sites, Check(s), process = "running", crashed = "no"
    PROVE  IInv'
<1> DEFINE i == site[s].next
           p == Enabled[i]
<1>0. site[s].at = "checking" /\ Building(s) /\ s \in named /\ i \in 1..Len(Enabled)
        /\ i \in Nat
        /\ UNCHANGED <<library, config, plugin, named, opened, registry, process, caught_signal, asked,
                       crashed, round, threw, overlapped>>
  BY DEF Check, Building, IInv, Named, Typed, InList
<1>1. ASSUME ~overlapped, threw = {} PROVE Loaded \/ Upto(i)
  BY <1>0, <1>1 DEF IInv, Loading
<1>2. CASE plugin[p] # "none"
  <2>1. Typed' /\ Move(s) /\ site'[s].at = "positions" /\ site'[s].children = site[s].children
    BY <1>0, <1>2, OnlyMoves, StepsAre DEF IInv, Check, Typed, TypeOK
  <2>2. ASSUME ~overlapped, threw = {} PROVE Loaded
    BY <1>0, <1>1, <1>2, <2>2 DEF Upto
  <2>3. Loading'
    BY <1>0, <2>1, <2>2 DEF IInv, Loading, Loaded, Upto, HasAll, InMap, Move
  <2>4. QED
    BY <1>0, <2>1, <2>3, MoveKeeps
<1>3. CASE plugin[p] = "none"
  <2>1. Typed' /\ Move(s) /\ site'[s].at = "loading" /\ site'[s].next = i
          /\ site'[s].children = site[s].children
    <3>1. GoTo(s, "loading", i) /\ Typed /\ config' \in BOOLEAN
      BY <1>0, <1>3 DEF Check, IInv, Typed, TypeOK
    <3>2. "loading" \in Steps \ {"none", "registering"}
      BY StepsAre
    <3> HIDE DEF i
    <3>3. QED
      BY <1>0, <3>1, <3>2, OnlyMoves
  <2>2. Loading'
    BY <1>0, <1>1, <2>1 DEF IInv, Loading, Loaded, Upto, HasAll, InMap, Move
  <2>3. QED
    BY <1>0, <2>1, <2>2, MoveKeeps
<1>4. QED
  BY <1>2, <1>3

LEMMA Places ==
    \A i, j \in 1..Len(Enabled) :
        /\ j # i => (j < i + 1 <=> j < i)
        /\ j >= i + 1 => j >= i
        /\ ~(i >= i + 1)
  BY EnabledAre

\* What the list looks like when its i-th plugin has been loaded.
LEMMA NextPlugin ==
    ASSUME NEW i \in 1..Len(Enabled), Loaded \/ Upto(i), UNCHANGED library,
           plugin \in [Plugins -> {"none", "alive", "deleted"}],
           \A q \in Plugins : q # Enabled[i] => plugin'[q] = plugin[q],
           plugin'[Enabled[i]] =
              IF library[Enabled[i]] \in {"ok", "rpc only"} /\ plugin[Enabled[i]] = "none"
              THEN "alive" ELSE plugin[Enabled[i]]
    PROVE  Loaded' \/ Upto(i + 1)'
<1>1. \A j \in 1..Len(Enabled) : Enabled[j] \in Plugins /\ (j # i => Enabled[j] # Enabled[i])
  BY EnabledAssumption, EnabledAre
<1>2. plugin'[Enabled[i]] # "none" \/ (library[Enabled[i]] # "ok" /\ plugin'[Enabled[i]] = plugin[Enabled[i]])
  OBVIOUS
<1>3. CASE Loaded
  BY <1>1, <1>2, <1>3 DEF Loaded
<1>4. CASE Upto(i)
  <2> SUFFICES ASSUME NEW j \in 1..Len(Enabled)
               PROVE  /\ j < i + 1 /\ library[Enabled[j]] = "ok" => plugin'[Enabled[j]] # "none"
                      /\ j >= i + 1 => plugin'[Enabled[j]] = "none"
    BY DEF Upto
  <2>1. CASE j = i
    BY <1>2, <2>1, Places
  <2>2. CASE j # i
    <3>1. plugin'[Enabled[j]] = plugin[Enabled[j]]
      BY <1>1, <2>2
    <3>2. j < i + 1 <=> j < i
      BY <2>2, Places
    <3>3. j >= i + 1 => j >= i
      BY Places
    <3>4. QED
      BY <1>4, <3>1, <3>2, <3>3 DEF Upto
  <2>3. QED
    BY <2>1, <2>2
<1>5. QED
  BY <1>3, <1>4

LEMMA AllLoaded == ASSUME Upto(Len(Enabled) + 1)' PROVE Loaded'
<1>1. \A j \in 1..Len(Enabled) : j < Len(Enabled) + 1
  BY EnabledAre
<1>2. QED
  BY <1>1 DEF Upto, Loaded

LEMMA LoadLibraryKeeps ==
    ASSUME IInv, NEW s \in Sites, LoadLibrary(s), process = "running", crashed = "no"
    PROVE  IInv'
<1>0. site[s].at = "loading" /\ Building(s) /\ s \in named
  BY DEF LoadLibrary, Building, IInv, Named
<1>i. PICK i \in 1..Len(Enabled) : i = site[s].next
  BY <1>0 DEF IInv, Typed, InList
<1> DEFINE p == Enabled[i]
<1>1. CASE Throw(s, "other")
  BY <1>0, <1>1, ThrowKeeps DEF Thrown
<1>2. CASE /\ plugin' = IF library[p] \in {"ok", "rpc only"} /\ plugin[p] = "none"
                       THEN [plugin EXCEPT ![p] = "alive"] ELSE plugin
           /\ AfterPlugin(s)
           /\ UNCHANGED <<library, config, named, opened, registry, process,
                          caught_signal, asked, crashed, round, threw, overlapped>>
  <2>1. /\ Typed' /\ Move(s) /\ UNCHANGED <<named, opened, registry>>
        /\ i \in 1..Len(Enabled) /\ p \in Plugins /\ site'[s].children = site[s].children
        /\ \/ i = Len(Enabled) /\ site'[s].at = "positions"
           \/ i + 1 \in 1..Len(Enabled) /\ site'[s].at = "checking" /\ site'[s].next = i + 1
        /\ \A q \in Plugins : q # p => plugin'[q] = plugin[q]
        /\ plugin'[p] = IF library[p] \in {"ok", "rpc only"} /\ plugin[p] = "none"
                        THEN "alive" ELSE plugin[p]
    BY <1>0, <1>i, <1>2, LoadLibraryMoves DEF IInv
  <2>2. plugin \in [Plugins -> {"none", "alive", "deleted"}]
    BY DEF IInv, Typed, TypeOK
  <2>3. ASSUME ~overlapped, threw = {} PROVE Loaded' \/ Upto(i + 1)'
    <3>1. Loaded \/ Upto(i)
      BY <1>0, <1>i, <2>3 DEF IInv, Loading
    <3>2. UNCHANGED library
      BY <2>1 DEF Move
    <3>3. QED
      BY <2>1, <2>2, <3>1, <3>2, NextPlugin
  <2>4. ASSUME ~overlapped, threw = {}, site'[s].at = "positions" PROVE Loaded'
    <3>1. i = Len(Enabled)
      BY <2>1, <2>4
    <3>2. QED
      BY <2>3, <2>4, <3>1, AllLoaded
  <2>5. ASSUME ~overlapped', threw' = {} PROVE
           /\ \/ site'[s].at = "checking" /\ (Loaded' \/ Upto(site[s].next)')
              \/ site'[s].at = "positions" /\ Loaded'
           /\ \A t \in Sites : t # s => /\ site'[t].at \in {"none", "built"}
                                        /\ site'[t].at = "built" => HasAll(t)'
           /\ \A t \in Sites : site'[t].children \subseteq InMap'
    <3>1. ~overlapped /\ threw = {} /\ UNCHANGED library /\ \A t \in Sites : t # s => site'[t] = site[t]
      BY <2>1, <2>5 DEF Move
    <3>5. \A t \in Sites : t # s => /\ site'[t].at \in {"none", "built"}
                                    /\ site'[t].at = "built" => HasAll(t)'
      BY <1>0, <3>1, LoneMover DEF IInv, Loading, HasAll
    <3>6. \A t \in Sites : site'[t].children \subseteq InMap'
      <4>1. InMap \subseteq InMap'
        BY <2>1 DEF InMap
      <4>2. \A t \in Sites : site'[t].children = site[t].children /\ site[t].children \subseteq InMap
        BY <2>1, <3>1 DEF IInv, Loading
      <4>3. QED
        BY <4>1, <4>2
    <3>2. CASE site'[s].at = "positions"
      BY <2>4, <3>1, <3>2, <3>5, <3>6
    <3>3. CASE site'[s].at = "checking"
      <4>1. site'[s].next = i + 1
        BY <2>1, <3>3
      <4>2. Loaded' \/ Upto(site[s].next)'
        BY <2>3, <3>1, <4>1 DEF Upto, Loaded
      <4>3. QED
        BY <3>3, <4>2, <3>5, <3>6
    <3>4. QED
      BY <2>1, <3>2, <3>3
  <2>6. Loading'
    BY <2>5 DEF Loading
  <2> HIDE DEF p
  <2>7. \A q \in Plugins : plugin'[q] = "deleted" => plugin[q] = "deleted"
    BY <2>1
  <2>8. site[s].at # "registering" /\ registry'["modules"] = registry["modules"]
          /\ registry'["drivers"] = registry["drivers"] /\ site'[s].at # "reading"
    BY <1>0, <2>1
  <2>9. QED
    BY <1>0, <2>1, <2>6, <2>7, <2>8, MoveKeeps
<1>3. QED
  BY <1>i, <1>1, <1>2 DEF LoadLibrary

LEMMA PositionsKeeps ==
    ASSUME IInv, NEW s \in Sites, Positions(s), process = "running", crashed = "no"
    PROVE  IInv'
<1>0. site[s].at = "positions" /\ Building(s) /\ s \in named
  BY DEF Positions, Building, IInv, Named
<1>1. CASE /\ GoTo(s, "attaching", 0)
           /\ UNCHANGED <<library, config, plugin, named, opened, registry,
                          process, caught_signal, asked, crashed, round, threw, overlapped>>
  <2>1. Typed' /\ Move(s) /\ site'[s].at = "attaching" /\ site'[s].next = 0
          /\ site'[s].children = site[s].children
    <3>1. Typed /\ config' \in BOOLEAN /\ "attaching" \in Steps \ {"none", "registering"}
            /\ 0 \in Nat
      BY <1>1, StepsAre DEF IInv, Typed, TypeOK
    <3>2. QED
      BY <1>0, <1>1, <3>1, OnlyMoves
  <2>2. \A p \in Plugins : ~(p <= 0)
    BY PluginsAssumption
  <2>3. Loading'
    BY <1>0, <1>1, <2>1, <2>2 DEF IInv, Loading, Loaded, Upto, HasAll, InMap, Move
  <2>4. QED
    BY <1>0, <1>1, <2>1, <2>3, MoveKeeps
<1>2. CASE (\E p \in InMap : library[p] = "rpc only") /\ Crash("NULL plugin")
  BY <1>2, StepsAre, CrashKeeps DEF InMap
<1>3. CASE (\E p \in InMap : plugin[p] = "deleted") /\ Crash("deleted plugin")
  <2>1. PluginGone
    BY <1>3, DeletedPlugin DEF InMap
  <2>2. QED
    BY <1>3, <2>1, StepsAre, CrashKeeps
<1>4. CASE InMap # {} /\ Throw(s, "other")
  BY <1>0, <1>4, ThrowKeeps DEF Thrown
<1>5. QED
  BY <1>1, <1>2, <1>3, <1>4 DEF Positions

LEMMA AttachKeeps ==
    ASSUME IInv, NEW s \in Sites, Attach(s), process = "running", crashed = "no"
    PROVE  IInv'
<1> DEFINE rest == {p \in InMap : p > site[s].next}
<1>0. site[s].at = "attaching" /\ Building(s) /\ s \in named /\ site[s].next \in Nat
  BY DEF Attach, Building, IInv, Named, Typed, TypeOK
<1>1. InMap \subseteq Plugins /\ \A p \in Plugins : p \in Nat
  BY PluginsAssumption DEF InMap
<1>2. CASE rest = {}
  <2>1. GoTo(s, "built", 0)
          /\ UNCHANGED <<library, config, plugin, named, opened, registry,
                         process, caught_signal, asked, crashed, round, threw, overlapped>>
    BY <1>2 DEF Attach
  <2>2. Typed' /\ Move(s) /\ site'[s].at = "built" /\ site'[s].children = site[s].children
    BY <1>0, <2>1, OnlyMoves, StepsAre DEF IInv, Typed, TypeOK
  <2>3. \A p \in InMap : p <= site[s].next
    BY <1>0, <1>1, <1>2
  <2>4. ASSUME ~overlapped, threw = {} PROVE Loaded /\ HasAll(s)
    <3>1. Loaded /\ \A p \in InMap : library[p] = "ok" => p \in site[s].children
      BY <1>0, <2>3, <2>4 DEF IInv, Loading
    <3>2. QED
      BY <3>1, EnabledAre DEF Loaded, HasAll, InMap
  <2>5. Loading'
    BY <1>0, <2>1, <2>2, <2>4 DEF IInv, Loading, Loaded, Upto, HasAll, InMap, Move
  <2>6. QED
    BY <1>0, <2>1, <2>2, <2>5, MoveKeeps
<1>3. CASE rest # {}
  <2>1. PICK p \in rest :
           /\ \A q \in rest : p <= q
           /\ \/ /\ library[p] # "rpc only"
                 /\ site' = [site EXCEPT ![s] = [at |-> "attaching", next |-> p,
                                                 children |-> @.children \cup {p}]]
                 /\ UNCHANGED <<library, config, plugin, named, opened, registry,
                                process, caught_signal, asked, crashed, round, threw, overlapped>>
              \/ Throw(s, "other")
              \/ library[p] = "rpc only" /\ Crash("NULL plugin")
              \/ plugin[p] = "deleted" /\ Crash("deleted plugin")
    BY <1>3 DEF Attach
  <2>2. p \in Plugins /\ p \in InMap /\ p > site[s].next
    BY <1>1
  <2>3. CASE /\ site' = [site EXCEPT ![s] = [at |-> "attaching", next |-> p,
                                             children |-> @.children \cup {p}]]
             /\ UNCHANGED <<library, config, plugin, named, opened, registry,
                            process, caught_signal, asked, crashed, round, threw, overlapped>>
    <3>1. /\ Typed' /\ Move(s) /\ site'[s].at = "attaching" /\ site'[s].next = p
          /\ site'[s].children = site[s].children \cup {p}
      BY <1>0, <2>2, <2>3, AttachMoves DEF IInv
    <3>2. \A q \in InMap : q <= p => q <= site[s].next \/ q = p
      <4>1. ASSUME NEW q \in InMap, q <= p, ~(q <= site[s].next) PROVE q = p
        <5>1. q \in Nat /\ p \in Nat /\ q > site[s].next
          BY <1>0, <1>1, <2>2, <4>1
        <5>2. q \in rest
          BY <5>1, <4>1
        <5>3. p <= q
          BY <2>1, <5>2
        <5>4. QED
          BY <4>1, <5>1, <5>3
      <4>2. QED
        BY <4>1
    <3>3. ASSUME ~overlapped, threw = {}
          PROVE  Loaded /\ \A q \in InMap : q <= p /\ library[q] = "ok" => q \in site'[s].children
      BY <1>0, <3>1, <3>2, <3>3 DEF IInv, Loading
    <3>4. Loading'
      BY <1>0, <2>3, <3>1, <3>3 DEF IInv, Loading, Loaded, Upto, HasAll, InMap, Move
    <3>5. QED
      BY <1>0, <2>3, <3>1, <3>4, MoveKeeps
  <2>4. CASE library[p] = "rpc only" /\ Crash("NULL plugin")
    BY <2>2, <2>4, StepsAre, CrashKeeps
  <2>5. CASE plugin[p] = "deleted" /\ Crash("deleted plugin")
    <3>1. PluginGone
      BY <2>2, <2>5, DeletedPlugin
    <3>2. QED
      BY <2>5, <3>1, StepsAre, CrashKeeps
  <2>6. CASE Throw(s, "other")
    BY <1>0, <2>6, ThrowKeeps DEF Thrown
  <2>7. QED
    BY <2>1, <2>3, <2>4, <2>5, <2>6
<1>4. QED
  BY <1>2, <1>3

LEMMA ConstructKeeps ==
    ASSUME IInv, NEW s \in Sites, Construct(s)
    PROVE  IInv'
  BY AddModulesKeeps, NameDriverKeeps, OpenDriverKeeps, ReadPagesKeeps, LoadConfigKeeps,
     CheckKeeps, LoadLibraryKeeps, PositionsKeeps, AttachKeeps
     DEF Construct

----------------------------------------------------------------------------
(* The beginning of a constructor, and main().                             *)

LEMMA BeginMoves ==
    ASSUME Typed, NEW s \in Sites, Begin(s)
    PROVE  /\ Typed' /\ site'[s].at = "registering" /\ site'[s].children = site[s].children
           /\ \A t \in Sites : t # s => site'[t] = site[t]
           /\ registry'["drivers"] = IF registry["drivers"] = None THEN s ELSE registry["drivers"]
           /\ registry'["modules"] = registry["modules"]
<1>1. /\ GoTo(s, "registering", 0)
      /\ overlapped' = (overlapped \/ \E t \in Sites : Building(t))
      /\ UNCHANGED <<library, config, plugin, named, opened, process, caught_signal, asked, crashed,
                     round, threw>>
  BY DEF Begin
<1>2. /\ site'[s].at = "registering" /\ site'[s].children = site[s].children
      /\ \A t \in Sites : t # s => site'[t] = site[t]
      /\ site' \in [Sites -> SiteType] /\ InList'
  BY <1>1, GoesTo DEF Steps
<1>3. registry \in [{"drivers", "modules"} -> Sites \cup {None}] /\ overlapped' \in BOOLEAN
  BY <1>1 DEF Typed, TypeOK
<1>4. /\ registry' \in [{"drivers", "modules"} -> Sites \cup {None}]
      /\ registry'["drivers"] = IF registry["drivers"] = None THEN s ELSE registry["drivers"]
      /\ registry'["modules"] = registry["modules"]
  BY <1>3 DEF Begin, Add
<1>5. TypeOK'
  BY <1>1, <1>2, <1>3, <1>4 DEF Typed, TypeOK, SiteType, InList
<1>6. QED
  BY <1>2, <1>4, <1>5 DEF Typed

LEMMA BeginKeeps ==
    ASSUME IInv, NEW s \in Sites, Begin(s)
    PROVE  IInv'
<1>1. /\ process = "running" /\ crashed = "no" /\ site[s].at = "none"
      /\ Cardinality(LiveSites) < MaxSites
      /\ overlapped' = (overlapped \/ \E t \in Sites : Building(t))
      /\ UNCHANGED <<library, config, plugin, named, opened, process, caught_signal, asked, crashed,
                     round, threw>>
  BY DEF Begin, LiveSites
<1>2. /\ Typed' /\ site'[s].at = "registering" /\ site'[s].children = site[s].children
      /\ \A t \in Sites : t # s => site'[t] = site[t]
      /\ registry'["drivers"] = IF registry["drivers"] = None THEN s ELSE registry["drivers"]
      /\ registry'["modules"] = registry["modules"]
  BY BeginMoves DEF IInv
<1>3. \A t \in Sites : Live(t)' <=> Live(t) \/ t = s
  BY <1>2 DEF Live
<1>4. Few'
  <2>1. LiveSites' = LiveSites \cup {s} /\ s \notin LiveSites
    BY <1>1, <1>3 DEF LiveSites, Live
  <2>2. IsFiniteSet(LiveSites)
    BY DEF IInv, Few
  <2>3. /\ IsFiniteSet(LiveSites') /\ Cardinality(LiveSites') = Cardinality(LiveSites) + 1
        /\ Cardinality(LiveSites) \in Nat
    BY <2>1, <2>2, FS_AddElement, FS_CardinalityType
  <2>4. QED
    BY <1>1, <2>3, SitesAssumption DEF Few
<1>5. Alone'
  BY <1>1, <1>2 DEF IInv, Alone, Building
<1>6. Named'
  BY <1>1, <1>2 DEF IInv, Named
<1>7. Opened'
  BY <1>1, <1>2 DEF IInv, Opened, Building
<1>8. Registered'
  <2>1. s # None
    BY SitesAssumption
  <2>2. QED
    BY <1>1, <1>2, <1>3, <2>1 DEF IInv, Registered, Live
<1>9. Loading'
  <2>1. ~overlapped' => \A t \in Sites : site[t].at \in {"none", "built"}
    BY <1>1 DEF Building
  <2>2. QED
    BY <1>1, <1>2, <2>1 DEF IInv, Loading, Loaded, Upto, HasAll, InMap
<1>10. Deleted'
  BY <1>1 DEF IInv, Deleted
<1>11. FailuresExplained'
  BY <1>1 DEF IInv, FailuresExplained
<1>12. QED
  BY <1>2, <1>4, <1>5, <1>6, <1>7, <1>8, <1>9, <1>10, <1>11 DEF IInv

\* main() and the signals leave the sites, the plugins and the registry alone.
Outside ==
    UNCHANGED <<library, config, plugin, site, named, opened, registry, threw, overlapped>>

LEMMA OutsideKeeps ==
    ASSUME IInv, Outside, process' \in Processes, caught_signal' \in BOOLEAN,
           asked' \in BOOLEAN, crashed' \in Crashes \cup {"no"}, round' \in 1..MaxRounds,
           process' # "running" => \A s \in Sites : ~Building(s),
           process' \in {"starting", "mounting"} => \A s \in Sites : ~Live(s),
           process' = "running" => process \in {"mounting", "running"},
           Deleted', FailuresExplained'
    PROVE  IInv'
<1>1. Typed'
  BY DEF Outside, IInv, Typed, TypeOK, InList
<1>2. Few' /\ Named' /\ Opened'
  BY DEF Outside, IInv, Few, LiveSites, Live, Named, Opened
<1>3. Alone'
  BY DEF Outside, IInv, Alone, Live, Building
<1>4. Registered'
  <2>1. process = "mounting" => \A s \in Sites : site[s].at = "none"
    BY DEF IInv, Alone, Live
  <2>2. QED
    BY <2>1 DEF Outside, IInv, Registered, Live
<1>5. Loading'
  BY DEF Outside, IInv, Loading, Loaded, Upto, HasAll, InMap
<1>6. QED
  BY <1>1, <1>2, <1>3, <1>4, <1>5 DEF IInv

LEMMA ServiceIs ==
    /\ Service = "srv" => process \in {"mounting", "running"}
    /\ Service = "dangling" =>
          process \notin {"mounting", "running"} /\ (process = "starting" => round # 1)
  BY DEF Service

LEMMA SignalKeeps == ASSUME IInv, Signal PROVE IInv'
<1>1. /\ crashed = "no" /\ process # "ended" /\ caught_signal' = TRUE
      /\ Outside /\ UNCHANGED <<process, round>>
      /\ asked' \in BOOLEAN
      /\ \/ crashed' = "no"
         \/ crashed' = "deleted service" /\ Service = "dangling"
  BY DEF Signal, Outside, IInv, Typed, TypeOK
<1>2. crashed' \in Crashes \cup {"no"}
  BY <1>1 DEF Crashes
<1>3. Deleted'
  BY <1>1 DEF Outside, IInv, Deleted, Live
<1>4. crashed' = "deleted service" =>
          process \notin {"mounting", "running"} /\ (process = "starting" => round > 1)
  <2>1. round # 1 => round > 1
    BY RoundIs
  <2>2. QED
    BY <1>1, <2>1, ServiceIs
<1>5. FailuresExplained'
  BY <1>1, <1>4 DEF Outside, IInv, FailuresExplained
<1>6. process \in Processes /\ round \in 1..MaxRounds
  BY DEF IInv, Typed, TypeOK
<1>7. /\ process # "running" => \A s \in Sites : ~Building(s)
      /\ process \in {"starting", "mounting"} => \A s \in Sites : ~Live(s)
  BY DEF IInv, Alone
<1>8. QED
  BY <1>1, <1>2, <1>3, <1>5, <1>6, <1>7, OutsideKeeps

LEMMA StopServiceKeeps == ASSUME IInv, StopService PROVE IInv'
<1>1. /\ crashed = "no" /\ process = "running" /\ asked' \in BOOLEAN
      /\ Outside /\ UNCHANGED <<process, caught_signal, round, crashed>>
  BY DEF StopService, Outside
<1>2. Deleted' /\ FailuresExplained'
  BY <1>1 DEF Outside, IInv, Deleted, Live, FailuresExplained
<1>3. /\ process \in Processes /\ round \in 1..MaxRounds /\ caught_signal \in BOOLEAN
      /\ crashed \in Crashes \cup {"no"}
  BY DEF IInv, Typed, TypeOK
<1>4. QED
  BY <1>1, <1>2, <1>3, OutsideKeeps

\* A step of main() within a pass of the loop.
LEMMA StepKeeps ==
    ASSUME IInv, NEW from, NEW to \in Processes, Step(from, to), UNCHANGED round,
           caught_signal' \in BOOLEAN, asked' \in BOOLEAN,
           to # "running" => \A s \in Sites : ~Building(s),
           to \in {"starting", "mounting"} => \A s \in Sites : ~Live(s),
           to = "running" => from = "mounting",
           from \in {"starting", "mounting", "running"} \/ to = "ended"
    PROVE  IInv'
<1>1. /\ process = from /\ process' = to /\ crashed = "no" /\ crashed' = "no" /\ Outside
  BY DEF Step, Outside
<1>2. Deleted'
  <2>1. process \in {"stopping", "leaving", "ended"} =>
            process' \in {"stopping", "leaving", "ended"}
    BY <1>1
  <2>2. QED
    BY <1>1, <2>1 DEF Outside, IInv, Deleted, Live
<1>3. FailuresExplained'
  BY <1>1 DEF Outside, IInv, FailuresExplained
<1>4. round \in 1..MaxRounds
  BY DEF IInv, Typed, TypeOK
<1>5. QED
  BY <1>1, <1>2, <1>3, <1>4, OutsideKeeps

LEMMA OneLive ==
    ASSUME Few, MaxSites = 1, NEW s \in Sites, NEW t \in Sites, Live(s), Live(t)
    PROVE  s = t
<1> SUFFICES ASSUME s # t PROVE FALSE
  OBVIOUS
<1>1. IsFiniteSet({s}) /\ Cardinality({s}) = 1
  BY FS_Singleton
<1>2. Cardinality({s} \cup {t}) = 2
  BY <1>1, FS_AddElement
<1>3. {s} \cup {t} \subseteq LiveSites /\ IsFiniteSet(LiveSites)
  BY DEF LiveSites, Few
<1>4. Cardinality({s} \cup {t}) <= Cardinality(LiveSites) /\ Cardinality(LiveSites) \in Nat
  BY <1>3, FS_Subset, FS_CardinalityType
<1>5. QED
  BY <1>2, <1>4 DEF Few

LEMMA DestroyMoves ==
    ASSUME Typed, NEW s \in Sites, Clear, Demolish(s),
           UNCHANGED <<library, config, process, caught_signal, asked, crashed, round, threw,
                       overlapped>>
    PROVE  /\ Typed' /\ site'[s].at = "none" /\ site'[s].children = {}
           /\ \A t \in Sites : t # s => site'[t] = site[t]
           /\ \A name \in {"drivers", "modules"} : registry'[name] = None
<1>1. /\ site' \in [Sites -> SiteType] /\ InList'
      /\ plugin' \in [Plugins -> {"none", "alive", "deleted"}]
      /\ named' \in SUBSET Sites /\ opened' \in SUBSET Sites
      /\ site'[s].at = "none" /\ site'[s].children = {}
      /\ \A t \in Sites : t # s => site'[t] = site[t]
  BY DemolishTyped
<1>2. registry' \in [{"drivers", "modules"} -> Sites \cup {None}]
        /\ \A name \in {"drivers", "modules"} : registry'[name] = None
  BY DEF Clear
<1>3. TypeOK'
  BY <1>1, <1>2 DEF Typed, TypeOK, SiteType, InList
<1>4. QED
  BY <1>1, <1>2, <1>3 DEF Typed

LEMMA DestroyKeeps == ASSUME IInv, NEW s \in Sites, Destroy(s) PROVE IInv'
<1>0. /\ process \in {"stopping", "leaving"} /\ crashed = "no" /\ Live(s)
      /\ \A t \in Sites : site[t].at \in {"none", "built"}
  BY DEF Destroy, IInv, Alone, Building
<1>1. CASE /\ Clear
           /\ Demolish(s)
           /\ UNCHANGED <<library, config, process, caught_signal, asked, crashed, round,
                          threw, overlapped>>
  <2>0. /\ plugin' = [p \in Plugins |->
                        IF p \in site[s].children THEN "deleted" ELSE plugin[p]]
        /\ named' = named \ {s} /\ opened' = opened \ {s}
    BY <1>1 DEF Demolish
  <2>1. /\ Typed' /\ site'[s].at = "none" /\ site'[s].children = {}
        /\ \A t \in Sites : t # s => site'[t] = site[t]
        /\ \A name \in {"drivers", "modules"} : registry'[name] = None
    BY <1>1, DestroyMoves DEF IInv
  <2>2. Few' /\ \A t \in Sites : Live(t)' => Live(t)
    BY <2>1, FewerLive
  <2>3. Alone' /\ Named' /\ Opened' /\ Registered'
    BY <1>0, <1>1, <2>0, <2>1 DEF IInv, Alone, Building, Named, Opened, Registered
  <2>4. ASSUME ~overlapped, threw = {} PROVE
           /\ \A p \in Plugins : plugin'[p] = "none" <=> plugin[p] = "none"
           /\ Loaded \/ Upto(1)
           /\ \A t \in Sites : site[t].children \subseteq InMap
                               /\ (site[t].at = "built" => HasAll(t))
    <3>1. /\ Loaded \/ Upto(1)
          /\ \A t \in Sites : site[t].children \subseteq InMap
                               /\ (site[t].at = "built" => HasAll(t))
      BY <1>0, <2>4 DEF IInv, Loading
    <3>2. \A p \in Plugins : plugin'[p] = IF p \in site[s].children THEN "deleted" ELSE plugin[p]
      BY <2>0
    <3>3. QED
      BY <3>1, <3>2 DEF InMap
  <2>5. Loading'
    <3> SUFFICES ASSUME ~overlapped, threw = {} PROVE Loading'
      BY <1>1 DEF Loading
    <3>1. Loaded' \/ Upto(1)'
      BY <1>1, <2>4, EnabledAre DEF Loaded, Upto
    <3>2. InMap' = InMap
      BY <2>4 DEF InMap
    <3>3. \A t \in Sites : site'[t].children \subseteq InMap' /\ site'[t].at \in {"none", "built"}
                           /\ (site'[t].at = "built" => HasAll(t)')
      BY <1>0, <1>1, <2>1, <2>4, <3>2 DEF HasAll
    <3>4. QED
      BY <3>1, <3>3 DEF Loading
  <2>6. Deleted'
    <3>1. MaxSites = 1 => \A t \in Sites : ~Live(t)'
      BY <1>0, <2>1, <2>2, OneLive DEF IInv, Live
    <3>2. QED
      BY <1>0, <1>1, <3>1 DEF Deleted
  <2>7. FailuresExplained'
    BY <1>0, <1>1 DEF IInv, FailuresExplained
  <2>8. QED
    BY <2>1, <2>2, <2>3, <2>5, <2>6, <2>7 DEF IInv
<1>2. CASE DeletesAgain(s)
  <2>1. \E p \in Plugins : plugin[p] = "deleted"
    BY <1>2 DEF DeletesAgain, IInv, Typed, TypeOK
  <2>2. "attached" \in threw \/ round # 1 \/ MaxSites # 1
    BY <1>0, <2>1 DEF IInv, Deleted
  <2>3. PluginGone
    BY <1>0, <2>2, RoundIs, SitesAssumption DEF PluginGone
  <2>4. QED
    BY <1>2, <2>3, StepsAre, CrashKeeps DEF DeletesAgain
<1>3. QED
  BY <1>1, <1>2 DEF Destroy

LEMMA MainKeeps == ASSUME IInv, Main \/ Fail PROVE IInv'
<1>0. /\ caught_signal \in BOOLEAN /\ asked \in BOOLEAN /\ FALSE \in BOOLEAN
      /\ {"mounting", "running", "stopping", "leaving", "ended"} \subseteq Processes
  BY DEF IInv, Typed, TypeOK, Processes
<1>1. /\ process # "running" => \A s \in Sites : ~Building(s)
      /\ process \in {"starting", "mounting"} => \A s \in Sites : ~Live(s)
  BY DEF IInv, Alone
<1>2. CASE Start
  <2>1. process = "starting"
    BY <1>2 DEF Start, Step
  <2>2. QED
    BY <1>0, <1>1, <1>2, <2>1, StepKeeps DEF Start
<1>3. CASE Run
  <2>1. process = "mounting"
    BY <1>3 DEF Run, Step
  <2>2. QED
    BY <1>0, <1>1, <1>3, <2>1, StepKeeps DEF Run
<1>4. CASE Return \/ Fail
  BY <1>0, <1>4, StepKeeps DEF Return, Fail
<1>5. CASE Leave /\ round' = round /\ Step("leaving", "ended")
  <2>1. \A s \in Sites : ~Building(s)
    BY <1>1, <1>5 DEF Step
  <2>2. QED
    BY <1>0, <1>5, <2>1, StepKeeps DEF Leave
<1>6. CASE Leave /\ round < MaxRounds /\ Step("stopping", "starting") /\ round' = round + 1
  <2>1. /\ process = "stopping" /\ process' = "starting" /\ crashed = "no" /\ crashed' = "no"
        /\ Outside /\ UNCHANGED <<caught_signal, asked>>
        /\ \A s \in Sites : ~Live(s) /\ ~Building(s)
    BY <1>1, <1>6 DEF Leave, Step, Outside
  <2>2. round' \in 1..MaxRounds /\ round' # 1
    BY <1>6, RoundIs, MaxRoundsAssumption
  <2>3. Deleted'
    BY <2>2 DEF Deleted
  <2>4. FailuresExplained'
    BY <2>1 DEF Outside, IInv, FailuresExplained
  <2>5. process' \in Processes /\ crashed' \in Crashes \cup {"no"}
    BY <2>1 DEF Processes
  <2>6. QED
    BY <1>0, <2>1, <2>2, <2>3, <2>4, <2>5, OutsideKeeps
<1>7. QED
  BY <1>2, <1>3, <1>4, <1>5, <1>6 DEF Main, Leave

----------------------------------------------------------------------------

LEMMA InitIInv == Init => IInv
<1> SUFFICES ASSUME Init PROVE IInv
  OBVIOUS
<1>1. \A s \in Sites : site[s] = Absent /\ site[s].at = "none" /\ site[s].children = {}
  BY AbsentIs DEF Init
<1>2. site \in [Sites -> SiteType]
  BY AbsentIs DEF Init
<1>3. 1 \in 1..MaxRounds
  BY MaxRoundsAssumption
<1>4. TypeOK
  BY <1>1, <1>2, <1>3 DEF Init, TypeOK, SiteType, Processes
<1>5. LiveSites = {}
  BY <1>1 DEF LiveSites, Live
<1>6. Few
  BY <1>5, FS_EmptySet, SitesAssumption DEF Few
<1>7. Typed /\ Alone /\ Named /\ Opened /\ Registered
  BY <1>1, <1>4 DEF Init, Typed, InList, Alone, Building, Live, Named, Opened, Registered
<1>8. Upto(1)
  BY EnabledAre DEF Init, Upto
<1>9. Loading
  BY <1>1, <1>8 DEF Loading
<1>10. Deleted /\ FailuresExplained
  BY DEF Init, Deleted, FailuresExplained
<1>11. QED
  BY <1>6, <1>7, <1>9, <1>10 DEF IInv

LEMMA NextIInv == IInv /\ [Next]_vars => IInv'
<1> SUFFICES ASSUME IInv, [Next]_vars PROVE IInv'
  OBVIOUS
<1>1. ASSUME NEW s \in Sites, Begin(s) \/ Construct(s) \/ Destroy(s) PROVE IInv'
  BY <1>1, BeginKeeps, ConstructKeeps, DestroyKeeps
<1>2. CASE Signal \/ StopService
  BY <1>2, SignalKeeps, StopServiceKeeps
<1>3. CASE Main \/ Fail
  BY <1>3, MainKeeps
<1>4. CASE UNCHANGED vars
  <2>1. Typed'
    BY <1>4 DEF vars, IInv, Typed, TypeOK, InList
  <2>2. Few' /\ Alone' /\ Named' /\ Opened' /\ Registered'
    BY <1>4 DEF vars, IInv, Few, LiveSites, Live, Alone, Building, Named, Opened, Registered
  <2>3. Loading'
    BY <1>4 DEF vars, IInv, Loading, Loaded, Upto, HasAll, InMap
  <2>4. Deleted' /\ FailuresExplained'
    BY <1>4 DEF vars, IInv, Deleted, Live, FailuresExplained
  <2>5. QED
    BY <2>1, <2>2, <2>3, <2>4 DEF IInv
<1>5. QED
  BY <1>1, <1>2, <1>3, <1>4 DEF Next

LEMMA SpecIInv == Spec => []IInv
  BY InitIInv, NextIInv, PTL DEF Spec

(* Type correctness, whatever constructors overlap, throw or crash.            *)
THEOREM StartupTypeCorrect == Spec => []TypeOK
  BY SpecIInv, PTL DEF IInv, Typed

(* Without overlap and exceptions every site has all plugins that can be       *)
(* loaded, for any list and any number of sites and passes of the loop.        *)
THEOREM SitesHaveEnabled == Spec => []BuiltHasEnabled
<1>1. IInv => BuiltHasEnabled
  BY DEF IInv, Loading, HasAll, BuiltHasEnabled
<1>2. QED
  BY <1>1, SpecIInv, PTL

(* A start breaks only in the ways that the property names.                    *)
THEOREM StartFailuresExplained == Spec => []FailuresExplained
  BY SpecIInv, PTL DEF IInv

(* Unless a constructor threw, what is registered exists, and every site       *)
(* finds the modules and the drivers.                                          *)
THEOREM RegistryIsLive == Spec => []RegistryLive
<1>1. IInv => RegistryLive
  BY DEF IInv, Registered, RegistryLive
<1>2. QED
  BY <1>1, SpecIInv, PTL

----------------------------------------------------------------------------
(* A signal is never forgotten.                                            *)

\* A signal was caught in the r-th pass before run() returned, ...
Caught(r) ==
    caught_signal /\ round = r /\ process \in {"starting", "mounting", "running"}
\* ... and this is what becomes of it.
LastPass(r) ==
    caught_signal /\ round = r
    /\ process \in {"starting", "mounting", "running", "leaving", "ended"}

LEMMA ConstructorsKeepSignal ==
    ASSUME NEW s \in Sites, Begin(s) \/ Construct(s) \/ Destroy(s)
    PROVE  UNCHANGED <<caught_signal, round, process>>
<1>1. ASSUME NEW why, Throw(s, why) PROVE UNCHANGED <<caught_signal, round, process>>
  BY <1>1 DEF Throw, DeletesAgain, Crash
<1>2. CASE Begin(s) \/ Destroy(s)
  BY <1>2 DEF Begin, Destroy, DeletesAgain, Crash
<1>3. CASE AddModules(s) \/ NameDriver(s) \/ OpenDriver(s) \/ ReadPages(s)
  BY <1>1, <1>3 DEF AddModules, NameDriver, OpenDriver, ReadPages, Crash
<1>4. CASE LoadConfig(s) \/ Check(s) \/ LoadLibrary(s) \/ Positions(s)
  BY <1>1, <1>4 DEF LoadConfig, Check, LoadLibrary, Positions, Crash
<1>5. CASE Attach(s)
  BY <1>1, <1>5 DEF Attach, Crash
<1>6. QED
  BY <1>2, <1>3, <1>4, <1>5 DEF Construct

LEMMA LastPassStays == ASSUME NEW r, LastPass(r), [Next]_vars PROVE LastPass(r)'
<1>1. ASSUME NEW s \in Sites, Begin(s) \/ Construct(s) \/ Destroy(s) PROVE LastPass(r)'
  BY <1>1, ConstructorsKeepSignal DEF LastPass
<1>2. CASE Signal \/ StopService
  BY <1>2 DEF Signal, StopService, LastPass
<1>3. CASE Start \/ Run
  BY <1>3 DEF Start, Run, Step, LastPass
<1>4. CASE Return \/ Fail
  BY <1>4 DEF Return, Fail, Step, LastPass
<1>5. CASE Leave
  BY <1>5 DEF Leave, Step, LastPass
<1>6. CASE UNCHANGED vars
  BY <1>6 DEF vars, LastPass
<1>7. QED
  BY <1>1, <1>2, <1>3, <1>4, <1>5, <1>6 DEF Next, Main

(* The pass of the loop that a signal finds starting or at work is the last    *)
(* one, even if its shutdown was lost and the service stops much later for     *)
(* another reason (main.cpp:30-36, 72).                                        *)
THEOREM SignalsAreRemembered ==
    ASSUME NEW r
    PROVE  Spec => [](Caught(r) => [](round = r))
<1>1. Caught(r) => LastPass(r)
  BY DEF Caught, LastPass
<1>2. LastPass(r) /\ [Next]_vars => LastPass(r)'
  BY LastPassStays
<1>3. LastPass(r) => round = r
  BY DEF LastPass
<1>4. QED
  BY <1>1, <1>2, <1>3, PTL DEF Spec
=============================================================================
