------------------------------- MODULE Startup ------------------------------
(***************************************************************************)
(* How a process of opnCMS comes up and goes down: the loop of main() and  *)
(* its signal handler, the construction and destruction of apps::site      *)
(* (src/src/site.cpp), the registry of modules (opncms/ioc.h), the choice  *)
(* of the storage driver (module/data.cpp) and the plugin loader           *)
(* (opncms/module/plugin.h).                                               *)
(*                                                                         *)
(* The service builds a site when a request finds none free, at most one   *)
(* per worker thread, and keeps it until run() returns.  Constructors run  *)
(* in the worker threads, so several may be at work at once: a call of the *)
(* constructor's body is one step here.  The registry, the map of plugins  *)
(* and the configuration of the loader are static and have no lock.        *)
(*                                                                         *)
(* SIGHUP comes when it likes and runs signal_handler().  SIGINT and       *)
(* SIGTERM are caught by the service while it runs; at any other time they *)
(* end the process as they always do, which is left out here.              *)
(*                                                                         *)
(* Data abstraction.  A site is the address it is built at, which another  *)
(* may get after it.  The storage drivers of a site are one entry of the   *)
(* registry and its modules another.  A plugin is its place in the order   *)
(* of names.  One operation on a std::map is one step.                     *)
(***************************************************************************)
EXTENDS FiniteSets, Naturals, Sequences

CONSTANTS
    Sites,     \* addresses for a site
    MaxSites,  \* worker_threads
    Plugins,   \* plugins, as numbers in the order of their names
    Enabled,   \* "plugins.enabled" of plugins.js
    MaxRounds, \* bound: passes of the loop in main()
    None       \* no site

ASSUME SitesAssumption == MaxSites \in Nat \ {0} /\ None \notin Sites
ASSUME PluginsAssumption == Plugins \subseteq Nat \ {0}
ASSUME EnabledAssumption ==
    /\ Enabled \in Seq(Plugins)
    /\ \A i, j \in 1..Len(Enabled) : Enabled[i] = Enabled[j] => i = j
ASSUME MaxRoundsAssumption == MaxRounds \in Nat \ {0}

VARIABLES
    library,  \* what each plugin's shared object holds
    config,   \* Plug::config_ was read
    plugin,   \* the static map of plugins: "none" is not in it
    site,     \* each address: how far the site is, its place in a list, its children
    named,    \* the sites whose Data has a driver_
    opened,   \* the sites whose storage driver was init()ed
    registry, \* ioc::iocmap_
    process,  \* what main() does
    caught_signal, \* signal_handler() was run
    asked,    \* a shutdown has reached the service: its run() will return
    crashed,  \* the object whose use stopped the process
    round,    \* passes of the loop
    threw,    \* history: how constructors threw
    overlapped \* history: two constructors were at work at once

vars == <<library, config, plugin, site, named, opened, registry, process,
          caught_signal, asked, crashed, round, threw, overlapped>>

Libraries == {"ok", "rpc only", "useless"}
Steps == {"none", "registering", "naming", "opening", "reading", "config", "checking",
          "loading", "positions", "attaching", "built"}
Processes == {"starting", "mounting", "running", "stopping", "leaving", "ended"}
Crashes == {"NULL plugin", "deleted plugin", "deleted site", "deleted service"}
Absent == [at |-> "none", next |-> 0, children |-> {}]

InMap == {p \in Plugins : plugin[p] # "none"}
Live(s) == s \in Sites /\ site[s].at # "none"
Building(s) == site[s].at \notin {"none", "built"}

----------------------------------------------------------------------------
(* The registry.                                                           *)

\* ioc::add(): the first address registered under a name stays.
Add(name, s) ==
    registry' = [registry EXCEPT ![name] = IF @ = None THEN s ELSE @]

\* Mutant: the drivers stay registered.
ClearModules == registry' = [registry EXCEPT !["modules"] = None]
\* ioc::clear()
Clear == registry' = [name \in {"drivers", "modules"} |-> None]

----------------------------------------------------------------------------
(* Steps of a constructor.                                                 *)

GoTo(s, step, n) == site' = [site EXCEPT ![s].at = step, ![s].next = n]

\* Undefined behaviour that stops the process.
Crash(cause) ==
    /\ crashed' = cause
    /\ UNCHANGED <<library, config, plugin, site, named, opened, registry, process,
                   caught_signal, asked, round, threw, overlapped>>

\* ~application(): the children are deleted, and the map keeps their addresses.
Demolish(s) ==
    /\ plugin' = [p \in Plugins |-> IF p \in site[s].children THEN "deleted" ELSE plugin[p]]
    /\ site' = [site EXCEPT ![s] = Absent]
    /\ named' = named \ {s}
    /\ opened' = opened \ {s}

DeletesAgain(s) ==
    (\E p \in site[s].children : plugin[p] = "deleted") /\ Crash("deleted plugin")

\* An exception leaves the constructor: ~site() does not run and what it registered
\* stays, but the base goes with the children that it has by then.
Throw(s, why) ==
    \/ /\ Demolish(s)
       /\ threw' = threw \cup {why} \cup (IF site[s].children = {} THEN {} ELSE {"attached"})
       /\ UNCHANGED <<library, config, registry, process, caught_signal, asked, crashed,
                      round, overlapped>>
    \/ DeletesAgain(s)

\* A request finds no free site, as long as requests are taken.  The members are
\* constructed: Data, which registers its drivers, then the others.
Begin(s) ==
    /\ process = "running" /\ ~asked /\ crashed = "no" /\ site[s].at = "none"
    /\ Cardinality({t \in Sites : Live(t)}) < MaxSites
    /\ GoTo(s, "registering", 0)
    /\ Add("drivers", s)
    /\ overlapped' = (overlapped \/ \E t \in Sites : Building(t))
    /\ UNCHANGED <<library, config, plugin, named, opened, process, caught_signal,
                   asked, crashed, round, threw>>

\* ioc::add<Data>(db_) and the other modules, if all of them found their settings.
AddModules(s) ==
    /\ site[s].at = "registering"
    /\ \/ /\ GoTo(s, "naming", 0)
          /\ Add("modules", s)
          /\ UNCHANGED <<library, config, plugin, named, opened, process,
                         caught_signal, asked, crashed, round, threw, overlapped>>
       \/ Throw(s, "other")

\* db_.driver(name, params), with the settings that are there, keeps the name, ...
NameDriver(s) ==
    /\ site[s].at = "naming"
    /\ \/ /\ GoTo(s, "opening", 0)
          /\ named' = named \cup {s}
          /\ UNCHANGED <<library, config, plugin, opened, registry, process,
                         caught_signal, asked, crashed, round, threw, overlapped>>
       \/ Throw(s, "other")

\* ... and init()s the driver registered under it, which may be another site's.
OpenDriver(s) ==
    /\ site[s].at = "opening"
    /\ \/ /\ GoTo(s, "reading", 0)
          /\ opened' = opened \cup {t \in Sites : Live(t) /\ t = registry["drivers"]}
          /\ UNCHANGED <<library, config, plugin, named, registry, process,
                         caught_signal, asked, crashed, round, threw, overlapped>>
       \/ Throw(s, "other")
       \/ ~Live(registry["drivers"]) /\ Crash("deleted site")

\* The pages, through ioc::get<Data>(): a name that is not set throws, and so
\* does a page that is not well formed or a driver that does not answer.
ReadPages(s) ==
    LET data == registry["modules"] IN
    /\ site[s].at = "reading"
    /\ \/ /\ Live(data) => data \in named
          /\ GoTo(s, "config", 0)
          /\ UNCHANGED <<library, config, plugin, named, opened, registry, process,
                         caught_signal, asked, crashed, round, threw, overlapped>>
       \/ Throw(s, "other")
       \/ Live(data) /\ data \notin named /\ Throw(s, "no driver")
       \/ /\ Live(registry["drivers"]) /\ registry["drivers"] \notin opened
          /\ Throw(s, "no driver")
       \/ ~(Live(data) /\ Live(registry["drivers"])) /\ Crash("deleted site")

\* Plug::load(): the file is read by the first site only, and without any
\* enabled plugin the site is ready.
LoadConfig(s) ==
    /\ site[s].at = "config"
    /\ \/ /\ config' = TRUE
          /\ IF Enabled = <<>> THEN GoTo(s, "built", 0) ELSE GoTo(s, "checking", 1)
          /\ UNCHANGED <<library, plugin, named, opened, registry, process,
                         caught_signal, asked, crashed, round, threw, overlapped>>
       \/ ~config /\ Throw(s, "other")

\* Mutant: one that is loaded already is passed over without the next being taken.
CheckAgain(s) ==
    /\ site[s].at = "checking"
    /\ GoTo(s, IF plugin[Enabled[site[s].next]] # "none" THEN "checking" ELSE "loading",
            site[s].next)
    /\ UNCHANGED <<library, config, plugin, named, opened, registry, process,
                   caught_signal, asked, crashed, round, threw, overlapped>>

\* load_plugins(): one that is loaded already ends the list.
Check(s) ==
    LET p == Enabled[site[s].next] IN
    /\ site[s].at = "checking"
    /\ IF plugin[p] # "none" THEN GoTo(s, "positions", 0)
       ELSE GoTo(s, "loading", site[s].next)
    /\ UNCHANGED <<library, config, plugin, named, opened, registry, process,
                   caught_signal, asked, crashed, round, threw, overlapped>>

\* Mutant: off by one.
AfterPluginEarly(s) ==
    IF site[s].next + 1 >= Len(Enabled) THEN GoTo(s, "positions", 0)
    ELSE GoTo(s, "checking", site[s].next + 1)
\* Mutant: one place past the end.
AfterPluginLate(s) ==
    IF site[s].next > Len(Enabled) THEN GoTo(s, "positions", 0)
    ELSE GoTo(s, "checking", site[s].next + 1)
\* The next plugin of the list, or prepare_pos() after the last one.
AfterPlugin(s) ==
    IF site[s].next = Len(Enabled) THEN GoTo(s, "positions", 0)
    ELSE GoTo(s, "checking", site[s].next + 1)

\* load_lib() and, from inside the library, add(): if it does not open or its own
\* code throws, so does this; a useless one (no symbol, or another version) is passed
\* over, and a plugin that another constructor added meanwhile is deleted again.
LoadLibrary(s) ==
    LET p == Enabled[site[s].next] IN
    /\ site[s].at = "loading"
    /\ \/ Throw(s, "other")
       \/ /\ plugin' = IF library[p] \in {"ok", "rpc only"} /\ plugin[p] = "none"
                       THEN [plugin EXCEPT ![p] = "alive"] ELSE plugin
          /\ AfterPlugin(s)
          /\ UNCHANGED <<library, config, named, opened, registry, process,
                         caught_signal, asked, crashed, round, threw, overlapped>>

\* prepare_pos() calls every plugin of the map, which may throw, through a pointer
\* that is NULL when the plugin has remote calls only.
Positions(s) ==
    /\ site[s].at = "positions"
    /\ \/ /\ \A p \in InMap : library[p] # "rpc only"
          /\ GoTo(s, "attaching", 0)
          /\ UNCHANGED <<library, config, plugin, named, opened, registry, process,
                         caught_signal, asked, crashed, round, threw, overlapped>>
       \/ InMap # {} /\ Throw(s, "other")
       \/ (\E p \in InMap : library[p] = "rpc only") /\ Crash("NULL plugin")
       \/ (\E p \in InMap : plugin[p] = "deleted") /\ Crash("deleted plugin")

\* attach_plugins(): the next plugin of the map gives its map() and prepare()s, both
\* of which may throw, and becomes a child of the site.
Attach(s) ==
    LET rest == {p \in InMap : p > site[s].next} IN
    /\ site[s].at = "attaching"
    /\ IF rest = {}
       THEN /\ GoTo(s, "built", 0)
            /\ UNCHANGED <<library, config, plugin, named, opened, registry, process,
                           caught_signal, asked, crashed, round, threw, overlapped>>
       ELSE \E p \in rest :
            /\ \A q \in rest : p <= q
            /\ \/ /\ library[p] # "rpc only"
                  /\ site' = [site EXCEPT ![s] = [at |-> "attaching", next |-> p,
                                                  children |-> @.children \cup {p}]]
                  /\ UNCHANGED <<library, config, plugin, named, opened, registry, process,
                                 caught_signal, asked, crashed, round, threw, overlapped>>
               \/ Throw(s, "other")
               \/ library[p] = "rpc only" /\ Crash("NULL plugin")
               \/ plugin[p] = "deleted" /\ Crash("deleted plugin")

----------------------------------------------------------------------------
(* main() and its signal handler.                                          *)

\* What the variable service holds: srv is gone at the end of each pass, and the
\* variable still has its address while the next one is constructed.
Service ==
    CASE process = "starting" /\ round = 1 -> "NULL"
      [] process \in {"mounting", "running"} -> "srv"
      [] OTHER -> "dangling"

\* SIGHUP.  A shutdown() before run() may be lost; of what is left of srv it may be
\* anything.
Signal ==
    /\ process # "ended" /\ crashed = "no"
    /\ caught_signal' = TRUE
    /\ \/ Service = "srv" /\ asked' = TRUE /\ UNCHANGED crashed
       \/ process # "running" /\ UNCHANGED <<asked, crashed>>
       \/ Service = "dangling" /\ crashed' = "deleted service" /\ UNCHANGED asked
    /\ UNCHANGED <<library, config, plugin, site, named, opened, registry, process,
                   round, threw, overlapped>>

\* SIGINT or SIGTERM, which the service catches while it runs.
StopService ==
    /\ process = "running" /\ crashed = "no"
    /\ asked' = TRUE
    /\ UNCHANGED <<library, config, plugin, site, named, opened, registry, process,
                   caught_signal, crashed, round, threw, overlapped>>

\* main() goes on by itself.
Step(from, to) ==
    /\ process = from /\ crashed = "no"
    /\ process' = to
    /\ UNCHANGED <<library, config, plugin, site, named, opened, registry, crashed,
                   threw, overlapped>>

\* srv is constructed and service set, or an exception ends the process.
Start ==
    /\ Step("starting", "mounting") \/ Step("starting", "ended")
    /\ UNCHANGED <<caught_signal, asked, round>>

\* The site's factory is mounted, and run() called.
Run ==
    /\ Step("mounting", "running") \/ Step("mounting", "ended")
    /\ UNCHANGED <<caught_signal, asked, round>>

\* Mutant: the signal is taken as dealt with, and the loop goes on (main.cpp:73).
ReturnForgets ==
    /\ asked /\ \A s \in Sites : ~Building(s)
    /\ Step("running", "stopping")
    /\ caught_signal' = FALSE /\ asked' = FALSE /\ UNCHANGED round

\* run() returns when it was asked to, and the threads have ended before a site is
\* destroyed: to return 0 if there was a signal, to go on otherwise.
Return ==
    /\ asked /\ \A s \in Sites : ~Building(s)
    /\ Step("running", IF caught_signal THEN "leaving" ELSE "stopping")
    /\ asked' = FALSE
    /\ UNCHANGED <<caught_signal, round>>

\* run() throws: the same on the way to return 1.
Fail ==
    /\ \A s \in Sites : ~Building(s)
    /\ Step("running", "leaving")
    /\ asked' = FALSE
    /\ UNCHANGED <<caught_signal, round>>

\* ~site(), then ~application() with the children.
Destroy(s) ==
    /\ process \in {"stopping", "leaving"} /\ crashed = "no"
    /\ Live(s)
    /\ \/ /\ Clear
          /\ Demolish(s)
          /\ UNCHANGED <<library, config, process, caught_signal, asked, crashed, round,
                         threw, overlapped>>
       \/ DeletesAgain(s)

\* The last of srv: return, or sleep(1) and the next pass.
Leave ==
    /\ \A s \in Sites : ~Live(s)
    /\ \/ Step("leaving", "ended") /\ round' = round
       \/ round < MaxRounds /\ Step("stopping", "starting") /\ round' = round + 1
    /\ UNCHANGED <<caught_signal, asked>>

----------------------------------------------------------------------------

Init ==
    /\ library \in [Plugins -> Libraries]
    /\ config = FALSE
    /\ plugin = [p \in Plugins |-> "none"]
    /\ site = [s \in Sites |-> Absent]
    /\ named = {} /\ opened = {}
    /\ registry = [name \in {"drivers", "modules"} |-> None]
    /\ process = "starting" /\ caught_signal = FALSE /\ asked = FALSE
    /\ crashed = "no" /\ round = 1
    /\ threw = {} /\ overlapped = FALSE

\* What the thread that constructs s does next.
Construct(s) ==
    /\ process = "running" /\ crashed = "no"
    /\ \/ AddModules(s) \/ NameDriver(s) \/ OpenDriver(s) \/ ReadPages(s)
       \/ LoadConfig(s) \/ Check(s) \/ LoadLibrary(s) \/ Positions(s) \/ Attach(s)

Main == Start \/ Run \/ Return \/ Leave

Next ==
    \/ \E s \in Sites : Begin(s) \/ Construct(s) \/ Destroy(s)
    \/ Main \/ Fail
    \/ Signal \/ StopService

Spec == Init /\ [][Next]_vars

\* A thread that runs a constructor goes on, and so does main(), where run() returns
\* once it was asked to; requests, signals and failures need not come.
Fairness ==
    /\ \A s \in Sites : WF_vars(Construct(s))
    /\ \A s \in Sites : WF_vars(Destroy(s))
    /\ WF_vars(Main)

FairSpec == Spec /\ Fairness

----------------------------------------------------------------------------

(* Also: load_plugins() stays inside the list of enabled plugins.            *)
TypeOK ==
    /\ library \in [Plugins -> Libraries]
    /\ config \in BOOLEAN
    /\ plugin \in [Plugins -> {"none", "alive", "deleted"}]
    /\ site \in [Sites -> [at : Steps, next : Nat, children : SUBSET Plugins]]
    /\ \A s \in Sites :
          site[s].at \in {"checking", "loading"} => site[s].next \in 1..Len(Enabled)
    /\ named \in SUBSET Sites /\ opened \in SUBSET Sites
    /\ registry \in [{"drivers", "modules"} -> Sites \cup {None}]
    /\ process \in Processes /\ caught_signal \in BOOLEAN /\ asked \in BOOLEAN
    /\ crashed \in Crashes \cup {"no"}
    /\ round \in 1..MaxRounds
    /\ threw \in SUBSET {"no driver", "other", "attached"}
    /\ overlapped \in BOOLEAN

(* As long as constructors run one after the other and none of them throws,  *)
(* every site has all the enabled plugins that can be loaded, although the   *)
(* list ends at the first one that an earlier site loaded (plugin.h:328).    *)
BuiltHasEnabled ==
    ~overlapped /\ threw = {} =>
        \A s \in Sites : site[s].at = "built" =>
            \A i \in 1..Len(Enabled) :
                library[Enabled[i]] = "ok" => Enabled[i] \in site[s].children

(* What can stop a process: a plugin without a Plugin object; the address of *)
(* a site whose constructor threw, which stays in the registry (site.cpp:55);*)
(* plugins deleted with the sites of an earlier pass of the loop, with one   *)
(* whose constructor threw after it had attached them (site.cpp:233), or     *)
(* twice when two sites own them (site.cpp:195); a signal that finds the     *)
(* address of a service that is gone (main.cpp:34).  Only constructors that  *)
(* overlap find the Data of another site without a driver (data.cpp:164).    *)
FailuresExplained ==
    /\ crashed = "NULL plugin" => \E p \in Plugins : library[p] = "rpc only"
    /\ crashed = "deleted site" => threw # {}
    /\ crashed = "deleted plugin" =>
          \/ round > 1 \/ "attached" \in threw
          \/ process \in {"stopping", "leaving"} /\ MaxSites > 1
    /\ crashed = "deleted service" =>
          /\ caught_signal /\ process \notin {"mounting", "running"}
          /\ process = "starting" => round > 1
    /\ "no driver" \in threw => overlapped

(* Unless a constructor threw, what ioc::get() returns exists, and every     *)
(* site that is up finds the modules and the drivers.                        *)
RegistryLive ==
    threw = {} =>
        /\ \A name \in {"drivers", "modules"} :
              registry[name] = None \/ Live(registry[name])
        /\ process = "running" =>
             \A s \in Sites : site[s].at \notin {"none", "registering"} =>
                 None \notin {registry["drivers"], registry["modules"]}

(* A construction ends: the site is ready, an exception left the constructor *)
(* or the process is gone.                                                   *)
ConstructionEnds ==
    \A s \in Sites : Building(s) ~> (~Building(s) \/ crashed # "no")

(* A signal whose shutdown reached the service ends the process.  One that   *)
(* came too early, or during sleep(1), only does so when something else      *)
(* stops the service.                                                        *)
ShutdownEnds == (asked /\ caught_signal) ~> (process = "ended" \/ crashed # "no")
=============================================================================
