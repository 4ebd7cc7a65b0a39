----------------------------- MODULE HostLoader -----------------------------
(***************************************************************************)
(* devmgr/src/Host.cpp: the CECHost_ functions of the process, each of     *)
(* which finds its namesake in a plugin and calls it.                      *)
(*                                                                         *)
(* A library is known by the number of its loading, and so are the         *)
(* addresses dlsym() finds in it.  Nothing in the file takes a lock, so a  *)
(* step of a thread reads or writes one of its statics.  Steps that do     *)
(* more say why nobody can tell.  One thread loads and unloads: main()     *)
(* (DeviceManager.cpp:240, :307), which is the only one to write plugin    *)
(* and pluginGen.                                                          *)
(***************************************************************************)
EXTENDS Integers

CONSTANTS
  Threads,     \* the threads that call CECHost_ functions
  Functions,   \* the CECHost_ functions that forward
  Exports,     \* those of them the plugin has
  MaxGen       \* bound: how often the plugin is loaded

ASSUME MaxGenAssumption == MaxGen \in Nat \ {0}
ASSUME FunctionsAssumption == Functions # {} /\ Exports \subseteq Functions

NoPlugin == 0          \* plugin == NULL
NoSymbol == 0          \* f == NULL
Self == MaxGen + 1     \* dlsym(NULL, name): the forwarder of this process
Unset == -1            \* a static currGen before the first call

VARIABLES
  loader,      \* where main() is in CECHost_LoadPlugin or CECHost_UnloadPlugin
  plugin,      \* the number of the library plugin points to
  pluginGen,   \* pluginGen
  f,           \* [fn |-> the static f of CECHost_fn]
  currGen,     \* [fn |-> its static currGen]
  pc,          \* [t |-> where thread t is]
  in,          \* [t |-> the function t is in]
  seen,        \* [t |-> what t has read and not used yet]
  gone,        \* the libraries used while they were not loaded, NULL included
  raced        \* history: a call overlapped an unloading or a second loading

statics == <<plugin, pluginGen, f, currGen>>
vars == <<loader, statics, pc, in, seen, gone, raced>>

Idle == "idle"

Init ==
  /\ loader = Idle
  /\ plugin = NoPlugin /\ pluginGen = 0
  /\ f = [fn \in Functions |-> NoSymbol]
  /\ currGen = [fn \in Functions |-> Unset]
  /\ pc = [t \in Threads |-> Idle]
  /\ in \in [Threads -> {CHOOSE fn \in Functions : TRUE}]
  /\ seen = [t \in Threads |-> NoSymbol]
  /\ gone = {}
  /\ raced = FALSE

Calling == \E t \in Threads : pc[t] # Idle

\* The number of the last loading, counted already or not.
Newest == IF loader = "count" THEN pluginGen + 1 ELSE pluginGen

\* The library plugin points to is there, until dlclose() has run.
Loaded(lib) == lib # NoPlugin /\ lib = plugin /\ loader # "clear"

Use(lib) == gone' = IF Loaded(lib) THEN gone ELSE gone \cup {lib}

-----------------------------------------------------------------------------
(* CECHost_LoadPlugin and CECHost_UnloadPlugin *)

\* plugin = dlopen(), which may fail; a loaded plugin is not loaded again.  No
\* pointer is there to be wrong before the first loading.
LoadOpens ==
  /\ loader = Idle /\ plugin = NoPlugin /\ pluginGen < MaxGen
  /\ loader' = "count"
  /\ plugin' = pluginGen + 1
  /\ raced' = (raced \/ (pluginGen # 0 /\ Calling))
  /\ UNCHANGED <<pluginGen, f, currGen, pc, in, seen, gone>>

\* Variant: the loading is not counted.
LoadUncounted ==
  /\ loader = "count" /\ loader' = Idle
  /\ UNCHANGED <<statics, pc, in, seen, gone, raced>>

\* pluginGen++
LoadCounts ==
  /\ loader = "count" /\ loader' = Idle
  /\ pluginGen' = pluginGen + 1
  /\ UNCHANGED <<plugin, f, currGen, pc, in, seen, gone, raced>>

\* dlclose(plugin)
UnloadCloses ==
  /\ loader = Idle /\ plugin # NoPlugin
  /\ loader' = "clear"
  /\ raced' = (raced \/ Calling)
  /\ UNCHANGED <<statics, pc, in, seen, gone>>

\* plugin = NULL
UnloadClears ==
  /\ loader = "clear" /\ loader' = Idle
  /\ plugin' = NoPlugin
  /\ UNCHANGED <<pluginGen, f, currGen, pc, in, seen, gone, raced>>

-----------------------------------------------------------------------------
(* A CECHost_ function *)

Goes(t, from, to) == pc[t] = from /\ pc' = [pc EXCEPT ![t] = to]

\* The first call of a function initialises its currGen; no other thread sees
\* it before that is done.
Enter(t, fn) ==
  /\ Goes(t, Idle, "plugin")
  /\ in' = [in EXCEPT ![t] = fn]
  /\ currGen' = IF currGen[fn] = Unset THEN [currGen EXCEPT ![fn] = pluginGen] ELSE currGen
  /\ raced' = (raced \/ loader = "clear" \/ (loader = "count" /\ pluginGen # 0))
  /\ UNCHANGED <<loader, plugin, pluginGen, f, seen, gone>>

\* _load(): with no plugin the call returns an error.
TestPlugin(t) ==
  /\ Goes(t, "plugin", IF plugin = NoPlugin THEN Idle ELSE "func")
  /\ UNCHANGED <<loader, statics, in, seen, gone, raced>>

\* Variant: a pointer that was found once is used for ever.
TestFuncOnce(t) ==
  /\ Goes(t, "func", IF f[in[t]] = NoSymbol THEN "search" ELSE "follow")
  /\ UNCHANGED <<loader, statics, in, seen, gone, raced>>

\* *func == NULL
TestFunc(t) ==
  /\ Goes(t, "func", IF f[in[t]] = NoSymbol THEN "search" ELSE "gen")
  /\ UNCHANGED <<loader, statics, in, seen, gone, raced>>

\* *currGen != pluginGen: the two are read in either order.
ReadGen(t) ==
  /\ \/ Goes(t, "gen", "with pluginGen") /\ seen' = [seen EXCEPT ![t] = currGen[in[t]]]
     \/ Goes(t, "gen", "with currGen") /\ seen' = [seen EXCEPT ![t] = pluginGen]
  /\ UNCHANGED <<loader, statics, in, gone, raced>>

TestGen(t) ==
  /\ \/ Goes(t, "with pluginGen", IF seen[t] = pluginGen THEN "follow" ELSE "search")
     \/ Goes(t, "with currGen", IF seen[t] = currGen[in[t]] THEN "follow" ELSE "search")
  /\ UNCHANGED <<loader, statics, in, seen, gone, raced>>

\* dlsym(): the address in the library of this moment, if it has the function.
\* Without one the search goes through the process, which may show the
\* forwarder itself; in a library that is gone it may still find something.
\* plugin is read in the same step: only an unloading could come between.
Found(fn) ==
  CASE plugin = NoPlugin -> {NoSymbol, Self}
    [] loader = "clear" -> {NoSymbol, plugin}
    [] OTHER -> {IF fn \in Exports THEN plugin ELSE NoSymbol}

\* Variant: a pointer is looked up only when there is none.
SearchMissing(t) ==
  /\ Goes(t, "search", "place")
  /\ \E address \in IF f[in[t]] = NoSymbol THEN Found(in[t]) ELSE {f[in[t]]} :
       seen' = [seen EXCEPT ![t] = address]
  /\ gone' = IF loader = "clear" THEN gone \cup {plugin} ELSE gone
  /\ UNCHANGED <<loader, statics, in, raced>>

Search(t) ==
  /\ Goes(t, "search", "place")
  /\ \E address \in Found(in[t]) : seen' = [seen EXCEPT ![t] = address]
  /\ gone' = IF loader = "clear" THEN gone \cup {plugin} ELSE gone
  /\ UNCHANGED <<loader, statics, in, raced>>

\* *func = ..., and the test for NULL of what was stored: another thread that
\* stores stores the same, unless an unloading came between.
Place(t) ==
  /\ Goes(t, "place", IF seen[t] = NoSymbol THEN Idle ELSE "mark")
  /\ f' = [f EXCEPT ![in[t]] = seen[t]]
  /\ UNCHANGED <<loader, plugin, pluginGen, currGen, in, seen, gone, raced>>

\* *currGen = pluginGen, read and write
MarkReads(t) ==
  /\ Goes(t, "mark", "marks")
  /\ seen' = [seen EXCEPT ![t] = pluginGen]
  /\ UNCHANGED <<loader, statics, in, gone, raced>>

MarkWrites(t) ==
  /\ Goes(t, "marks", "follow")
  /\ currGen' = [currGen EXCEPT ![in[t]] = seen[t]]
  /\ UNCHANGED <<loader, plugin, pluginGen, f, in, seen, gone, raced>>

\* The pointer is read for the call, and the thread is inside until it is back.
\* The library must be there when it starts and when it ends.  Through Self it
\* starts again from the top.
Follow(t) ==
  /\ Goes(t, "follow", IF f[in[t]] = Self THEN "plugin" ELSE "inside")
  /\ seen' = [seen EXCEPT ![t] = f[in[t]]]
  /\ IF f[in[t]] = Self THEN UNCHANGED gone ELSE Use(f[in[t]])
  /\ UNCHANGED <<loader, statics, in, raced>>

Return(t) ==
  /\ Goes(t, "inside", Idle)
  /\ Use(seen[t])
  /\ UNCHANGED <<loader, statics, in, seen, raced>>

Load(t) == TestPlugin(t) \/ TestFunc(t) \/ ReadGen(t) \/ TestGen(t)
           \/ Search(t) \/ Place(t) \/ MarkReads(t) \/ MarkWrites(t)

Next ==
  \/ LoadOpens \/ LoadCounts
  \/ UnloadCloses \/ UnloadClears
  \/ \E t \in Threads :
       \/ \E fn \in Functions : Enter(t, fn)
       \/ Load(t)
       \/ Follow(t) \/ Return(t)

Spec == Init /\ [][Next]_vars

-----------------------------------------------------------------------------
Places == {Idle, "plugin", "func", "gen", "with pluginGen", "with currGen",
           "search", "place", "mark", "marks", "follow", "inside"}

\* The values of the variables: no static holds a generation still to come.
TypeOK ==
  /\ loader \in {Idle, "count", "clear"}
  /\ pluginGen \in 0..MaxGen /\ Newest <= MaxGen /\ plugin \in {NoPlugin, Newest}
  /\ f \in [Functions -> 0..Newest \cup {Self}]
  /\ currGen \in [Functions -> {Unset} \cup 0..pluginGen]
  /\ pc \in [Threads -> Places]
  /\ in \in [Threads -> Functions]
  /\ seen \in [Threads -> 0..Newest \cup {Unset, Self}]
  /\ gone \subseteq 0..Newest /\ raced \in BOOLEAN

\* No thread calls into a library that was unloaded, searches one, or calls
\* through NULL, however often the plugin is unloaded and loaded again, unless
\* a call overlapped an unloading (Host.cpp:71), or a loading after the first
\* (Host.cpp:50 to :56: plugin is the new library already, and pluginGen still
\* the number every old pointer is marked with).
NoStaleCall == raced \/ gone = {}

\* Whenever a library is loaded and counted, a pointer marked with this
\* generation leads into this library, for every function, under the same
\* condition: what a later call trusts without a look.
MarkedIsCurrent ==
  ~raced /\ loader = Idle /\ plugin # NoPlugin =>
    \A fn \in Functions :
      f[fn] # NoSymbol /\ currGen[fn] = pluginGen => f[fn] = plugin
=============================================================================
