-------------------------- MODULE HostLoaderProofs ---------------------------
(***************************************************************************)
(* For any threads, functions and number of loadings: while no call        *)
(* overlaps an unloading, or a loading after the first, no thread calls    *)
(* through a pointer into a library that is gone.                          *)
(***************************************************************************)
EXTENDS HostLoader, TLAPS

-----------------------------------------------------------------------------
(* The inductive invariant *)

\* Main is inside a loading or an unloading only with a library, or with the
\* pointer to the one it has just closed.
Busy == loader # Idle => plugin # NoPlugin

\* A function has a generation marked before anybody looks for its address.
Entered ==
  /\ \A fn \in Functions : currGen[fn] = Unset => f[fn] = NoSymbol
  /\ \A t \in Threads : pc[t] # Idle => currGen[in[t]] # Unset

\* What a thread has read is a generation, an address, or a library.
Register(t) ==
  /\ pc[t] \in {"with pluginGen", "with currGen", "marks"} => seen[t] \in 0 .. pluginGen
  /\ pc[t] = "place" => seen[t] \in 0 .. Newest \cup {Self}
  /\ pc[t] = "inside" => seen[t] \in 0 .. Newest

\* No thread is in a call while main unloads, or loads for a second time.
Apart == (loader = "clear" \/ (loader = "count" /\ pluginGen # 0)) => ~Calling

\* The functions that have a pointer are functions the plugin exports, so
\* that nobody loses a symbol; and the one marked with the number of the
\* present library has a pointer into it.
Pointers ==
  /\ \A fn \in Functions : f[fn] \in 0 .. Newest
  /\ \A fn \in Functions : f[fn] # NoSymbol => fn \in Exports
  /\ plugin # NoPlugin /\ (loader = "count" => pluginGen = 0) =>
       \A fn \in Functions : f[fn] # NoSymbol /\ currGen[fn] = pluginGen => f[fn] = plugin

\* A thread past the first test has a plugin below it.  One that has seen a
\* pointer keeps one; one about to follow it has the pointer into this library.
\* A generation read before the first loading was counted is not trusted, or
\* does no harm, since every pointer then leads into the first library.
Sound(t) ==
  /\ pc[t] \notin {Idle, "plugin"} => plugin # NoPlugin
  /\ pc[t] \in {"gen", "with pluginGen", "with currGen"} => f[in[t]] # NoSymbol
  /\ pc[t] = "with pluginGen" /\ seen[t] = pluginGen => f[in[t]] = plugin
  /\ pc[t] = "with currGen" => seen[t] = pluginGen \/ pluginGen = 1
  /\ pc[t] = "place" => seen[t] = IF in[t] \in Exports THEN plugin ELSE NoSymbol
  /\ pc[t] \in {"mark", "marks", "follow"} => f[in[t]] = plugin
  /\ pc[t] = "inside" => seen[t] = plugin

Unraced == Apart /\ Pointers /\ (\A t \in Threads : Sound(t)) /\ gone = {}

IInv == /\ TypeOK /\ Busy /\ Entered
        /\ \A t \in Threads : Register(t)
        /\ ~raced => Unraced

\* The markers are no generations of the plugin.
LEMMA Markers ==
  /\ MaxGen \in Nat \ {0} /\ Unset \notin 0 .. MaxGen /\ Self \notin 0 .. MaxGen
  /\ Unset # Self /\ NoSymbol = 0 /\ NoPlugin = 0
BY MaxGenAssumption DEF Unset, Self, NoSymbol, NoPlugin

\* The numbers of libraries.
LEMMA Numbers ==
  ASSUME TypeOK
  PROVE  /\ pluginGen \in 0 .. MaxGen /\ Newest \in 0 .. MaxGen
         /\ Newest = IF loader = "count" THEN pluginGen + 1 ELSE pluginGen
         /\ plugin \in {NoPlugin, Newest}
         /\ 0 .. pluginGen \subseteq 0 .. Newest /\ 0 .. Newest \subseteq 0 .. MaxGen
BY Markers DEF TypeOK, Newest

-----------------------------------------------------------------------------
(* Loading and unloading *)

\* A loading starts with no library, and no pointer if it is the first one.
LEMMA OpensKeeps ==
  ASSUME IInv, LoadOpens
  PROVE  IInv'
<1>1. /\ TypeOK /\ Busy /\ Entered /\ (~raced => Unraced)
      /\ \A t \in Threads : Register(t)
  BY DEF IInv
<1>2. /\ loader = Idle /\ plugin = NoPlugin /\ pluginGen < MaxGen
      /\ loader' = "count" /\ plugin' = pluginGen + 1
      /\ raced' = (raced \/ (pluginGen # 0 /\ Calling))
      /\ UNCHANGED <<pluginGen, f, currGen, pc, in, seen, gone>>
  BY DEF LoadOpens
<1>3. /\ pluginGen \in 0 .. MaxGen /\ Newest = pluginGen /\ Newest' = pluginGen + 1
      /\ Newest' \in 1 .. MaxGen /\ 0 .. Newest \subseteq 0 .. Newest'
  BY <1>1, <1>2, Numbers, Markers DEF Newest, Idle
<1>4. raced' \in BOOLEAN
  BY <1>2
<1>5. f' \in [Functions -> 0 .. Newest' \cup {Self}]
  <2>1. 0 .. Newest \cup {Self} \subseteq 0 .. Newest' \cup {Self}
    BY <1>3
  <2>2. f \in [Functions -> 0 .. Newest \cup {Self}]
    BY <1>1 DEF TypeOK
  <2>3. QED
    BY <1>2, <2>1, <2>2
<1>6. seen' \in [Threads -> 0 .. Newest' \cup {Unset, Self}]
  <2>1. 0 .. Newest \cup {Unset, Self} \subseteq 0 .. Newest' \cup {Unset, Self}
    BY <1>3
  <2>2. seen \in [Threads -> 0 .. Newest \cup {Unset, Self}]
    BY <1>1 DEF TypeOK
  <2>3. QED
    BY <1>2, <2>1, <2>2
<1>7. TypeOK'
  BY <1>1, <1>2, <1>3, <1>4, <1>5, <1>6, Markers DEF TypeOK
<1>8. Busy' /\ Entered'
  BY <1>1, <1>2, <1>3, Markers DEF Busy, Entered
<1>9. \A t \in Threads : Register(t)'
  BY <1>1, <1>2, <1>3 DEF Register
<1>10. ASSUME ~raced' PROVE Unraced'
  <2>1. Unraced /\ (pluginGen = 0 \/ ~Calling)
    BY <1>1, <1>2, <1>10
  <2>2. Apart'
    BY <1>2, <2>1 DEF Apart, Calling
  <2>3. \A t \in Threads : pc[t] \in {Idle, "plugin"}
    BY <1>2, <2>1 DEF Unraced, Sound
  <2>4. \A t \in Threads : Sound(t)'
    BY <1>2, <2>3 DEF Sound, Idle
  <2>5. \A fn \in Functions : f[fn] \in 0 .. Newest
    BY <2>1 DEF Unraced, Pointers
  <2>6. pluginGen = 0 => \A fn \in Functions : f[fn] = NoSymbol
    BY <1>3, <2>5, Markers
  <2>7. Pointers'
    BY <1>2, <1>3, <2>1, <2>5, <2>6 DEF Unraced, Pointers
  <2>8. QED
    BY <1>2, <2>1, <2>2, <2>4, <2>7 DEF Unraced
<1>11. QED
  BY <1>7, <1>8, <1>9, <1>10 DEF IInv

\* When the first loading is counted, every pointer leads into its library;
\* when a later one is, nothing is marked with its number yet.
LEMMA CountsKeeps ==
  ASSUME IInv, LoadCounts
  PROVE  IInv'
<1>1. /\ TypeOK /\ Busy /\ Entered /\ (~raced => Unraced)
      /\ \A t \in Threads : Register(t)
  BY DEF IInv
<1>2. /\ loader = "count" /\ loader' = Idle /\ pluginGen' = pluginGen + 1
      /\ UNCHANGED <<plugin, f, currGen, pc, in, seen, gone, raced>>
  BY DEF LoadCounts
<1>3. /\ pluginGen \in 0 .. MaxGen /\ Newest = pluginGen + 1 /\ Newest' = pluginGen + 1
      /\ Newest' \in 1 .. MaxGen /\ 0 .. pluginGen \subseteq 0 .. pluginGen'
      /\ plugin = Newest
  BY <1>1, <1>2, Numbers, Markers DEF Newest, Idle, Busy
<1>4. currGen' \in [Functions -> {Unset} \cup 0 .. pluginGen']
  <2>1. {Unset} \cup 0 .. pluginGen \subseteq {Unset} \cup 0 .. pluginGen'
    BY <1>3
  <2>2. currGen \in [Functions -> {Unset} \cup 0 .. pluginGen]
    BY <1>1 DEF TypeOK
  <2>3. QED
    BY <1>2, <2>1, <2>2
<1>5. TypeOK'
  BY <1>1, <1>2, <1>3, <1>4 DEF TypeOK
<1>6. Busy' /\ Entered'
  BY <1>1, <1>2 DEF Busy, Entered
<1>7. \A t \in Threads : Register(t)'
  BY <1>1, <1>2, <1>3 DEF Register
<1>8. ASSUME ~raced' PROVE Unraced'
  <2>1. Unraced
    BY <1>1, <1>2, <1>8
  <2>2. Apart'
    BY <1>2 DEF Apart, Idle
  <2>3. \A fn \in Functions : f[fn] \in 0 .. Newest
    BY <2>1 DEF Unraced, Pointers
  <2>4. CASE pluginGen = 0
    <3>1. plugin = 1 /\ pluginGen' = 1
      BY <1>2, <1>3, <2>4
    <3>2. \A fn \in Functions : f[fn] # NoSymbol => f[fn] = plugin
      BY <1>3, <2>3, <3>1, Markers
    <3>3. Pointers'
      BY <1>2, <1>3, <2>1, <2>3, <3>2 DEF Unraced, Pointers
    <3>4. ASSUME NEW t \in Threads PROVE Sound(t)'
      <4>1. Sound(t) /\ in[t] \in Functions
        BY <1>1, <2>1 DEF Unraced, TypeOK
      <4>2. pc[t] = "with pluginGen" => f[in[t]] = plugin
        BY <3>2, <4>1 DEF Sound
      <4>3. QED
        BY <1>2, <3>1, <4>1, <4>2 DEF Sound
    <3>5. QED
      BY <1>2, <2>1, <2>2, <3>3, <3>4 DEF Unraced
  <2>5. CASE pluginGen # 0
    <3>1. \A t \in Threads : pc[t] = Idle
      BY <1>2, <2>1, <2>5 DEF Unraced, Apart, Calling
    <3>2. \A fn \in Functions : currGen[fn] # pluginGen'
      BY <1>1, <1>2, <1>3, Markers DEF TypeOK, Unset
    <3>3. Pointers'
      BY <1>2, <1>3, <2>1, <2>3, <3>2 DEF Unraced, Pointers
    <3>4. \A t \in Threads : Sound(t)'
      BY <1>2, <3>1 DEF Sound, Idle
    <3>5. QED
      BY <1>2, <2>1, <2>2, <3>3, <3>4 DEF Unraced
  <2>6. QED
    BY <2>4, <2>5
<1>9. QED
  BY <1>5, <1>6, <1>7, <1>8 DEF IInv

\* Unloading takes nothing from under a thread, or is noted as a race.
LEMMA UnloadKeeps ==
  ASSUME IInv, UnloadCloses \/ UnloadClears
  PROVE  IInv'
<1>1. /\ TypeOK /\ Busy /\ Entered /\ (~raced => Unraced)
      /\ \A t \in Threads : Register(t)
  BY DEF IInv
<1>2. CASE UnloadCloses
  <2>1. /\ loader = Idle /\ plugin # NoPlugin /\ loader' = "clear"
        /\ raced' = (raced \/ Calling) /\ UNCHANGED <<statics, pc, in, seen, gone>>
    BY <1>2 DEF UnloadCloses
  <2>2. Newest' = Newest /\ raced' \in BOOLEAN
    BY <2>1 DEF Newest, Idle, statics
  <2>3. TypeOK' /\ Busy' /\ Entered'
    BY <1>1, <2>1, <2>2 DEF TypeOK, Busy, Entered, statics
  <2>4. \A t \in Threads : Register(t)'
    BY <1>1, <2>1, <2>2 DEF Register, statics
  <2>5. ASSUME ~raced' PROVE Unraced'
    <3>1. Unraced /\ ~Calling
      BY <1>1, <2>1, <2>5
    <3>2. Apart'
      BY <2>1, <3>1 DEF Apart, Calling
    <3>3. Pointers' /\ \A t \in Threads : Sound(t)'
      BY <2>1, <2>2, <3>1 DEF Unraced, Pointers, Sound, statics, Idle
    <3>4. QED
      BY <2>1, <3>1, <3>2, <3>3 DEF Unraced
  <2>6. QED
    BY <2>3, <2>4, <2>5 DEF IInv
<1>3. CASE UnloadClears
  <2>1. /\ loader = "clear" /\ loader' = Idle /\ plugin' = NoPlugin
        /\ UNCHANGED <<pluginGen, f, currGen, pc, in, seen, gone, raced>>
    BY <1>3 DEF UnloadClears
  <2>2. Newest' = Newest
    BY <2>1 DEF Newest, Idle
  <2>3. TypeOK' /\ Busy' /\ Entered'
    BY <1>1, <2>1, <2>2 DEF TypeOK, Busy, Entered
  <2>4. \A t \in Threads : Register(t)'
    BY <1>1, <2>1, <2>2 DEF Register
  <2>5. ASSUME ~raced' PROVE Unraced'
    <3>1. Unraced /\ \A t \in Threads : pc[t] = Idle
      BY <1>1, <2>1, <2>5 DEF Unraced, Apart, Calling
    <3>2. Apart' /\ Pointers'
      BY <2>1, <2>2, <3>1 DEF Unraced, Apart, Pointers, Idle
    <3>3. \A t \in Threads : Sound(t)'
      BY <2>1, <3>1 DEF Sound, Idle
    <3>4. QED
      BY <2>1, <3>1, <3>2, <3>3 DEF Unraced
  <2>6. QED
    BY <2>3, <2>4, <2>5 DEF IInv
<1>4. QED
  BY <1>2, <1>3

-----------------------------------------------------------------------------
(* One call *)

\* A thread in a call moves on and changes nothing but its place and what it
\* has read: only what is said of that thread needs to be looked at.
LEMMA LocalStep ==
  ASSUME IInv, NEW t \in Threads, NEW to \in Places, NEW value \in 0 .. Newest \cup {Unset, Self},
         pc[t] # Idle,
         pc' = [pc EXCEPT ![t] = to], seen' = [seen EXCEPT ![t] = value],
         UNCHANGED <<loader, statics, in, raced>>, gone' \subseteq 0 .. Newest,
         Register(t)',
         ~raced => Sound(t)' /\ gone' = gone
  PROVE  IInv'
<1>1. /\ TypeOK /\ Busy /\ Entered /\ (~raced => Unraced)
      /\ \A u \in Threads : Register(u)
  BY DEF IInv
<1>2. Newest' = Newest
  BY DEF Newest, statics
<1>3. /\ \A u \in Threads \ {t} : pc'[u] = pc[u] /\ seen'[u] = seen[u]
      /\ \A u \in Threads : pc'[u] # Idle => pc[u] # Idle
      /\ pc' \in [Threads -> Places]
      /\ seen' \in [Threads -> 0 .. Newest' \cup {Unset, Self}]
  BY <1>1, <1>2 DEF TypeOK
<1>4. TypeOK'
  BY <1>1, <1>2, <1>3 DEF TypeOK, statics
<1>5. Busy' /\ Entered'
  BY <1>1, <1>3 DEF Busy, Entered, statics
<1>6. \A u \in Threads : Register(u)'
  BY <1>1, <1>2, <1>3 DEF Register, statics
<1>7. ASSUME ~raced PROVE Unraced'
  <2>1. Unraced
    BY <1>1, <1>7
  <2>2. Apart' /\ Pointers'
    BY <1>2, <1>3, <2>1 DEF Unraced, Apart, Pointers, Calling, statics
  <2>3. \A u \in Threads \ {t} : Sound(u)'
    BY <1>3, <2>1 DEF Unraced, Sound, statics
  <2>4. QED
    BY <1>7, <2>1, <2>2, <2>3 DEF Unraced
<1>8. QED
  BY <1>4, <1>5, <1>6, <1>7 DEF IInv

\* What is known of a thread in a call when no race was noted.
LEMMA InCall ==
  ASSUME IInv, ~raced, NEW t \in Threads, pc[t] # Idle
  PROVE  /\ Pointers /\ Sound(t) /\ gone = {} /\ in[t] \in Functions
         /\ loader # "clear" /\ (loader = "count" => pluginGen = 0)
         /\ pluginGen = 1 /\ plugin # NoPlugin => plugin = 1
<1>1. TypeOK /\ Unraced
  BY DEF IInv
<1>2. loader # "clear" /\ (loader = "count" => pluginGen = 0)
  BY <1>1 DEF Unraced, Apart, Calling
<1>3. plugin \in {NoPlugin, Newest} /\ in[t] \in Functions
  BY <1>1 DEF TypeOK
<1>4. QED
  BY <1>1, <1>2, <1>3 DEF Unraced, Newest

\* A thread enters with nothing in its hands.
LEMMA EnterKeeps ==
  ASSUME IInv, NEW t \in Threads, NEW fn \in Functions, Enter(t, fn)
  PROVE  IInv'
<1>1. /\ TypeOK /\ Busy /\ Entered /\ (~raced => Unraced)
      /\ \A u \in Threads : Register(u)
  BY DEF IInv
<1>2. /\ pc[t] = Idle /\ in' = [in EXCEPT ![t] = fn] /\ pc' = [pc EXCEPT ![t] = "plugin"]
      /\ currGen' = IF currGen[fn] = Unset THEN [currGen EXCEPT ![fn] = pluginGen] ELSE currGen
      /\ raced' = (raced \/ loader = "clear" \/ (loader = "count" /\ pluginGen # 0))
      /\ UNCHANGED <<loader, plugin, pluginGen, f, seen, gone>>
  BY DEF Enter, Goes
<1>3. Newest' = Newest /\ raced' \in BOOLEAN
  BY <1>2 DEF Newest
<1>4. /\ in \in [Threads -> Functions] /\ pc \in [Threads -> Places]
      /\ currGen \in [Functions -> {Unset} \cup 0 .. pluginGen]
  BY <1>1 DEF TypeOK
<1>5. pluginGen \in 0 .. pluginGen /\ pluginGen # Unset
  BY <1>1, Numbers, Markers
<1>6. /\ in' \in [Threads -> Functions] /\ pc' \in [Threads -> Places]
      /\ currGen' \in [Functions -> {Unset} \cup 0 .. pluginGen]
  BY <1>2, <1>4, <1>5 DEF Places
<1>7. TypeOK'
  BY <1>1, <1>2, <1>3, <1>6 DEF TypeOK
<1>8. /\ currGen'[fn] # Unset
      /\ \A g \in Functions \ {fn} : currGen'[g] = currGen[g]
      /\ currGen[fn] # Unset => currGen' = currGen
  BY <1>2, <1>4, <1>5
<1>9. /\ in'[t] = fn /\ pc'[t] = "plugin"
      /\ \A u \in Threads \ {t} : in'[u] = in[u] /\ pc'[u] = pc[u]
  BY <1>2, <1>4
<1>10. Entered'
  BY <1>1, <1>2, <1>4, <1>8, <1>9 DEF Entered
<1>11. Busy' /\ \A u \in Threads : Register(u)'
  BY <1>1, <1>2, <1>3, <1>9 DEF Busy, Register
<1>12. ASSUME ~raced' PROVE Unraced'
  <2>1. Unraced /\ Apart'
    BY <1>1, <1>2, <1>12 DEF Apart
  <2>2. currGen[fn] = Unset => f[fn] = NoSymbol
    BY <1>1 DEF Entered
  <2>3. \A g \in Functions : f[g] # NoSymbol => currGen'[g] = currGen[g]
    BY <1>8, <2>2
  <2>4. Pointers'
    BY <1>2, <1>3, <2>1, <2>3 DEF Unraced, Pointers
  <2>5. Sound(t)'
    BY <1>9 DEF Sound
  <2>6. ASSUME NEW u \in Threads \ {t} PROVE Sound(u)'
    <3>1. Sound(u) /\ in'[u] = in[u] /\ pc'[u] = pc[u]
      BY <1>9, <2>1 DEF Unraced
    <3>2. UNCHANGED <<plugin, pluginGen, f, seen>>
      BY <1>2
    <3>3. QED
      BY <3>1, <3>2 DEF Sound
  <2>7. QED
    BY <1>2, <2>1, <2>4, <2>5, <2>6 DEF Unraced
<1>13. QED
  BY <1>7, <1>10, <1>11, <1>12 DEF IInv

\* The tests of plugin and of the pointer.
LEMMA TestKeeps ==
  ASSUME IInv, NEW t \in Threads, TestPlugin(t) \/ TestFunc(t)
  PROVE  IInv'
<1>1. TypeOK /\ gone \subseteq 0 .. Newest
  BY DEF IInv, TypeOK
<1>2. PICK to \in Places :
        /\ pc' = [pc EXCEPT ![t] = to] /\ pc[t] \in {"plugin", "func"}
        /\ to \in {Idle, "func", "search", "gen"}
        /\ pc[t] = "plugin" => to = IF plugin = NoPlugin THEN Idle ELSE "func"
        /\ pc[t] = "func" => to = IF f[in[t]] = NoSymbol THEN "search" ELSE "gen"
  <2>1. CASE TestPlugin(t)
    BY <2>1 DEF TestPlugin, Goes, Places
  <2>2. CASE TestFunc(t)
    BY <2>2 DEF TestFunc, Goes, Places
  <2>3. QED
    BY <2>1, <2>2
<1>3. UNCHANGED <<loader, statics, in, seen, gone, raced>> /\ pc[t] # Idle
  BY <1>2 DEF TestPlugin, TestFunc, Idle
<1>4. /\ seen' = [seen EXCEPT ![t] = seen[t]] /\ seen[t] \in 0 .. Newest \cup {Unset, Self}
      /\ pc'[t] = to
  BY <1>1, <1>2, <1>3 DEF TypeOK
<1>5. Register(t)'
  BY <1>2, <1>4 DEF Register, Idle
<1>6. ASSUME ~raced PROVE Sound(t)'
  <2>1. Sound(t)
    BY <1>3, <1>6, InCall
  <2>2. QED
    BY <1>2, <1>3, <1>4, <2>1 DEF Sound, Idle, statics
<1>7. QED
  BY <1>1, <1>2, <1>3, <1>4, <1>5, <1>6, LocalStep

\* The test of a function's generation is passed only with this library's pointer.
LEMMA GenKeeps ==
  ASSUME IInv, NEW t \in Threads, ReadGen(t) \/ TestGen(t)
  PROVE  IInv'
<1>1. /\ TypeOK /\ gone \subseteq 0 .. Newest /\ in[t] \in Functions
      /\ Entered /\ Register(t)
  BY DEF IInv, TypeOK
<1>2. UNCHANGED <<loader, statics, in, gone, raced>>
  BY DEF ReadGen, TestGen
<1>3. pluginGen \in 0 .. pluginGen /\ 0 .. pluginGen \subseteq 0 .. Newest
  BY <1>1, Numbers, Markers
<1>4. CASE ReadGen(t)
  <2>1. PICK to \in {"with pluginGen", "with currGen"} :
          /\ pc[t] = "gen" /\ pc' = [pc EXCEPT ![t] = to]
          /\ seen' = [seen EXCEPT ![t] = IF to = "with pluginGen" THEN currGen[in[t]]
                                         ELSE pluginGen]
    <3>1. CASE Goes(t, "gen", "with pluginGen") /\ seen' = [seen EXCEPT ![t] = currGen[in[t]]]
      BY <3>1 DEF Goes
    <3>2. CASE Goes(t, "gen", "with currGen") /\ seen' = [seen EXCEPT ![t] = pluginGen]
      BY <3>2 DEF Goes
    <3>3. QED
      BY <1>4, <3>1, <3>2 DEF ReadGen
  <2>2. currGen[in[t]] \in 0 .. pluginGen
    BY <1>1, <2>1 DEF Entered, TypeOK, Idle
  <2>3. /\ pc'[t] = to /\ to \in Places /\ pc[t] # Idle
        /\ seen'[t] = IF to = "with pluginGen" THEN currGen[in[t]] ELSE pluginGen
        /\ seen'[t] \in 0 .. pluginGen
        /\ seen' = [seen EXCEPT ![t] = seen'[t]]
    BY <1>1, <1>3, <2>1, <2>2 DEF TypeOK, Places, Idle
  <2>4. Register(t)'
    BY <1>2, <2>1, <2>3 DEF Register, statics
  <2>5. ASSUME ~raced PROVE Sound(t)'
    <3>1. /\ Pointers /\ Sound(t) /\ plugin # NoPlugin
          /\ (loader = "count" => pluginGen = 0) /\ f[in[t]] # NoSymbol
      BY <2>1, <2>3, <2>5, InCall DEF Sound, Idle
    <3>2. currGen[in[t]] = pluginGen => f[in[t]] = plugin
      BY <1>1, <3>1 DEF Pointers
    <3>3. QED
      BY <1>2, <2>1, <2>3, <3>1, <3>2 DEF Sound, statics
  <2>6. seen'[t] \in 0 .. Newest \cup {Unset, Self}
    BY <1>3, <2>3
  <2>7. QED
    BY <1>1, <1>2, <2>1, <2>3, <2>4, <2>5, <2>6, LocalStep
<1>5. CASE TestGen(t)
  <2>1. PICK to \in {"follow", "search"} :
          /\ pc[t] \in {"with pluginGen", "with currGen"} /\ pc' = [pc EXCEPT ![t] = to]
          /\ pc[t] = "with pluginGen" /\ to = "follow" => seen[t] = pluginGen
          /\ pc[t] = "with currGen" /\ to = "follow" => seen[t] = currGen[in[t]]
    <3>1. CASE Goes(t, "with pluginGen", IF seen[t] = pluginGen THEN "follow" ELSE "search")
      BY <3>1 DEF Goes
    <3>2. CASE Goes(t, "with currGen", IF seen[t] = currGen[in[t]] THEN "follow" ELSE "search")
      BY <3>2 DEF Goes
    <3>3. QED
      BY <1>5, <3>1, <3>2 DEF TestGen
  <2>2. /\ seen' = [seen EXCEPT ![t] = seen[t]] /\ seen[t] \in 0 .. Newest \cup {Unset, Self}
        /\ pc'[t] = to /\ to \in Places /\ pc[t] # Idle /\ seen' = seen
    BY <1>1, <1>5, <2>1 DEF TypeOK, TestGen, Places, Idle
  <2>3. Register(t)'
    BY <2>1, <2>2 DEF Register
  <2>4. ASSUME ~raced PROVE Sound(t)'
    <3>1. /\ Pointers /\ Sound(t) /\ plugin # NoPlugin
          /\ (loader = "count" => pluginGen = 0) /\ f[in[t]] # NoSymbol
          /\ pluginGen = 1 /\ plugin # NoPlugin => plugin = 1
          /\ loader # "clear"
      BY <2>1, <2>2, <2>4, InCall DEF Sound, Idle
    <3>2. f[in[t]] \in 0 .. Newest
      BY <1>1, <3>1 DEF Pointers
    <3>3. pluginGen = 1 => f[in[t]] = plugin
      BY <3>1, <3>2, Markers DEF Newest
    <3>4. currGen[in[t]] = pluginGen => f[in[t]] = plugin
      BY <1>1, <3>1 DEF Pointers
    <3>5. to = "follow" => f[in[t]] = plugin
      BY <2>1, <3>1, <3>3, <3>4 DEF Sound
    <3>6. QED
      BY <1>2, <2>1, <2>2, <3>1, <3>5 DEF Sound, statics
  <2>5. QED
    BY <1>1, <1>2, <2>1, <2>2, <2>3, <2>4, LocalStep
<1>6. QED
  BY <1>4, <1>5

\* The search finds what this library has, if there is one.
LEMMA SearchKeeps ==
  ASSUME IInv, NEW t \in Threads, Search(t)
  PROVE  IInv'
<1>1. TypeOK /\ gone \subseteq 0 .. Newest /\ in[t] \in Functions
  BY DEF IInv, TypeOK
<1>2. PICK address \in Found(in[t]) : seen' = [seen EXCEPT ![t] = address]
  BY DEF Search
<1>3. /\ pc[t] = "search" /\ pc' = [pc EXCEPT ![t] = "place"]
      /\ gone' = (IF loader = "clear" THEN gone \cup {plugin} ELSE gone)
      /\ UNCHANGED <<loader, statics, in, raced>>
  BY DEF Search, Goes
<1>4. plugin \in 0 .. Newest /\ 0 \in 0 .. Newest
  BY <1>1, Numbers, Markers
<1>5. address \in 0 .. Newest \cup {Self}
  BY <1>2, <1>4, Markers DEF Found
<1>6. /\ pc[t] # Idle /\ "place" \in Places /\ pc'[t] = "place" /\ seen'[t] = address
      /\ gone' \subseteq 0 .. Newest /\ Newest' = Newest
      /\ address \in 0 .. Newest \cup {Unset, Self}
  BY <1>1, <1>2, <1>3, <1>4, <1>5 DEF TypeOK, Places, Idle, Newest, statics
<1>7. Register(t)'
  BY <1>5, <1>6 DEF Register
<1>8. ASSUME ~raced PROVE Sound(t)' /\ gone' = gone
  <2>1. plugin # NoPlugin /\ loader # "clear"
    BY <1>3, <1>6, <1>8, InCall DEF Sound, Idle
  <2>2. address = IF in[t] \in Exports THEN plugin ELSE NoSymbol
    BY <1>2, <2>1 DEF Found
  <2>3. QED
    BY <1>3, <1>6, <2>1, <2>2 DEF Sound, statics
<1>9. QED
  BY <1>1, <1>2, <1>3, <1>6, <1>7, <1>8, LocalStep

\* What was found replaces a pointer only by the one into this library.
LEMMA PlaceKeeps ==
  ASSUME IInv, NEW t \in Threads, Place(t)
  PROVE  IInv'
<1>1. /\ TypeOK /\ Busy /\ Entered /\ (~raced => Unraced)
      /\ \A u \in Threads : Register(u)
  BY DEF IInv
<1> DEFINE fn == in[t]
<1>2. /\ pc[t] = "place" /\ f' = [f EXCEPT ![fn] = seen[t]]
      /\ pc' = [pc EXCEPT ![t] = IF seen[t] = NoSymbol THEN Idle ELSE "mark"]
      /\ UNCHANGED <<loader, plugin, pluginGen, currGen, in, seen, gone, raced>>
  BY DEF Place, Goes
<1>3. /\ in \in [Threads -> Functions] /\ pc \in [Threads -> Places]
      /\ f \in [Functions -> 0 .. Newest \cup {Self}]
  BY <1>1 DEF TypeOK
<1>4. fn \in Functions /\ seen[t] \in 0 .. Newest \cup {Self} /\ Newest' = Newest
  BY <1>1, <1>2, <1>3 DEF Register, Newest
<1>5. currGen[fn] # Unset
  BY <1>1, <1>2 DEF Entered, Idle
<1>6. /\ f' \in [Functions -> 0 .. Newest \cup {Self}] /\ pc' \in [Threads -> Places]
      /\ f'[fn] = seen[t] /\ \A g \in Functions \ {fn} : f'[g] = f[g]
      /\ pc'[t] = (IF seen[t] = NoSymbol THEN Idle ELSE "mark")
      /\ \A u \in Threads \ {t} : pc'[u] = pc[u]
  BY <1>2, <1>3, <1>4 DEF Places
<1>7. TypeOK'
  BY <1>1, <1>2, <1>4, <1>6 DEF TypeOK
<1>8. Busy' /\ Entered'
  BY <1>1, <1>2, <1>5, <1>6 DEF Busy, Entered, Idle
<1>9. \A u \in Threads : Register(u)'
  BY <1>1, <1>2, <1>4, <1>6 DEF Register, Idle
<1>10. ASSUME ~raced PROVE Unraced'
  <2>1. /\ Unraced /\ Pointers /\ Sound(t) /\ plugin # NoPlugin
        /\ loader # "clear" /\ (loader = "count" => pluginGen = 0)
    BY <1>1, <1>2, <1>10, InCall DEF Unraced, Sound, Idle
  <2>2. seen[t] = IF fn \in Exports THEN plugin ELSE NoSymbol
    BY <1>2, <2>1 DEF Sound
  <2>3. plugin \in 0 .. Newest /\ 0 \in 0 .. Newest
    BY <1>1, Numbers, Markers
  <2>4. Apart'
    BY <1>2, <2>1 DEF Apart
  <2>5. f[fn] # NoSymbol => f'[fn] = plugin
    BY <1>4, <1>6, <2>1, <2>2 DEF Pointers
  <2>6. \A g \in Functions : f'[g] \in 0 .. Newest'
    BY <1>4, <1>6, <2>1, <2>2, <2>3, Markers DEF Pointers
  <2>7. \A g \in Functions : f'[g] # NoSymbol => g \in Exports
    BY <1>4, <1>6, <2>1, <2>2 DEF Pointers
  <2>8. f'[fn] # NoSymbol => f'[fn] = plugin
    BY <1>6, <2>2
  <2>9. Pointers'
    BY <1>2, <1>6, <2>1, <2>6, <2>7, <2>8 DEF Pointers
  <2>10. ASSUME NEW u \in Threads PROVE Sound(u)'
    <3>1. CASE u = t
      BY <1>2, <1>6, <2>1, <2>8, <3>1 DEF Sound, Idle
    <3>2. CASE u # t
      <4>1. Sound(u) /\ pc'[u] = pc[u] /\ in[u] \in Functions
        BY <1>3, <1>6, <2>1, <3>2 DEF Unraced
      <4>2. CASE in[u] = fn
        <5>1. f[fn] # NoSymbol => f'[in[u]] = plugin /\ f'[in[u]] # NoSymbol
          BY <2>1, <2>5, <4>2, Markers
        <5>2. f[fn] = plugin => f[fn] # NoSymbol
          BY <2>1, Markers
        <5>3. QED
          BY <1>2, <4>1, <4>2, <5>1, <5>2 DEF Sound
      <4>3. CASE in[u] # fn
        <5>1. f'[in[u]] = f[in[u]]
          BY <1>6, <4>1, <4>3
        <5>2. QED
          BY <1>2, <4>1, <5>1 DEF Sound
      <4>4. QED
        BY <4>2, <4>3
    <3>3. QED
      BY <3>1, <3>2
  <2>11. QED
    BY <1>2, <2>1, <2>4, <2>9, <2>10 DEF Unraced
<1>11. QED
  BY <1>2, <1>7, <1>8, <1>9, <1>10 DEF IInv

\* The mark goes on a pointer into this library.
LEMMA MarkKeeps ==
  ASSUME IInv, NEW t \in Threads, MarkReads(t) \/ MarkWrites(t)
  PROVE  IInv'
<1>1. /\ TypeOK /\ Busy /\ Entered /\ (~raced => Unraced)
      /\ \A u \in Threads : Register(u)
  BY DEF IInv
<1>2. /\ pluginGen \in 0 .. pluginGen /\ pluginGen \in 0 .. Newest
      /\ gone \subseteq 0 .. Newest
  BY <1>1, Numbers, Markers DEF TypeOK
<1>3. CASE MarkReads(t)
  <2>1. /\ pc[t] = "mark" /\ pc' = [pc EXCEPT ![t] = "marks"]
        /\ seen' = [seen EXCEPT ![t] = pluginGen]
        /\ UNCHANGED <<loader, statics, in, gone, raced>>
    BY <1>3 DEF MarkReads, Goes
  <2>2. /\ pc[t] # Idle /\ "marks" \in Places /\ pc'[t] = "marks" /\ seen'[t] = pluginGen
        /\ pluginGen \in 0 .. Newest \cup {Unset, Self}
    BY <1>1, <1>2, <2>1 DEF TypeOK, Places, Idle
  <2>3. Register(t)'
    BY <1>2, <2>1, <2>2 DEF Register, statics
  <2>4. ASSUME ~raced PROVE Sound(t)'
    <3>1. Sound(t)
      BY <2>2, <2>4, InCall
    <3>2. QED
      BY <2>1, <2>2, <3>1 DEF Sound, statics, Idle
  <2>5. QED
    BY <1>2, <2>1, <2>2, <2>3, <2>4, LocalStep
<1>4. CASE MarkWrites(t)
  <2>1. /\ pc[t] = "marks" /\ pc' = [pc EXCEPT ![t] = "follow"]
        /\ currGen' = [currGen EXCEPT ![in[t]] = seen[t]]
        /\ UNCHANGED <<loader, plugin, pluginGen, f, in, seen, gone, raced>>
    BY <1>4 DEF MarkWrites, Goes
  <2>2. seen[t] \in 0 .. pluginGen /\ in[t] \in Functions /\ Newest' = Newest
    BY <1>1, <2>1 DEF Register, TypeOK, Newest
  <2>3. seen[t] # Unset
    BY <1>1, <2>2, Numbers, Markers
  <2>4. /\ currGen' \in [Functions -> {Unset} \cup 0 .. pluginGen]
        /\ currGen'[in[t]] = seen[t]
        /\ \A g \in Functions \ {in[t]} : currGen'[g] = currGen[g]
        /\ pc' \in [Threads -> Places] /\ pc'[t] = "follow"
        /\ \A u \in Threads \ {t} : pc'[u] = pc[u]
    BY <1>1, <2>1, <2>2 DEF TypeOK, Places
  <2>5. TypeOK'
    BY <1>1, <2>1, <2>2, <2>4 DEF TypeOK
  <2>6. Busy' /\ Entered'
    BY <1>1, <2>1, <2>3, <2>4 DEF Busy, Entered, TypeOK, Idle
  <2>7. \A u \in Threads : Register(u)'
    BY <1>1, <2>1, <2>2, <2>4 DEF Register
  <2>8. ASSUME ~raced PROVE Unraced'
    <3>1. /\ Unraced /\ Sound(t) /\ loader # "clear" /\ (loader = "count" => pluginGen = 0)
      BY <1>1, <2>1, <2>8, InCall DEF Idle
    <3>2. f[in[t]] = plugin /\ plugin # NoPlugin
      BY <2>1, <3>1 DEF Sound, Idle
    <3>3. Apart' /\ Pointers'
      BY <2>1, <2>2, <2>4, <3>1, <3>2 DEF Unraced, Apart, Pointers
    <3>4. \A u \in Threads : Sound(u)'
      BY <2>1, <2>4, <3>1, <3>2 DEF Unraced, Sound
    <3>5. QED
      BY <2>1, <3>1, <3>3, <3>4 DEF Unraced
  <2>9. QED
    BY <2>1, <2>5, <2>6, <2>7, <2>8 DEF IInv
<1>5. QED
  BY <1>3, <1>4

\* The call goes into this library, and comes back from it.
LEMMA CallKeeps ==
  ASSUME IInv, NEW t \in Threads, Follow(t) \/ Return(t)
  PROVE  IInv'
<1>1. TypeOK /\ gone \subseteq 0 .. Newest /\ in[t] \in Functions /\ Register(t)
  BY DEF IInv, TypeOK
<1>2. UNCHANGED <<loader, statics, in, raced>>
  BY DEF Follow, Return
<1>3. Newest' = Newest
  BY <1>2 DEF Newest, statics
<1>4. CASE Follow(t)
  <2>1. /\ pc[t] = "follow" /\ seen' = [seen EXCEPT ![t] = f[in[t]]]
        /\ pc' = [pc EXCEPT ![t] = IF f[in[t]] = Self THEN "plugin" ELSE "inside"]
        /\ f[in[t]] = Self => gone' = gone
        /\ f[in[t]] # Self => Use(f[in[t]])
    BY <1>4 DEF Follow, Goes
  <2>2. f[in[t]] \in 0 .. Newest \cup {Self}
    BY <1>1 DEF TypeOK
  <2>3. /\ pc'[t] = (IF f[in[t]] = Self THEN "plugin" ELSE "inside") /\ seen'[t] = f[in[t]]
        /\ pc'[t] \in Places /\ pc[t] # Idle /\ gone' \subseteq 0 .. Newest
        /\ pc' = [pc EXCEPT ![t] = pc'[t]]
        /\ f[in[t]] \in 0 .. Newest \cup {Unset, Self}
    BY <1>1, <2>1, <2>2 DEF TypeOK, Places, Idle, Use
  <2>4. Register(t)'
    BY <1>3, <2>2, <2>3 DEF Register
  <2>5. ASSUME ~raced PROVE Sound(t)' /\ gone' = gone
    <3>1. plugin # NoPlugin /\ loader # "clear" /\ f[in[t]] = plugin
      BY <2>1, <2>3, <2>5, InCall DEF Sound, Idle
    <3>2. gone' = gone
      BY <2>1, <3>1 DEF Use, Loaded
    <3>3. plugin # Self
      BY <1>1, Numbers, Markers
    <3>4. QED
      BY <1>2, <2>3, <3>1, <3>2, <3>3 DEF Sound, statics
  <2>6. QED
    BY <1>2, <2>1, <2>3, <2>4, <2>5, LocalStep
<1>5. CASE Return(t)
  <2>1. pc[t] = "inside" /\ pc' = [pc EXCEPT ![t] = Idle] /\ Use(seen[t]) /\ seen' = seen
    BY <1>5 DEF Return, Goes
  <2>2. /\ seen[t] \in 0 .. Newest /\ pc'[t] = Idle /\ Idle \in Places /\ pc[t] # Idle
        /\ seen' = [seen EXCEPT ![t] = seen[t]] /\ gone' \subseteq 0 .. Newest
        /\ seen[t] \in 0 .. Newest \cup {Unset, Self}
    BY <1>1, <2>1 DEF Register, TypeOK, Places, Idle, Use
  <2>3. Register(t)'
    BY <2>2 DEF Register, Idle
  <2>4. ASSUME ~raced PROVE Sound(t)' /\ gone' = gone
    <3>1. plugin # NoPlugin /\ loader # "clear" /\ seen[t] = plugin
      BY <2>1, <2>2, <2>4, InCall DEF Sound, Idle
    <3>2. gone' = gone
      BY <2>1, <3>1 DEF Use, Loaded
    <3>3. QED
      BY <2>2, <3>2 DEF Sound, Idle
  <2>5. QED
    BY <1>2, <2>1, <2>2, <2>3, <2>4, LocalStep
<1>6. QED
  BY <1>4, <1>5

-----------------------------------------------------------------------------
(* The invariant *)

\* Before the first call no function has an address, and none is marked.
LEMMA InitGood == Init => IInv
<1> SUFFICES ASSUME Init PROVE IInv
  OBVIOUS
<1>1. (CHOOSE fn \in Functions : TRUE) \in Functions
  BY FunctionsAssumption
<1>2. in \in [Threads -> Functions]
  BY <1>1 DEF Init
<1>3. TypeOK
  <2>1. /\ pluginGen = 0 /\ pluginGen \in 0 .. MaxGen /\ plugin = NoPlugin
        /\ loader = Idle /\ Newest = 0 /\ Newest <= MaxGen
    BY Markers DEF Init, Newest, Idle
  <2>2. /\ f \in [Functions -> 0 .. Newest \cup {Self}]
        /\ currGen \in [Functions -> {Unset} \cup 0 .. pluginGen]
        /\ seen \in [Threads -> 0 .. Newest \cup {Unset, Self}]
    BY <2>1, Markers DEF Init
  <2>3. pc \in [Threads -> Places] /\ gone \subseteq 0 .. Newest
    BY DEF Init, Places
  <2>4. raced \in BOOLEAN
    BY DEF Init
  <2>5. QED
    BY <1>2, <2>1, <2>2, <2>3, <2>4 DEF TypeOK
<1>4. Busy /\ Entered
  BY Markers DEF Init, Busy, Entered
<1>5. \A t \in Threads : Register(t) /\ Sound(t)
  BY DEF Init, Register, Sound, Idle
<1>6. Apart
  BY DEF Init, Apart, Idle
<1>7. Pointers
  BY Markers DEF Init, Pointers, Newest, Idle
<1>8. Unraced
  BY <1>5, <1>6, <1>7 DEF Init, Unraced
<1>9. QED
  BY <1>3, <1>4, <1>5, <1>8 DEF IInv

\* Each step keeps it.
LEMMA StepKeeps == IInv /\ [Next]_vars => IInv'
<1> SUFFICES ASSUME IInv, [Next]_vars PROVE IInv'
  OBVIOUS
<1>1. CASE UNCHANGED vars
  BY <1>1 DEF vars, statics, IInv, TypeOK, Newest, Busy, Entered, Register, Unraced,
              Apart, Calling, Pointers, Sound
<1>2. CASE LoadOpens \/ LoadCounts \/ UnloadCloses \/ UnloadClears
  BY <1>2, OpensKeeps, CountsKeeps, UnloadKeeps
<1>3. ASSUME NEW t \in Threads, NEW fn \in Functions, Enter(t, fn)
      PROVE  IInv'
  BY <1>3, EnterKeeps
<1>4. ASSUME NEW t \in Threads, Load(t)
      PROVE  IInv'
  BY <1>4, TestKeeps, GenKeeps, SearchKeeps, PlaceKeeps, MarkKeeps DEF Load
<1>5. ASSUME NEW t \in Threads, Follow(t) \/ Return(t)
      PROVE  IInv'
  BY <1>5, CallKeeps
<1>6. QED
  BY <1>1, <1>2, <1>3, <1>4, <1>5 DEF Next

\* The inductive invariant of the loader.
LEMMA Invariance == Spec => []IInv
  BY InitGood, StepKeeps, PTL DEF Spec

-----------------------------------------------------------------------------
(* What is promised *)

\* Every variable keeps its type, and no static holds a generation to come.
THEOREM TypeCorrect == Spec => []TypeOK
<1>1. IInv => TypeOK
  BY DEF IInv
<1>2. QED
  BY <1>1, Invariance, PTL

\* No thread calls into a library that is gone, or through NULL, unless a call
\* overlapped an unloading or a loading after the first.
THEOREM CallsLoadedOnly == Spec => []NoStaleCall
<1>1. IInv => NoStaleCall
  BY DEF IInv, TypeOK, Unraced, NoStaleCall
<1>2. QED
  BY <1>1, Invariance, PTL

\* Under the same condition, what is marked with the number of the library
\* that is loaded leads into it.
THEOREM MarksAreCurrent == Spec => []MarkedIsCurrent
<1>1. IInv => MarkedIsCurrent
  BY DEF IInv, Unraced, Pointers, MarkedIsCurrent, Idle
<1>2. QED
  BY <1>1, Invariance, PTL
=============================================================================
