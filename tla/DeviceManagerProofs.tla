------------------------- MODULE DeviceManagerProofs -------------------------
(***************************************************************************)
(* For any devices, names and number of power events under way.  The host  *)
(* library first: the power state, the status of the devices and the OSD   *)
(* name that it keeps are what the code around it takes them for.  Each    *)
(* has an invariant of its own, since no step touches two of them.         *)
(*                                                                         *)
(* The device manager then uses the host library as any other process may, *)
(* so its executions are executions of RdkHost and have its invariants;    *)
(* and what it tells other devices agrees with the state of the box.       *)
(***************************************************************************)
EXTENDS DeviceManager, SequenceTheorems, TLAPS

-----------------------------------------------------------------------------
(* The host library: its inductive invariant *)

\* Nobody asks and nothing arrives before CECHost_Init has registered the
\* handlers.  From then on the last thing under way, of the events and the one
\* being handled, is about the mode the power manager is in; and so is an
\* answer that no event has overtaken.
PowerFollows ==
  /\ boot = "off" => events = <<>> /\ handling = None /\ reply = NoReply
  /\ boot = "registered" => reply = NoReply
  /\ events # <<>> => events[Len(events)] = mode
  /\ events = <<>> /\ handling # None => handling = mode
  /\ events = <<>> /\ handling = None /\ reply # NoReply /\ reply.ok /\ ~reply.late
       => reply.state = mode
  /\ PowerAgrees

DeviceStatus == [power : Modes, connected : BOOLEAN, name : Names \cup {NoName}]

\* The event is about this field.
About(news, d, f) == news.device = d /\ news.field = f

\* Who knows x of a field, and takes these events, will know its present value:
\* the last event about it tells that value, or there is none and x is the value.
Traced(q, d, f, now, x) ==
  /\ \A i \in 1 .. Len(q) :
       About(q[i], d, f) /\ (\A j \in (i + 1) .. Len(q) : ~About(q[j], d, f)) => q[i].value = now
  /\ (\A i \in 1 .. Len(q) : ~About(q[i], d, f)) => x = now

\* The events make up for what the process does not know of a field yet, if its
\* last change was told; and for what the answer to come does not know, unless
\* the field is one of those it spoils.
StatusFollows ==
  /\ \A d \in Devices, f \in Fields :
       <<d, f>> \notin untold => Traced(told, d, f, devStatus[d][f], view[d][f])
  /\ asking => \A d \in Devices, f \in Fields :
       <<d, f>> \notin spoiled => Traced(told, d, f, devStatus[d][f], table[d][f])

\* A name that nobody else was writing is whole when its writer is through, and
\* before that its first part is its writer's; and what a reader has copied, if
\* nobody wrote meanwhile, is a whole name as it is.
NameFollows ==
  /\ \A s \in begun : setting[s] # None
  /\ begun = {} /\ ~crossed => osdName[1] = osdName[2]
  /\ begun # {} /\ ~crossed => \E s \in begun : begun = {s} /\ osdName[1] = setting[s]
  /\ copy # None /\ ~mixed => begun = {} /\ ~crossed /\ osdName[1] = copy
  /\ NameWhole

HostInv == HostTypeOK /\ PowerFollows /\ StatusFollows /\ NameFollows

-----------------------------------------------------------------------------
(* Power *)

\* The types of what the steps of the power state change.
PowerTyped ==
  /\ boot \in {"off", "registered", "cached", "up"}
  /\ mode \in Modes /\ powerState \in Modes /\ stale \in BOOLEAN
  /\ events \in Seq(Modes) /\ Len(events) <= MaxEvents
  /\ handling \in Modes \cup {None}
  /\ reply \in {NoReply} \cup [state : Modes, ok : BOOLEAN, late : BOOLEAN]

\* The steps of the power manager, of its events, of CECHost_GetPowerState and
\* of CECHost_Init and CECHost_Term.
PowerNext ==
  \/ InitRegister \/ InitCache \/ Term \/ PowerManager
  \/ \E state \in Modes : SetPowerState(state)
  \/ Ask \/ Store \/ PowerEventTaken \/ PowerEventDone

\* No answer is taken for an answer that failed.
LEMMA NoneIsNoReply ==
  /\ NoReply \notin [state : Modes, ok : BOOLEAN, late : BOOLEAN]
  /\ None \notin Modes
BY DEF NoReply, Modes, None, On, Standby

\* The mode the power manager changes to is told by the last event.
LEMMA ModeKeepsPower ==
  ASSUME PowerTyped, PowerFollows, NEW m \in Modes, ModeChanges(m),
         UNCHANGED <<boot, handling, powerState, reply, stale>>
  PROVE  PowerTyped' /\ PowerFollows'
<1>1. Len(events) < MaxEvents /\ Len(events) \in Nat /\ MaxEvents \in Nat /\ mode' = m
  BY NamesAssumption DEF ModeChanges, PowerTyped
<1>2. CASE boot = "off"
  <2>1. events' = events
    BY <1>2 DEF ModeChanges, Registered
  <2>2. QED
    BY <1>1, <1>2, <2>1 DEF PowerTyped, PowerFollows, PowerAgrees
<1>3. CASE boot # "off"
  <2>1. events' = Append(events, m)
    BY <1>3 DEF ModeChanges, Registered
  <2>2. /\ events' \in Seq(Modes) /\ events' # <<>> /\ Len(events') = Len(events) + 1
        /\ events'[Len(events')] = m
    BY <2>1, AppendProperties DEF PowerTyped
  <2>3. QED
    BY <1>1, <1>3, <2>2 DEF PowerTyped, PowerFollows, PowerAgrees
<1>4. QED
  BY <1>2, <1>3

\* The answer of CECHost_GetPowerState is the mode, and is stored unless an
\* event came between; the last event that is taken is about the mode.
LEMMA PowerKept ==
  ASSUME PowerTyped, PowerFollows, PowerNext
  PROVE  PowerTyped' /\ PowerFollows'
<1> USE NoneIsNoReply
<1>1. CASE InitRegister
  BY <1>1 DEF InitRegister, powerVars, PowerTyped, PowerFollows, PowerAgrees
<1>2. CASE InitCache
  BY <1>2 DEF InitCache, powerVars, PowerTyped, PowerFollows, PowerAgrees
<1>3. CASE Term
  <2>1. events' = <<>> /\ Len(events') = 0 /\ events' \in Seq(Modes)
    BY <1>3 DEF Term
  <2>2. QED
    BY <1>3, <2>1, NamesAssumption DEF Term, PowerTyped, PowerFollows, PowerAgrees
<1>4. CASE PowerManager \/ \E state \in Modes : SetPowerState(state)
  BY <1>4, ModeKeepsPower DEF PowerManager, SetPowerState
<1>5. CASE Ask
  <2>1. PICK ok \in BOOLEAN : reply' = [state |-> Answer(ok), ok |-> ok, late |-> FALSE]
    BY <1>5 DEF Ask
  <2>2. reply' \in [state : Modes, ok : BOOLEAN, late : BOOLEAN] /\ (reply'.ok => reply'.state = mode)
    BY <2>1 DEF Answer, PowerTyped, Modes
  <2>3. /\ boot \in {"cached", "up"} /\ reply' # NoReply
        /\ UNCHANGED <<boot, mode, events, handling, powerState, stale>>
    BY <1>5, <2>2 DEF Ask, Booting
  <2>4. QED
    BY <2>2, <2>3 DEF PowerTyped, PowerFollows, PowerAgrees
<1>6. CASE Store
  <2>1. /\ reply \in [state : Modes, ok : BOOLEAN, late : BOOLEAN]
        /\ powerState' = reply.state /\ stale' = (reply.late \/ ~reply.ok) /\ reply' = NoReply
        /\ UNCHANGED <<mode, events, handling>>
        /\ boot \in {"cached", "up"} /\ boot' = "up"
    BY <1>6 DEF Store, PowerTyped, PowerFollows, Booting
  <2>2. PowerTyped'
    <3>1. stale' \in BOOLEAN
      BY <2>1
    <3>2. QED
      BY <2>1, <3>1 DEF PowerTyped
  <2>3. PowerFollows'
    BY <2>1 DEF PowerFollows, PowerAgrees
  <2>4. QED
    BY <2>2, <2>3
<1>7. CASE PowerEventTaken
  <2>1. /\ events \in Seq(Modes) /\ events # <<>> /\ events' = Tail(events)
        /\ handling' = Head(events) /\ UNCHANGED <<boot, mode, powerState, reply, stale>>
    BY <1>7 DEF PowerEventTaken, PowerTyped
  <2>2. /\ Len(events) \in Nat \ {0} /\ Len(events') = Len(events) - 1 /\ events' \in Seq(Modes)
        /\ handling' = events[1] /\ handling' \in Modes
    BY <2>1, HeadTailProperties, EmptySeq
  <2>3. events' # <<>> => Len(events') # 0 /\ events'[Len(events')] = events[Len(events)]
    <3> SUFFICES ASSUME events' # <<>>
                 PROVE  Len(events') # 0 /\ events'[Len(events')] = events[Len(events)]
      OBVIOUS
    <3>1. Len(events') # 0
      BY <2>2, EmptySeq
    <3>2. Len(events') \in 1 .. Len(Tail(events))
      BY <2>1, <2>2, <3>1
    <3>3. QED
      BY <2>1, <2>2, <3>1, <3>2, HeadTailProperties
  <2>4. events' = <<>> => Len(events) = 1
    BY <2>2
  <2>5. PowerTyped'
    BY <2>1, <2>2, NamesAssumption DEF PowerTyped
  <2>6. PowerFollows'
    BY <2>1, <2>2, <2>3, <2>4 DEF PowerFollows, PowerAgrees
  <2>7. QED
    BY <2>5, <2>6
<1>8. CASE PowerEventDone
  <2>1. /\ handling \in Modes /\ powerState' = handling /\ handling' = None /\ stale' = FALSE
        /\ UNCHANGED <<boot, mode, events>>
        /\ boot # "off"
    BY <1>8 DEF PowerEventDone, PowerTyped, PowerFollows
  <2>2. \/ reply = NoReply /\ reply' = NoReply
        \/ /\ reply \in [state : Modes, ok : BOOLEAN, late : BOOLEAN]
           /\ reply' \in [state : Modes, ok : BOOLEAN, late : BOOLEAN]
           /\ reply # NoReply /\ reply'.late = TRUE
    BY <1>8 DEF PowerEventDone, PowerTyped
  <2>3. PowerTyped'
    BY <2>1, <2>2 DEF PowerTyped
  <2>4. PowerFollows'
    BY <2>1, <2>2 DEF PowerFollows, PowerAgrees
  <2>5. QED
    BY <2>3, <2>4
<1>9. QED
  BY <1>1, <1>2, <1>3, <1>4, <1>5, <1>6, <1>7, <1>8 DEF PowerNext

-----------------------------------------------------------------------------
(* The status of the devices *)

\* A change of one field of a device's status leaves a status, with the value
\* that was set in that field.
LEMMA StatusChanged ==
  ASSUME NEW status \in DeviceStatus, NEW field \in Fields, NEW value \in Values(field)
  PROVE  /\ Changed(status, field, value) \in DeviceStatus
         /\ Changed(status, field, value)[field] = value
         /\ [status EXCEPT ![field] = value] \in DeviceStatus
<1>1. Cleared \in DeviceStatus /\ Cleared["connected"] = FALSE
  BY DEF Cleared, DeviceStatus, Modes
<1>2. CASE field = "power"
  BY <1>1, <1>2 DEF Changed, Values, DeviceStatus
<1>3. CASE field = "name"
  BY <1>1, <1>3 DEF Changed, Values, DeviceStatus
<1>4. CASE field = "connected"
  <2>1. value \in BOOLEAN
    BY <1>4 DEF Values
  <2>2. CASE value
    BY <1>4, <2>1, <2>2 DEF Changed, DeviceStatus
  <2>3. CASE ~value
    <3>1. value = FALSE
      BY <2>1, <2>3
    <3>2. QED
      BY <1>1, <1>4, <3>1 DEF Changed, DeviceStatus
  <2>4. QED
    BY <2>2, <2>3
<1>5. QED
  BY <1>2, <1>3, <1>4 DEF Fields

\* What an event is made of.
LEMMA EventParts ==
  ASSUME NEW news \in StatusEvents
  PROVE  news.device \in Devices /\ news.field \in Fields /\ news.value \in Values(news.field)
<1>1. PICK f \in Fields : news \in [device : Devices, field : {f}, value : Values(f)]
  BY DEF StatusEvents
<1>2. QED
  BY <1>1

\* The event about a field that was just broadcast is the last about it.
LEMMA LastEventTells ==
  ASSUME NEW q \in Seq(StatusEvents), NEW news \in StatusEvents, NEW d, NEW f, NEW x,
         About(news, d, f)
  PROVE  Traced(Append(q, news), d, f, news.value, x)
<1> DEFINE p == Append(q, news)
<1>1. Len(p) = Len(q) + 1 /\ p[Len(p)] = news /\ Len(q) \in Nat
  BY AppendProperties
<1> HIDE DEF p
<1>2. \A i \in 1 .. Len(p) :
        About(p[i], d, f) /\ (\A j \in (i + 1) .. Len(p) : ~About(p[j], d, f)) => p[i].value = news.value
  <2> SUFFICES ASSUME NEW i \in 1 .. Len(p), \A j \in (i + 1) .. Len(p) : ~About(p[j], d, f)
               PROVE  p[i].value = news.value
    OBVIOUS
  <2>1. Len(p) \notin (i + 1) .. Len(p)
    BY <1>1
  <2>2. i = Len(p)
    BY <1>1, <2>1
  <2>3. QED
    BY <1>1, <2>2
<1>3. Len(p) \in 1 .. Len(p) /\ About(p[Len(p)], d, f)
  BY <1>1
<1>4. Traced(p, d, f, news.value, x)
  BY <1>2, <1>3 DEF Traced
<1>5. QED
  BY <1>4 DEF p

\* An event about another field is no news of this one.
LEMMA OtherEventTold ==
  ASSUME NEW q \in Seq(StatusEvents), NEW news \in StatusEvents, NEW d, NEW f, NEW now, NEW x,
         Traced(q, d, f, now, x), ~About(news, d, f)
  PROVE  Traced(Append(q, news), d, f, now, x)
<1> DEFINE p == Append(q, news)
<1>1. Len(p) = Len(q) + 1 /\ p[Len(p)] = news /\ Len(q) \in Nat /\ \A i \in 1 .. Len(q) : p[i] = q[i]
  BY AppendProperties
<1> HIDE DEF p
<1>2. ASSUME NEW i \in 1 .. Len(p), About(p[i], d, f), \A j \in (i + 1) .. Len(p) : ~About(p[j], d, f)
      PROVE  p[i].value = now
  <2>1. i \in 1 .. Len(q)
    BY <1>1, <1>2
  <2>2. \A j \in (i + 1) .. Len(q) : j \in (i + 1) .. Len(p) /\ p[j] = q[j]
    BY <1>1, <2>1
  <2>3. About(q[i], d, f) /\ \A j \in (i + 1) .. Len(q) : ~About(q[j], d, f)
    BY <1>1, <1>2, <2>1, <2>2
  <2>4. QED
    BY <1>1, <2>1, <2>3 DEF Traced
<1>3. ASSUME \A i \in 1 .. Len(p) : ~About(p[i], d, f)
      PROVE  x = now
  <2>1. \A i \in 1 .. Len(q) : i \in 1 .. Len(p) /\ p[i] = q[i]
    BY <1>1
  <2>2. QED
    BY <1>3, <2>1 DEF Traced
<1>4. Traced(p, d, f, now, x)
  BY <1>2, <1>3 DEF Traced
<1>5. QED
  BY <1>4 DEF p

\* The event that is delivered is behind those that stay.  Who takes it, if it
\* is about the field, knows as much as before.
LEMMA EventDelivered ==
  ASSUME NEW q \in Seq(StatusEvents), q # <<>>, NEW d, NEW f, NEW now, NEW x,
         Traced(q, d, f, now, x)
  PROVE  Traced(Tail(q), d, f, now, IF About(Head(q), d, f) THEN Head(q).value ELSE x)
<1> DEFINE p == Tail(q)
<1>1. Len(q) \in Nat \ {0} /\ Len(p) = Len(q) - 1 /\ Head(q) = q[1] /\ \A i \in 1 .. Len(p) : p[i] = q[i + 1]
  BY HeadTailProperties, EmptySeq
<1> HIDE DEF p
<1>2. ASSUME NEW i \in 1 .. Len(p), About(p[i], d, f), \A j \in (i + 1) .. Len(p) : ~About(p[j], d, f)
      PROVE  p[i].value = now
  <2>1. i + 1 \in 1 .. Len(q) /\ p[i] = q[i + 1]
    BY <1>1
  <2>2. ASSUME NEW j \in (i + 2) .. Len(q) PROVE ~About(q[j], d, f)
    <3>1. j - 1 \in (i + 1) .. Len(p) /\ j - 1 \in 1 .. Len(p) /\ (j - 1) + 1 = j
      BY <1>1
    <3>2. p[j - 1] = q[j]
      BY <1>1, <3>1
    <3>3. QED
      BY <1>2, <3>1, <3>2
  <2>3. (i + 1) + 1 = i + 2
    OBVIOUS
  <2>4. QED
    BY <1>2, <2>1, <2>2, <2>3 DEF Traced
<1>3. ASSUME \A i \in 1 .. Len(p) : ~About(p[i], d, f)
      PROVE  (IF About(Head(q), d, f) THEN Head(q).value ELSE x) = now
  <2>1. ASSUME NEW j \in 2 .. Len(q) PROVE ~About(q[j], d, f)
    <3>1. j - 1 \in 1 .. Len(p) /\ (j - 1) + 1 = j
      BY <1>1
    <3>2. p[j - 1] = q[j]
      BY <1>1, <3>1
    <3>3. QED
      BY <1>3, <3>1, <3>2
  <2>2. CASE About(Head(q), d, f)
    <3>1. 1 \in 1 .. Len(q) /\ About(q[1], d, f) /\ 1 + 1 = 2
      BY <1>1, <2>2
    <3>2. \A j \in (1 + 1) .. Len(q) : ~About(q[j], d, f)
      BY <2>1, <3>1
    <3>3. q[1].value = now
      BY <3>1, <3>2 DEF Traced
    <3>4. QED
      BY <1>1, <2>2, <3>3
  <2>3. CASE ~About(Head(q), d, f)
    <3>1. \A i \in 1 .. Len(q) : i = 1 \/ i \in 2 .. Len(q)
      BY <1>1
    <3>2. \A i \in 1 .. Len(q) : ~About(q[i], d, f)
      BY <1>1, <2>1, <2>3, <3>1
    <3>3. QED
      BY <2>3, <3>2 DEF Traced
  <2>4. QED
    BY <2>2, <2>3
<1>4. Traced(p, d, f, now, IF About(Head(q), d, f) THEN Head(q).value ELSE x)
  BY <1>2, <1>3 DEF Traced
<1>5. QED
  BY <1>4 DEF p

\* The types of what the steps of the devices' status change.
StatusTyped ==
  /\ devStatus \in [Devices -> DeviceStatus]
  /\ view \in [Devices -> DeviceStatus] /\ table \in [Devices -> DeviceStatus]
  /\ told \in Seq(StatusEvents) /\ Len(told) <= MaxTold
  /\ asking \in BOOLEAN
  /\ untold \subseteq Devices \X Fields /\ spoiled \subseteq Devices \X Fields

\* The steps of the devices' status.
StatusNext == InitCache \/ Status

\* A change is told, or the field is one of the untold; a change without an
\* event touches no event, so that only its own fields lose track.
LEMMA SilentChangeKept ==
  ASSUME StatusTyped, StatusFollows, NEW silent \in SUBSET (Devices \X Fields),
         devStatus' \in [Devices -> DeviceStatus],
         \A d \in Devices, f \in Fields : <<d, f>> \notin silent => devStatus'[d][f] = devStatus[d][f],
         Notes(silent, {}), UNCHANGED <<told, view, asking, table>>
  PROVE  StatusTyped' /\ StatusFollows'
<1>1. /\ untold' = untold \cup silent
      /\ spoiled' = IF asking THEN spoiled \cup silent ELSE {}
  BY DEF Notes
<1>2. StatusTyped'
  BY <1>1 DEF StatusTyped
<1>3. StatusFollows'
  BY <1>1 DEF StatusFollows
<1>4. QED
  BY <1>2, <1>3

\* The same for the change that is broadcast, which all will know of who take
\* the event.
LEMMA ToldChangeKept ==
  ASSUME StatusTyped, StatusFollows, NEW silent \in SUBSET (Devices \X Fields),
         NEW d \in Devices, NEW f \in Fields, NEW value \in Values(f),
         devStatus' \in [Devices -> DeviceStatus], devStatus'[d][f] = value,
         \A e \in Devices, g \in Fields :
           <<e, g>> \notin silent /\ <<e, g>> # <<d, f>> => devStatus'[e][g] = devStatus[e][g],
         Len(told) < MaxTold, told' = Append(told, [device |-> d, field |-> f, value |-> value]),
         Notes(silent, {<<d, f>>}), UNCHANGED <<view, asking, table>>
  PROVE  StatusTyped' /\ StatusFollows'
<1> DEFINE news == [device |-> d, field |-> f, value |-> value]
<1>1. /\ untold' = (untold \ {<<d, f>>}) \cup silent
      /\ spoiled' = IF asking THEN (spoiled \ {<<d, f>>}) \cup silent ELSE {}
  BY DEF Notes
<1>2. news \in StatusEvents
  <2>1. news \in [device : Devices, field : {f}, value : Values(f)]
    OBVIOUS
  <2>2. QED
    BY <2>1 DEF StatusEvents
<1>3. told \in Seq(StatusEvents) /\ told' = Append(told, news)
  BY DEF StatusTyped
<1>4. About(news, d, f) /\ news.value = value
  BY DEF About
<1>5. \A e \in Devices, g \in Fields : <<e, g>> # <<d, f>> => ~About(news, e, g)
  BY DEF About
<1> HIDE DEF news
<1>6. told' \in Seq(StatusEvents) /\ Len(told') <= MaxTold
  <2>1. told' \in Seq(StatusEvents) /\ Len(told') = Len(told) + 1 /\ Len(told) \in Nat
    BY <1>2, <1>3, AppendProperties
  <2>2. MaxTold \in Nat
    BY NamesAssumption
  <2>3. QED
    BY <2>1, <2>2
<1>7. StatusTyped'
  BY <1>1, <1>6 DEF StatusTyped
<1>8. \A x : Traced(told', d, f, devStatus'[d][f], x)
  BY <1>2, <1>3, <1>4, LastEventTells
<1>9. ASSUME NEW e \in Devices, NEW g \in Fields, <<e, g>> # <<d, f>>, <<e, g>> \notin silent, NEW x,
             Traced(told, e, g, devStatus[e][g], x)
      PROVE  Traced(told', e, g, devStatus'[e][g], x)
  <2>1. devStatus'[e][g] = devStatus[e][g] /\ ~About(news, e, g)
    BY <1>5, <1>9
  <2>2. Traced(Append(told, news), e, g, devStatus[e][g], x)
    BY <1>2, <1>3, <1>9, <2>1, OtherEventTold
  <2>3. QED
    BY <1>3, <2>1, <2>2
<1>10. ASSUME NEW e \in Devices, NEW g \in Fields, <<e, g>> \notin untold'
       PROVE  Traced(told', e, g, devStatus'[e][g], view'[e][g])
  <2>1. CASE <<e, g>> = <<d, f>>
    BY <1>8, <2>1
  <2>2. CASE <<e, g>> # <<d, f>>
    <3>1. Traced(told, e, g, devStatus[e][g], view[e][g]) /\ <<e, g>> \notin silent
      BY <1>1, <1>10, <2>2 DEF StatusFollows
    <3>2. QED
      BY <1>9, <2>2, <3>1
  <2>3. QED
    BY <2>1, <2>2
<1>11. ASSUME asking', NEW e \in Devices, NEW g \in Fields, <<e, g>> \notin spoiled'
       PROVE  Traced(told', e, g, devStatus'[e][g], table'[e][g])
  <2>1. CASE <<e, g>> = <<d, f>>
    BY <1>8, <2>1
  <2>2. CASE <<e, g>> # <<d, f>>
    <3>1. Traced(told, e, g, devStatus[e][g], table[e][g]) /\ <<e, g>> \notin silent
      BY <1>1, <1>11, <2>2 DEF StatusFollows
    <3>2. QED
      BY <1>9, <2>2, <3>1
  <2>3. QED
    BY <2>1, <2>2
<1>12. StatusFollows'
  BY <1>10, <1>11 DEF StatusFollows
<1>13. QED
  BY <1>7, <1>12

\* A clearing is a silent change.
LEMMA ClearingKept ==
  ASSUME StatusTyped, StatusFollows, ClearStatus
  PROVE  StatusTyped' /\ StatusFollows'
<1> DEFINE silent == {c \in Devices \X Fields : devStatus[c[1]][c[2]] # Cleared[c[2]]}
<1>1. /\ devStatus' = [d \in Devices |-> Cleared] /\ Notes(silent, {})
      /\ UNCHANGED <<told, view, asking, table>>
  BY DEF ClearStatus, Blank
<1>2. Cleared \in DeviceStatus
  BY DEF Cleared, DeviceStatus, Modes
<1>3. \A d \in Devices, f \in Fields : <<d, f>> \notin silent => devStatus'[d][f] = devStatus[d][f]
  BY <1>1
<1>4. silent \in SUBSET (Devices \X Fields) /\ devStatus' \in [Devices -> DeviceStatus]
  BY <1>1, <1>2
<1> HIDE DEF silent
<1>5. QED
  BY <1>1, <1>3, <1>4, SilentChangeKept

\* CECHost_SetDeviceStatus changes one field, whose event may fail, and others
\* with it that no event tells of.
LEMMA SettingKept ==
  ASSUME StatusTyped, StatusFollows, NEW d \in Devices, NEW f \in Fields, NEW value \in Values(f),
         SetDeviceStatus(d, f, value)
  PROVE  StatusTyped' /\ StatusFollows'
<1> DEFINE new == Changed(devStatus[d], f, value)
           silent == TakenAlong(d, f, value)
<1>1. devStatus[d] \in DeviceStatus
  BY DEF StatusTyped
<1>2. new \in DeviceStatus /\ new[f] = value
  BY <1>1, StatusChanged
<1>3. devStatus' = [devStatus EXCEPT ![d] = new] /\ UNCHANGED <<view, asking, table>>
  BY DEF SetDeviceStatus
<1>4. silent = {d} \X {g \in Fields \ {f} : new[g] # devStatus[d][g]}
  BY DEF TakenAlong
<1>5. \/ /\ Len(told) < MaxTold
         /\ told' = Append(told, [device |-> d, field |-> f, value |-> value])
         /\ Notes(silent, {<<d, f>>})
      \/ told' = told /\ Notes(silent \cup {<<d, f>>}, {})
  BY DEF SetDeviceStatus, Broadcast
<1> HIDE DEF new, silent
<1>6. devStatus' \in [Devices -> DeviceStatus] /\ devStatus'[d] = new
      /\ \A e \in Devices \ {d} : devStatus'[e] = devStatus[e]
  BY <1>2, <1>3 DEF StatusTyped
<1>7. silent \in SUBSET (Devices \X Fields)
  BY <1>4
<1>8. \A e \in Devices, g \in Fields :
        <<e, g>> \notin silent /\ <<e, g>> # <<d, f>> => devStatus'[e][g] = devStatus[e][g]
  <2> SUFFICES ASSUME NEW e \in Devices, NEW g \in Fields, <<e, g>> \notin silent, <<e, g>> # <<d, f>>
               PROVE  devStatus'[e][g] = devStatus[e][g]
    OBVIOUS
  <2>1. CASE e = d
    <3>1. g \in Fields \ {f}
      BY <2>1
    <3>2. new[g] = devStatus[d][g]
      BY <1>4, <2>1, <3>1
    <3>3. QED
      BY <1>6, <2>1, <3>2
  <2>2. CASE e # d
    BY <1>6, <2>2
  <2>3. QED
    BY <2>1, <2>2
<1>9. CASE /\ Len(told) < MaxTold
           /\ told' = Append(told, [device |-> d, field |-> f, value |-> value])
           /\ Notes(silent, {<<d, f>>})
  BY <1>2, <1>3, <1>6, <1>7, <1>8, <1>9, ToldChangeKept
<1>10. CASE told' = told /\ Notes(silent \cup {<<d, f>>}, {})
  <2> DEFINE all == silent \cup {<<d, f>>}
  <2>1. all \in SUBSET (Devices \X Fields)
    BY <1>7
  <2>2. \A e \in Devices, g \in Fields : <<e, g>> \notin all => devStatus'[e][g] = devStatus[e][g]
    BY <1>8
  <2>3. Notes(all, {}) /\ UNCHANGED <<told, view, asking, table>>
    BY <1>3, <1>10
  <2> HIDE DEF all
  <2>4. QED
    BY <1>6, <2>1, <2>2, <2>3, SilentChangeKept
<1>11. QED
  BY <1>5, <1>9, <1>10

\* An event that is delivered is taken by the view, and not by the answer still
\* to come, which may be the older one.
LEMMA HearingKept ==
  ASSUME StatusTyped, StatusFollows, Hears
  PROVE  StatusTyped' /\ StatusFollows'
<1> DEFINE news == Head(told)
<1>1. /\ told # <<>> /\ told' = Tail(told) /\ UNCHANGED <<devStatus, asking, table, untold>>
      /\ view' = [view EXCEPT ![news.device] = [@ EXCEPT ![news.field] = news.value]]
      /\ spoiled' = IF asking THEN spoiled \cup {<<news.device, news.field>>} ELSE {}
  BY DEF Hears
<1>2. told \in Seq(StatusEvents) /\ view \in [Devices -> DeviceStatus]
  BY DEF StatusTyped
<1>3. news \in StatusEvents /\ Tail(told) \in Seq(StatusEvents) /\ Len(Tail(told)) <= Len(told)
  BY <1>1, <1>2, HeadTailProperties
<1>4. Len(told') <= MaxTold
  BY <1>1, <1>2, <1>3, NamesAssumption, LenProperties DEF StatusTyped
<1> HIDE DEF news
<1>5. news.device \in Devices /\ news.field \in Fields /\ news.value \in Values(news.field)
  BY <1>3, EventParts
<1>6. [view[news.device] EXCEPT ![news.field] = news.value] \in DeviceStatus
  BY <1>2, <1>5, StatusChanged
<1>7. StatusTyped'
  BY <1>1, <1>2, <1>3, <1>4, <1>5, <1>6 DEF StatusTyped
<1>8. ASSUME NEW d \in Devices, NEW f \in Fields
      PROVE  view'[d][f] = IF About(news, d, f) THEN news.value ELSE view[d][f]
  <2>1. CASE news.device = d
    <3>1. view'[d] = [view[d] EXCEPT ![news.field] = news.value]
      BY <1>1, <1>2, <2>1
    <3>2. view[d] \in DeviceStatus /\ DOMAIN view[d] = Fields
      BY <1>2 DEF DeviceStatus, Fields
    <3>3. QED
      BY <2>1, <3>1, <3>2 DEF About
  <2>2. CASE news.device # d
    BY <1>1, <1>2, <2>2 DEF About
  <2>3. QED
    BY <2>1, <2>2
<1>9. ASSUME NEW d \in Devices, NEW f \in Fields, NEW x, Traced(told, d, f, devStatus[d][f], x)
      PROVE  Traced(told', d, f, devStatus'[d][f], IF About(news, d, f) THEN news.value ELSE x)
  BY <1>1, <1>2, <1>9, EventDelivered DEF news
<1>10. ASSUME NEW d \in Devices, NEW f \in Fields, <<d, f>> \notin untold'
       PROVE  Traced(told', d, f, devStatus'[d][f], view'[d][f])
  <2>1. Traced(told, d, f, devStatus[d][f], view[d][f])
    BY <1>1, <1>10 DEF StatusFollows
  <2>2. QED
    BY <1>8, <1>9, <2>1
<1>11. ASSUME asking', NEW d \in Devices, NEW f \in Fields, <<d, f>> \notin spoiled'
       PROVE  Traced(told', d, f, devStatus'[d][f], table'[d][f])
  <2>1. <<d, f>> \notin spoiled /\ ~About(news, d, f)
    BY <1>1, <1>11 DEF About
  <2>2. Traced(told, d, f, devStatus[d][f], table[d][f])
    BY <1>1, <1>11, <2>1 DEF StatusFollows
  <2>3. QED
    BY <1>1, <1>9, <2>1, <2>2
<1>12. StatusFollows'
  BY <1>10, <1>11 DEF StatusFollows
<1>13. QED
  BY <1>7, <1>12

\* The copy of the table is the status of every device, so that only the events
\* still under way can spoil it; and it makes up for what was not told.
LEMMA FetchingKept ==
  ASSUME StatusTyped, StatusFollows, GetDevStatus \/ Learns
  PROVE  StatusTyped' /\ StatusFollows'
<1>1. CASE GetDevStatus
  <2>1. /\ asking' = TRUE /\ table' = devStatus
        /\ spoiled' = {c \in untold : Pending(c[1], c[2])}
        /\ UNCHANGED <<devStatus, told, view, untold>>
    BY <1>1 DEF GetDevStatus
  <2>2. StatusTyped'
    BY <2>1 DEF StatusTyped
  <2>3. ASSUME NEW d \in Devices, NEW f \in Fields, <<d, f>> \notin spoiled'
        PROVE  Traced(told, d, f, devStatus[d][f], devStatus[d][f])
    <3>1. CASE <<d, f>> \notin untold
      BY <3>1 DEF StatusFollows, Traced
    <3>2. CASE ~Pending(d, f)
      BY <3>2 DEF Pending, Traced, About
    <3>3. QED
      BY <2>1, <2>3, <3>1, <3>2
  <2>4. StatusFollows'
    BY <2>1, <2>3 DEF StatusFollows
  <2>5. QED
    BY <2>2, <2>4
<1>2. CASE Learns
  <2>1. /\ asking /\ view' = table /\ untold' = spoiled /\ asking' = FALSE /\ table' = Blank
        /\ spoiled' = {} /\ UNCHANGED <<devStatus, told>>
    BY <1>2 DEF Learns
  <2>2. Blank \in [Devices -> DeviceStatus]
    BY DEF Blank, Cleared, DeviceStatus, Modes
  <2>3. StatusTyped'
    BY <2>1, <2>2 DEF StatusTyped
  <2>4. StatusFollows'
    BY <2>1 DEF StatusFollows
  <2>5. QED
    BY <2>3, <2>4
<1>3. QED
  BY <1>1, <1>2

\* A field whose last change was told is seen as it is, when no event about it
\* is under way.
LEMMA StatusKept ==
  ASSUME StatusTyped, StatusFollows, StatusNext \/ UNCHANGED statusVars
  PROVE  StatusTyped' /\ StatusFollows'
<1>1. CASE UNCHANGED statusVars
  BY <1>1 DEF statusVars, StatusTyped, StatusFollows
<1>2. CASE InitCache \/ HdmiUnplugged
  BY <1>2, ClearingKept DEF InitCache, HdmiUnplugged
<1>3. CASE Hears
  BY <1>3, HearingKept
<1>4. CASE GetDevStatus \/ Learns
  BY <1>4, FetchingKept
<1>5. CASE \E d \in Devices, f \in Fields : \E value \in Values(f) : SetDeviceStatus(d, f, value)
  BY <1>5, SettingKept
<1>6. QED
  BY <1>1, <1>2, <1>3, <1>4, <1>5 DEF StatusNext, Status

-----------------------------------------------------------------------------
(* The OSD name *)

NameTyped ==
  /\ osdName \in Names \X Names /\ given \in Names \X Names
  /\ setting \in [Setters -> Names \cup {None}] /\ begun \subseteq Setters
  /\ copy \in Names \cup {None} /\ crossed \in BOOLEAN /\ mixed \in BOOLEAN

\* A reader beside which nobody wrote copies both parts of one name, if the last
\* writer was alone.
LEMMA NameKept ==
  ASSUME NameTyped, NameFollows, OSDName \/ UNCHANGED nameVars
  PROVE  NameTyped' /\ NameFollows'
<1>1. None \notin Names
  BY NamesAssumption
<1>2. /\ osdName \in Names \X Names /\ given \in Names \X Names
      /\ setting \in [Setters -> Names \cup {None}] /\ begun \subseteq Setters
      /\ copy \in Names \cup {None}
  BY DEF NameTyped
<1>3. crossed \in BOOLEAN /\ mixed \in BOOLEAN
  BY DEF NameTyped
<1>4. CASE UNCHANGED nameVars
  BY <1>4 DEF nameVars, NameTyped, NameFollows, NameWhole
<1>5. ASSUME NEW s \in Setters, NEW name \in Names, SetOSDName(s, name)
      PROVE  NameTyped' /\ NameFollows'
  <2>1. /\ setting[s] = None /\ setting' = [setting EXCEPT ![s] = name]
        /\ UNCHANGED <<osdName, begun, crossed, copy, given, mixed>>
    BY <1>5 DEF SetOSDName
  <2>2. NameTyped'
    BY <1>2, <1>3, <2>1 DEF NameTyped
  <2>3. s \notin begun /\ \A t \in begun : setting'[t] = setting[t]
    BY <1>2, <2>1 DEF NameFollows
  <2>4. NameFollows'
    BY <2>1, <2>3 DEF NameFollows, NameWhole
  <2>5. QED
    BY <2>2, <2>4
<1>6. ASSUME NEW s \in Setters, SetOSDNameBegins(s)
      PROVE  NameTyped' /\ NameFollows'
  <2>1. /\ setting[s] \in Names /\ osdName' = <<setting[s], osdName[2]>>
        /\ begun' = begun \cup {s} /\ UNCHANGED <<setting, copy, given>>
    BY <1>2, <1>6 DEF SetOSDNameBegins
  <2>2. crossed' = (begun # {}) /\ mixed' = (mixed \/ copy # None)
    BY <1>6 DEF SetOSDNameBegins
  <2>3. crossed' \in BOOLEAN /\ mixed' \in BOOLEAN
    BY <2>2
  <2>4. NameTyped'
    BY <1>2, <2>1, <2>3 DEF NameTyped
  <2>5. begun # {} /\ ~crossed' => FALSE
    BY <2>2
  <2>6. copy # None /\ ~mixed' => FALSE
    BY <2>2
  <2>7. \A t \in begun' : setting'[t] # None
    BY <1>1, <2>1 DEF NameFollows
  <2>8. s \in begun' /\ (~crossed' => begun' = {s} /\ osdName'[1] = setting'[s])
    BY <2>1, <2>5
  <2>9. NameWhole'
    BY <2>1, <2>6, <2>2 DEF NameFollows, NameWhole
  <2>10. NameFollows'
    BY <2>1, <2>6, <2>7, <2>8, <2>9 DEF NameFollows
  <2>11. QED
    BY <2>4, <2>10
<1>7. ASSUME NEW s \in Setters, SetOSDNameEnds(s)
      PROVE  NameTyped' /\ NameFollows'
  <2>1. /\ s \in begun /\ setting[s] \in Names /\ osdName' = <<osdName[1], setting[s]>>
        /\ begun' = begun \ {s} /\ setting' = [setting EXCEPT ![s] = None]
        /\ UNCHANGED <<crossed, copy, given, mixed>>
    BY <1>2, <1>7 DEF SetOSDNameEnds, Rest, NameFollows
  <2>2. NameTyped'
    BY <1>2, <1>3, <2>1 DEF NameTyped
  <2>3. \A t \in begun' : setting'[t] = setting[t]
    BY <1>2, <2>1
  <2>4. ~crossed => begun' = {} /\ osdName'[1] = osdName'[2]
    BY <2>1 DEF NameFollows
  <2>5. NameFollows'
    BY <2>1, <2>3, <2>4 DEF NameFollows, NameWhole
  <2>6. QED
    BY <2>2, <2>5
<1>8. CASE GetOSDNameBegins
  <2>1. /\ copy' = osdName[1] /\ UNCHANGED <<osdName, setting, begun, crossed, given>>
    BY <1>8 DEF GetOSDNameBegins
  <2>2. mixed' = (begun # {} \/ crossed)
    BY <1>8 DEF GetOSDNameBegins
  <2>3. mixed' \in BOOLEAN
    BY <1>3, <2>2
  <2>4. NameTyped'
    BY <1>2, <1>3, <2>1, <2>3 DEF NameTyped
  <2>5. ~mixed' => begun = {} /\ ~crossed
    BY <2>2
  <2>6. copy' # None
    BY <1>1, <1>2, <2>1
  <2>7. NameFollows'
    BY <2>1, <2>5, <2>6 DEF NameFollows, NameWhole
  <2>8. QED
    BY <2>4, <2>7
<1>9. CASE GetOSDNameEnds
  <2>1. /\ copy \in Names /\ given' = <<copy, osdName[2]>> /\ copy' = None
        /\ UNCHANGED <<osdName, setting, begun, crossed, mixed>>
    BY <1>2, <1>9 DEF GetOSDNameEnds
  <2>2. NameTyped'
    BY <1>2, <1>3, <2>1 DEF NameTyped
  <2>3. ~mixed => copy = osdName[2]
    BY <1>1, <2>1 DEF NameFollows
  <2>4. NameFollows'
    BY <2>1, <2>3 DEF NameFollows, NameWhole
  <2>5. QED
    BY <2>2, <2>4
<1>10. QED
  BY <1>4, <1>5, <1>6, <1>7, <1>8, <1>9 DEF OSDName

-----------------------------------------------------------------------------
(* The three together *)

\* The type invariant is that of each of the three.
LEMMA TypesApart == HostTypeOK <=> PowerTyped /\ StatusTyped /\ NameTyped
BY DEF HostTypeOK, PowerTyped, StatusTyped, NameTyped, DeviceStatus

\* A box that starts is on, knows no device, and has its default name.
LEMMA HostInitGood == HostInit => HostInv
<1> SUFFICES ASSUME HostInit PROVE HostInv
  OBVIOUS
<1>1. DefaultName \in Names
  BY NamesAssumption DEF DefaultName
<1>2. PowerTyped /\ PowerFollows
  <2>1. events = <<>> /\ events \in Seq(Modes) /\ Len(events) = 0
    BY DEF HostInit
  <2>2. boot = "off" /\ mode \in Modes /\ powerState \in Modes /\ reply = NoReply /\ handling = None
    BY DEF HostInit, Modes
  <2>3. stale \in BOOLEAN
    BY DEF HostInit
  <2>4. PowerTyped
    BY <2>1, <2>2, <2>3, NamesAssumption DEF PowerTyped
  <2>5. PowerFollows
    BY <2>1, <2>2 DEF PowerFollows, PowerAgrees
  <2>6. QED
    BY <2>4, <2>5
<1>3. StatusTyped /\ StatusFollows
  <2>1. /\ told = <<>> /\ told \in Seq(StatusEvents) /\ Len(told) = 0 /\ MaxTold \in Nat
    BY NamesAssumption DEF HostInit
  <2>2. /\ devStatus = Zeros /\ view = Zeros /\ table = Blank /\ untold = {} /\ spoiled = {}
        /\ asking = FALSE
    BY DEF HostInit
  <2>3. Blank \in [Devices -> DeviceStatus] /\ Zeros \in [Devices -> DeviceStatus]
    BY DEF Blank, Zeros, Cleared, DeviceStatus, Modes
  <2>4. StatusTyped
    <3>1. asking \in BOOLEAN
      BY <2>2
    <3>2. Len(told) <= MaxTold
      BY <2>1
    <3>3. QED
      BY <2>1, <2>2, <2>3, <3>1, <3>2 DEF StatusTyped
  <2>5. StatusFollows
    BY <2>1, <2>2 DEF StatusFollows, Traced
  <2>6. QED
    BY <2>4, <2>5
<1>4. NameTyped /\ NameFollows
  BY <1>1 DEF HostInit, NameTyped, NameFollows, NameWhole
<1>5. QED
  BY <1>2, <1>3, <1>4, TypesApart DEF HostInv

\* Each step is one of the three, and leaves the other two alone.
LEMMA HostStepKeeps == HostInv /\ [HostNext]_hostVars => HostInv'
<1> SUFFICES ASSUME HostInv, [HostNext]_hostVars PROVE HostInv'
  OBVIOUS
<1>1. PowerTyped /\ StatusTyped /\ NameTyped /\ PowerFollows /\ StatusFollows /\ NameFollows
  BY TypesApart DEF HostInv
<1>2. Status => UNCHANGED <<boot, powerVars, nameVars>>
  BY DEF Status, SetDeviceStatus, Hears, GetDevStatus, Learns, HdmiUnplugged
<1>3. OSDName => UNCHANGED <<boot, powerVars, statusVars>>
  BY DEF OSDName, SetOSDName, SetOSDNameBegins, SetOSDNameEnds, GetOSDNameBegins, GetOSDNameEnds
<1>4. PowerNext => UNCHANGED nameVars /\ (InitCache \/ UNCHANGED statusVars)
  BY DEF PowerNext, InitRegister, InitCache, Term, PowerManager, SetPowerState, Ask, Store,
     PowerEventTaken, PowerEventDone
<1>5. PowerNext \/ Status \/ OSDName \/ UNCHANGED <<boot, powerVars, statusVars, nameVars>>
  BY DEF HostNext, PowerNext, hostVars
<1>6. PowerTyped' /\ PowerFollows'
  <2>1. CASE UNCHANGED <<boot, powerVars>>
    BY <1>1, <2>1 DEF powerVars, PowerTyped, PowerFollows, PowerAgrees
  <2>2. QED
    BY <1>1, <1>2, <1>3, <1>5, <2>1, PowerKept
<1>7. StatusTyped' /\ StatusFollows'
  <2>1. StatusNext \/ UNCHANGED statusVars
    BY <1>3, <1>4, <1>5 DEF StatusNext
  <2>2. QED
    BY <1>1, <2>1, StatusKept
<1>8. NameTyped' /\ NameFollows'
  <2>1. OSDName \/ UNCHANGED nameVars
    BY <1>2, <1>4, <1>5
  <2>2. QED
    BY <1>1, <2>1, NameKept
<1>9. HostTypeOK'
  BY <1>6, <1>7, <1>8 DEF HostTypeOK, PowerTyped, StatusTyped, NameTyped, DeviceStatus
<1>10. QED
  BY <1>6, <1>7, <1>8, <1>9 DEF HostInv

\* The inductive invariant of the host library.
LEMMA HostInvariance == HostSpec => []HostInv
  BY HostInitGood, HostStepKeeps, PTL DEF HostSpec

-----------------------------------------------------------------------------
(* What is promised *)

\* Every variable of the host library keeps its type.
THEOREM HostTypeCorrect == HostSpec => []HostTypeOK
<1>1. HostInv => HostTypeOK
  BY DEF HostInv
<1>2. QED
  BY <1>1, HostInvariance, PTL

\* With nothing under way the box knows its power state, unless the answer it
\* stored last was a failure or overtaken by an event.
THEOREM PowerKnown == HostSpec => []PowerAgrees
<1>1. HostInv => PowerAgrees
  BY DEF HostInv, PowerFollows
<1>2. QED
  BY <1>1, HostInvariance, PTL

\* Who took the table once and takes the events as they are delivered knows
\* every field no event about which is under way, but for the changes that had no
\* event, and for what the answer and the events told in the wrong order.
THEOREM ViewFollows == HostSpec => []ViewAgrees
<1>1. HostInv => ViewAgrees
  BY DEF HostInv, StatusFollows, Traced, ViewAgrees, Pending, About
<1>2. QED
  BY <1>1, HostInvariance, PTL

\* Only a reader beside a writer, or after two writers that overlapped, gets the
\* parts of two names, however many threads set and get the name.
THEOREM NameIsWhole == HostSpec => []NameWhole
<1>1. HostInv => NameWhole
  BY DEF HostInv, NameFollows
<1>2. QED
  BY <1>1, HostInvariance, PTL

-----------------------------------------------------------------------------
(* The device manager: its inductive invariant *)

\* How far main() is says what exists: the callback, the bus and conn_ come in
\* this order, and the power state is asked for between the first and the second.
Started ==
  /\ main = "init" => boot # "up"
  /\ main # "init" => boot = "up"
  /\ callback <=> main \notin {"init", "callback"}
  /\ opened <=> main \in {"connection", "open", "running"}
  /\ conn <=> main \in {"open", "running"}
  /\ main \notin {"init", "power"} => reply = NoReply

\* The callback alone tells and stores, and only once it has told; the other
\* claims are the reader's, which sends one when it found the box active.
Telling ==
  /\ event = "tell" => callback
  /\ event = "store" => conn
  /\ claim # None \/ queued # <<>> \/ reader # "idle" => callback
  /\ reader = "claim" => wasActive

\* With no event to be told of and no claim in the queue, the last one on the
\* wire is about the mode the box is in.
Claimed ==
  events = <<>> /\ event # "tell" /\ queued = <<>> /\ claim # None /\ ~lost /\ ~late
    => (claim = Active <=> mode = On)

\* With no event to be stored the state is the mode; the answer that main is
\* about to store is as good while an event from before the callback is handled.
Reported ==
  /\ ~callback => unread
  /\ events = <<>> /\ event \in {"idle", "done"} /\ ~unread => devPower = mode
  /\ main = "power" /\ reply # NoReply /\ reply.ok /\ events = <<>> /\ event = "done"
       => reply.state = mode

\* The types of this module's own variables.
DevTyped ==
  /\ main \in {"init", "callback", "display", "power", "library", "connection", "open", "running"}
  /\ devPower \in Modes /\ reported \in Modes \cup {None}
  /\ event \in {"idle", "tell", "store", "done"} /\ (event = "idle" <=> handling = None)
  /\ reader \in {"idle", "claim"} \cup Modes
  /\ queued \in Seq({Inactive}) /\ claim \in {Active, Inactive, None}

Flags ==
  /\ callback \in BOOLEAN /\ opened \in BOOLEAN /\ conn \in BOOLEAN /\ connected \in BOOLEAN
  /\ unread \in BOOLEAN /\ lost \in BOOLEAN /\ late \in BOOLEAN /\ crashed \in BOOLEAN
  /\ wasActive \in BOOLEAN

DevInv == HostInv /\ DevTyped /\ Flags /\ Started /\ Telling /\ Claimed /\ Reported

-----------------------------------------------------------------------------
(* The host library under it *)

\* Each step is one of the host library's, or leaves it alone.
LEMMA StepOfHost == [Next]_vars => [HostNext]_hostVars
BY DEF Next, vars, Main, MainInit, MainSetsCallback, MainAsksDisplay, MainAsksPower, MainInitsLibrary,
   MainSetsConn, MainOpens, Environment, WriterWrites, EventTaken, CallbackDies, CallbackTells,
   CallbackStores, EventDone, RequestActiveSource, GiveDevicePowerStatus, ReaderSends, HostNext

\* The device manager is a process of the kind the host library is made for:
\* what it does to the library is what RdkHost allows.
THEOREM UsesTheHost == Spec => HostSpec
<1>1. Init => HostInit
  BY DEF Init
<1>2. QED
  BY <1>1, StepOfHost, PTL DEF Spec, HostSpec

-----------------------------------------------------------------------------
(* Flags *)

\* No flag becomes anything but true or false.
LEMMA FlagsKept ==
  ASSUME HostInv, DevTyped, Flags, [Next]_vars
  PROVE  Flags'
<1> USE DEF Flags
<1>1. CASE UNCHANGED vars
  BY <1>1 DEF vars, devVars, readerVars, wireVars
<1>2. CASE MainInit \/ MainSetsCallback \/ MainAsksDisplay \/ MainInitsLibrary \/ MainSetsConn \/ MainOpens
  <2>1. CASE MainInit
    BY <2>1 DEF MainInit, readerVars, wireVars
  <2>2. CASE MainSetsCallback
    BY <2>2 DEF MainSetsCallback, readerVars, wireVars
  <2>3. CASE MainAsksDisplay
    BY <2>3 DEF MainAsksDisplay, readerVars, wireVars
  <2>4. CASE MainInitsLibrary
    BY <2>4 DEF MainInitsLibrary, readerVars, wireVars
  <2>5. CASE MainSetsConn
    BY <2>5 DEF MainSetsConn, readerVars, wireVars
  <2>6. CASE MainOpens
    BY <2>6 DEF MainOpens, readerVars, wireVars
  <2>7. QED
    BY <1>2, <2>1, <2>2, <2>3, <2>4, <2>5, <2>6
<1>3. CASE MainAsksPower
  <2>1. unread' \in BOOLEAN
    BY <1>3 DEF MainAsksPower
  <2>2. QED
    BY <1>3, <2>1 DEF MainAsksPower, devVars, readerVars, wireVars
<1>4. CASE Environment \/ EventTaken \/ CallbackDies \/ CallbackStores \/ EventDone
              \/ RequestActiveSource \/ GiveDevicePowerStatus
  <2>1. wasActive' \in BOOLEAN
    BY <1>4 DEF Environment, EventTaken, CallbackDies, CallbackStores, EventDone, RequestActiveSource,
       GiveDevicePowerStatus, IsActive, readerVars
  <2>2. UNCHANGED <<callback, opened, conn, connected, lost, late>>
    BY <1>4 DEF Environment, EventTaken, CallbackDies, CallbackStores, EventDone, RequestActiveSource,
       GiveDevicePowerStatus, devVars, wireVars
  <2>3. unread' \in {unread, FALSE} /\ crashed' \in {crashed, TRUE}
    BY <1>4 DEF Environment, EventTaken, CallbackDies, CallbackStores, EventDone, RequestActiveSource,
       GiveDevicePowerStatus, devVars
  <2>4. QED
    BY <2>1, <2>2, <2>3
<1>5. ASSUME NEW c, NEW l \in BOOLEAN, Written(c, l)
      PROVE  lost' \in BOOLEAN /\ late' \in BOOLEAN
  BY <1>5 DEF Written
<1>6. CASE WriterWrites \/ CallbackTells \/ ReaderSends
  <2>1. (mode # Standby) \in BOOLEAN /\ (mode # On /\ wasActive) \in BOOLEAN
    OBVIOUS
  <2>2. lost' \in BOOLEAN /\ late' \in BOOLEAN
    BY <1>5, <1>6, <2>1 DEF WriterWrites, CallbackTells, Tells, ReaderSends
  <2>3. UNCHANGED <<callback, opened, conn, connected, unread, wasActive, crashed>>
    BY <1>6 DEF WriterWrites, CallbackTells, ReaderSends, devVars, readerVars
  <2>4. QED
    BY <2>2, <2>3
<1>7. QED
  BY <1>1, <1>2, <1>3, <1>4, <1>6 DEF Next, Main

-----------------------------------------------------------------------------
(* main() *)

\* While main() starts, no claim has been made and no power state told; the one
\* it stores itself is the mode, unless an event is on its way.
LEMMA MainKeeps ==
  ASSUME HostInv, DevTyped, Flags, Started, Telling, Claimed, Reported, Main
  PROVE  DevTyped' /\ Started' /\ Telling' /\ Claimed' /\ Reported'
<1>1. PowerTyped /\ PowerFollows
  BY TypesApart DEF HostInv
<1> USE DEF Started, Telling, Claimed, Reported, Flags
<1>2. CASE MainInit
  <2>1. /\ main = "init" /\ boot # "up" /\ handling' = handling /\ ~callback
        /\ main' = (IF boot' = "up" THEN "callback" ELSE main)
        /\ UNCHANGED <<callback, opened, conn, connected, devPower, unread, event, reader, wasActive,
                       queued, claim, reported>>
    BY <1>2 DEF MainInit, readerVars, wireVars, InitRegister, InitCache, Ask, Store, powerVars
  <2>2. boot' = "up" => reply' = NoReply
    BY <1>2, <2>1 DEF MainInit, InitRegister, InitCache, Ask, Store, Booting
  <2>3. DevTyped'
    BY <2>1 DEF DevTyped
  <2>4. Started'
    BY <2>1, <2>2
  <2>5. claim = None /\ queued = <<>> /\ reader = "idle" /\ unread /\ event # "tell" /\ event # "store"
    BY <2>1
  <2>6. QED
    BY <2>1, <2>3, <2>4, <2>5
<1>3. CASE MainSetsCallback
  BY <1>3 DEF MainSetsCallback, DevTyped, hostVars, powerVars, readerVars, wireVars
<1>4. CASE MainAsksDisplay
  BY <1>4 DEF MainAsksDisplay, DevTyped, hostVars, powerVars, readerVars, wireVars
<1>5. CASE MainAsksPower
  <2>1. CASE Ask
    <3>1. /\ main = "power" /\ UNCHANGED <<main, devPower, unread, boot, mode, events, handling, callback,
                                           opened, conn, event, reader, wasActive, queued, claim, lost,
                                           late, reported>>
      BY <1>5, <2>1 DEF MainAsksPower, Ask, Store, readerVars, wireVars
    <3>2. reply'.ok => reply'.state = mode
      BY <2>1 DEF Ask, Answer
    <3>3. QED
      BY <3>1, <3>2 DEF DevTyped
  <2>2. CASE Store
    <3>1. /\ main = "power" /\ main' = "library" /\ boot = "up" /\ boot' = "up"
          /\ reply # NoReply /\ reply' = NoReply
          /\ devPower' = (IF reply.ok THEN reply.state ELSE devPower)
          /\ unread' = (reply.late \/ ~reply.ok)
          /\ UNCHANGED <<mode, events, handling, callback, opened, conn, event, reader, wasActive,
                         queued, claim, lost, late, reported>>
      BY <1>5, <2>2 DEF MainAsksPower, Ask, Store, Booting, readerVars, wireVars
    <3>2. reply \in [state : Modes, ok : BOOLEAN, late : BOOLEAN]
      BY <1>1, <3>1 DEF PowerTyped
    <3>3. events = <<>> /\ event \in {"idle", "done"} /\ ~unread' => devPower' = mode
      <4>1. SUFFICES ASSUME events = <<>>, event \in {"idle", "done"}, reply.ok, ~reply.late
                     PROVE  reply.state = mode
        BY <3>1
      <4>2. CASE event = "idle"
        BY <1>1, <3>1, <4>1, <4>2 DEF PowerFollows, DevTyped
      <4>3. CASE event = "done"
        BY <3>1, <4>1, <4>3
      <4>4. QED
        BY <4>1, <4>2, <4>3
    <3>4. DevTyped'
      BY <3>1, <3>2 DEF DevTyped
    <3>5. Started' /\ Telling' /\ Claimed'
      BY <3>1
    <3>6. QED
      BY <3>1, <3>3, <3>4, <3>5
  <2>3. QED
    BY <1>5, <2>1, <2>2 DEF MainAsksPower
<1>6. CASE MainInitsLibrary
  BY <1>6 DEF MainInitsLibrary, DevTyped, hostVars, powerVars, readerVars, wireVars
<1>7. CASE MainSetsConn
  BY <1>7 DEF MainSetsConn, DevTyped, hostVars, powerVars, readerVars, wireVars
<1>8. CASE MainOpens
  BY <1>8 DEF MainOpens, DevTyped, hostVars, powerVars, readerVars, wireVars
<1>9. QED
  BY <1>2, <1>3, <1>4, <1>5, <1>6, <1>7, <1>8 DEF Main

-----------------------------------------------------------------------------
(* Power events and claims *)

\* A change of mode has an event behind it once there is a callback to be told,
\* and what the callback claims and stores of the last event is the mode.
LEMMA EventKeeps ==
  ASSUME HostInv, DevTyped, Flags, Started, Telling, Claimed, Reported,
         \/ Environment \/ EventTaken \/ CallbackDies \/ CallbackTells \/ CallbackStores \/ EventDone
  PROVE  DevTyped' /\ Started' /\ Telling' /\ Claimed' /\ Reported'
<1>1. PowerTyped /\ PowerFollows
  BY TypesApart DEF HostInv
<1>2. /\ events \in Seq(Modes) /\ handling \in Modes \cup {None} /\ mode \in Modes
      /\ None \notin Modes /\ On \in Modes /\ Active # None /\ Inactive # None /\ Active # Inactive
  BY <1>1, NoneIsNoReply DEF PowerTyped, Modes, Active, Inactive, None
<1>3. CASE Environment
  <2>1. PICK m \in Modes : ModeChanges(m)
    BY <1>3 DEF Environment, PowerManager
  <2>2. UNCHANGED <<boot, handling, reply, devVars, event, reader, wasActive, queued, claim, lost,
                    late, reported>>
    BY <1>3 DEF Environment, PowerManager, readerVars, wireVars
  <2>3. callback => events' # <<>>
    <3> SUFFICES ASSUME callback PROVE events' # <<>>
      OBVIOUS
    <3>1. events' = Append(events, m)
      BY <2>1 DEF ModeChanges, Registered, Started
    <3>2. QED
      BY <1>2, <3>1, AppendProperties
  <2>4. main = "power" => callback
    BY DEF Started
  <2>5. QED
    BY <2>2, <2>3, <2>4 DEF DevTyped, Started, Telling, Claimed, Reported, devVars
<1>4. CASE EventTaken
  <2>1. /\ event = "idle" /\ event' = (IF callback THEN "tell" ELSE "done")
        /\ events # <<>> /\ handling = None /\ handling' = Head(events)
        /\ UNCHANGED <<boot, mode, reply, devVars, reader, wasActive, queued, claim, lost, late, reported>>
    BY <1>4 DEF EventTaken, PowerEventTaken, AfterEvent, readerVars, wireVars
  <2>2. handling' # None
    BY <1>2, <2>1, HeadTailProperties
  <2>3. DevTyped' /\ Started' /\ Telling'
    BY <2>1, <2>2 DEF DevTyped, Started, Telling, devVars
  <2>4. Claimed' /\ Reported'
    BY <2>1 DEF Started, Telling, Claimed, Reported, devVars
  <2>5. QED
    BY <2>3, <2>4
<1>5. CASE CallbackDies
  BY <1>5 DEF CallbackDies, hostVars, powerVars, devVars, readerVars, wireVars, DevTyped, Started,
     Telling, Claimed, Reported
<1>6. CASE CallbackTells
  <2>1. /\ event = "tell" /\ event' = "store" /\ conn /\ handling \in Modes
        /\ UNCHANGED <<boot, mode, events, handling, reply, devVars, reader, wasActive, reported>>
        /\ Tells
    BY <1>2, <1>6 DEF CallbackTells, hostVars, powerVars, readerVars, DevTyped
  <2>2. CASE handling = On
    <3>1. queued' = queued /\ Written(Active, FALSE)
      BY <2>1, <2>2 DEF Tells
    <3>2. events = <<>> => mode = On
      BY <1>1, <1>2, <2>1, <2>2 DEF PowerFollows
    <3>3. DevTyped' /\ Started' /\ Telling'
      BY <2>1, <3>1 DEF Written, DevTyped, Started, Telling, devVars
    <3>4. Claimed'
      BY <2>1, <3>1, <3>2 DEF Written, Claimed
    <3>5. Reported'
      BY <2>1 DEF Reported, devVars
    <3>6. QED
      BY <3>3, <3>4, <3>5
  <2>3. CASE handling # On
    <3>1. queued' = Append(queued, Inactive) /\ UNCHANGED <<claim, lost, late>>
      BY <2>1, <2>3 DEF Tells
    <3>2. queued' \in Seq({Inactive}) /\ queued' # <<>>
      BY <3>1, AppendProperties DEF DevTyped
    <3>3. DevTyped' /\ Started' /\ Telling' /\ Claimed' /\ Reported'
      BY <2>1, <3>1, <3>2 DEF DevTyped, Started, Telling, Claimed, Reported, devVars
    <3>4. QED
      BY <3>3
  <2>4. QED
    BY <2>2, <2>3
<1>7. CASE CallbackStores
  <2>1. /\ event = "store" /\ event' = "done" /\ handling \in Modes
        /\ devPower' = handling /\ unread' = FALSE
        /\ UNCHANGED <<boot, mode, events, handling, reply, main, callback, opened, conn, connected,
                       reader, wasActive, queued, claim, lost, late, reported>>
    BY <1>2, <1>7 DEF CallbackStores, NewState, hostVars, powerVars, readerVars, wireVars, DevTyped
  <2>2. events = <<>> => handling = mode
    BY <1>1, <1>2, <2>1 DEF PowerFollows
  <2>3. callback /\ main # "power"
    BY <2>1 DEF Started, Telling
  <2>4. DevTyped' /\ Started' /\ Telling' /\ Claimed'
    BY <2>1 DEF DevTyped, Started, Telling, Claimed
  <2>5. Reported'
    BY <2>1, <2>2, <2>3 DEF Reported
  <2>6. QED
    BY <2>4, <2>5
<1>8. CASE EventDone
  <2>1. /\ event = "done" /\ event' = "idle" /\ handling' = None
        /\ UNCHANGED <<boot, mode, events, devVars, reader, wasActive, queued, claim, lost, late, reported>>
        /\ reply' = IF reply = NoReply THEN NoReply ELSE [reply EXCEPT !.late = TRUE]
    BY <1>8 DEF EventDone, PowerEventDone, readerVars, wireVars
  <2>2. main # "init" /\ main # "power" => reply' = NoReply
    BY <2>1 DEF Started
  <2>3. DevTyped' /\ Started' /\ Telling' /\ Claimed' /\ Reported'
    BY <2>1, <2>2 DEF DevTyped, Started, Telling, Claimed, Reported, devVars
  <2>4. QED
    BY <2>3
<1>9. QED
  BY <1>3, <1>4, <1>5, <1>6, <1>7, <1>8

\* The writer and the reader put a claim on the wire that is right, or that is
\* late, or nothing.
LEMMA WireKeeps ==
  ASSUME HostInv, DevTyped, Flags, Started, Telling, Claimed, Reported,
         WriterWrites \/ RequestActiveSource \/ GiveDevicePowerStatus \/ ReaderSends
  PROVE  DevTyped' /\ Started' /\ Telling' /\ Claimed' /\ Reported'
<1>1. mode \in {On, Standby} /\ Active # Inactive /\ On # Standby /\ None \notin Modes /\ "claim" \notin Modes
  BY TypesApart, NoneIsNoReply DEF HostInv, PowerTyped, Modes, Active, Inactive, On, Standby
<1>2. UNCHANGED <<boot, mode, events, handling, reply, devVars, event>>
  BY DEF WriterWrites, RequestActiveSource, GiveDevicePowerStatus, ReaderSends, hostVars, powerVars
<1>3. Started' /\ Reported'
  BY <1>2 DEF Started, Reported, devVars
<1>4. CASE WriterWrites
  <2>1. /\ queued \in Seq({Inactive}) /\ queued # <<>> /\ queued' = Tail(queued)
        /\ Written(Head(queued), mode # Standby)
        /\ UNCHANGED <<reader, wasActive, reported>>
    BY <1>4 DEF WriterWrites, DevTyped, readerVars
  <2>2. Head(queued) = Inactive /\ queued' \in Seq({Inactive})
    BY <2>1, HeadTailProperties
  <2>3. Written(Inactive, mode # Standby) /\ callback
    BY <2>1, <2>2 DEF Telling
  <2>4. DevTyped' /\ Telling'
    BY <1>2, <2>1, <2>2, <2>3 DEF DevTyped, Telling, Written, devVars
  <2>5. Claimed'
    <3>1. CASE lost' = TRUE
      BY <3>1 DEF Claimed
    <3>2. CASE claim' = Inactive /\ late' = (mode # Standby)
      BY <1>1, <1>2, <3>2 DEF Claimed
    <3>3. QED
      BY <2>3, <3>1, <3>2 DEF Written
  <2>6. QED
    BY <1>3, <2>4, <2>5
<1>5. CASE RequestActiveSource
  <2>1. /\ main = "running" /\ reader' = "claim" /\ wasActive' = IsActive /\ IsActive
        /\ UNCHANGED <<queued, claim, lost, late, reported>>
    BY <1>5 DEF RequestActiveSource, Answers, wireVars
  <2>2. QED
    BY <1>2, <1>3, <2>1 DEF DevTyped, Telling, Claimed, Started, IsActive, devVars
<1>6. CASE GiveDevicePowerStatus
  <2>1. /\ main = "running" /\ reader' = devPower /\ devPower # "claim"
        /\ UNCHANGED <<wasActive, queued, claim, lost, late, reported>>
    BY <1>1, <1>6 DEF GiveDevicePowerStatus, DevTyped, wireVars
  <2>2. QED
    BY <1>2, <1>3, <2>1 DEF DevTyped, Telling, Claimed, Started, devVars
<1>7. CASE ReaderSends
  <2>1. reader # "idle" /\ reader' = "idle" /\ UNCHANGED <<wasActive, queued>> /\ callback
    BY <1>7 DEF ReaderSends, Telling
  <2>2. CASE reader = "claim"
    <3>1. Written(Active, mode # On /\ wasActive) /\ reported' = reported /\ wasActive
      BY <1>1, <1>7, <2>2 DEF ReaderSends, Telling
    <3>2. DevTyped' /\ Telling'
      BY <1>2, <2>1, <3>1 DEF DevTyped, Telling, Written, devVars
    <3>3. Claimed'
      <4>1. CASE lost' = TRUE
        BY <4>1 DEF Claimed
      <4>2. CASE claim' = Active /\ late' = (mode # On /\ wasActive)
        BY <1>1, <1>2, <3>1, <4>2 DEF Claimed
      <4>3. QED
        BY <3>1, <4>1, <4>2 DEF Written
    <3>4. QED
      BY <1>3, <3>2, <3>3
  <2>3. CASE reader \in Modes
    <3>1. reported' \in {reader, reported} /\ UNCHANGED <<claim, lost, late>>
      BY <1>1, <1>7, <2>3 DEF ReaderSends
    <3>2. QED
      BY <1>2, <1>3, <2>1, <2>3, <3>1 DEF DevTyped, Telling, Claimed, devVars
  <2>4. QED
    BY <2>1, <2>2, <2>3 DEF DevTyped
<1>8. QED
  BY <1>4, <1>5, <1>6, <1>7

-----------------------------------------------------------------------------
(* The invariant *)

\* At the start nothing was read, told or claimed.
LEMMA InitGood == Init => DevInv
<1> SUFFICES ASSUME Init PROVE DevInv
  OBVIOUS
<1>1. HostInv /\ handling = None /\ reply = NoReply /\ boot = "off"
  BY HostInitGood DEF Init, HostInit
<1>2. DevTyped
  BY <1>1 DEF Init, DevTyped, Modes
<1>3. Flags
  BY DEF Init, Flags
<1>4. Started /\ Telling /\ Claimed /\ Reported
  BY <1>1 DEF Init, Started, Telling, Claimed, Reported
<1>5. QED
  BY <1>1, <1>2, <1>3, <1>4 DEF DevInv

\* Each step keeps it; the host library's part is the host library's.
LEMMA StepKeeps == DevInv /\ [Next]_vars => DevInv'
<1> SUFFICES ASSUME DevInv, [Next]_vars PROVE DevInv'
  OBVIOUS
<1>1. HostInv /\ DevTyped /\ Flags /\ Started /\ Telling /\ Claimed /\ Reported
  BY DEF DevInv
<1>2. HostInv'
  BY <1>1, StepOfHost, HostStepKeeps
<1>3. Flags'
  BY <1>1, FlagsKept
<1>4. DevTyped' /\ Started' /\ Telling' /\ Claimed' /\ Reported'
  <2>1. CASE UNCHANGED vars
    BY <1>1, <2>1 DEF vars, hostVars, powerVars, devVars, readerVars, wireVars, DevTyped, Started,
       Telling, Claimed, Reported
  <2>2. CASE Main
    BY <1>1, <2>2, MainKeeps
  <2>3. CASE Environment \/ EventTaken \/ CallbackDies \/ CallbackTells \/ CallbackStores \/ EventDone
    BY <1>1, <2>3, EventKeeps
  <2>4. CASE WriterWrites \/ RequestActiveSource \/ GiveDevicePowerStatus \/ ReaderSends
    BY <1>1, <2>4, WireKeeps
  <2>5. QED
    BY <2>1, <2>2, <2>3, <2>4 DEF Next
<1>5. QED
  BY <1>2, <1>3, <1>4 DEF DevInv

\* The inductive invariant of the device manager on its host library.
LEMMA Invariance == Spec => []DevInv
  BY InitGood, StepKeeps, PTL DEF Spec

-----------------------------------------------------------------------------
(* What is promised *)

\* Every variable keeps its type, and the callback holds an event all the time.
THEOREM TypeCorrect == Spec => []TypeOK
<1>1. DevInv => TypeOK
  <2> SUFFICES ASSUME DevInv PROVE TypeOK
    OBVIOUS
  <2>1. {callback, opened, conn, connected, unread, lost, late, crashed} \subseteq BOOLEAN
        /\ wasActive \in BOOLEAN
    BY DEF DevInv, Flags
  <2>2. HostTypeOK /\ DevTyped
    BY DEF DevInv, HostInv
  <2>3. QED
    BY <2>1, <2>2 DEF TypeOK, DevTyped
<1>2. QED
  BY <1>1, Invariance, PTL

\* When nothing is under way the TV was last told what the box is, unless that
\* claim was lost, or late.
THEOREM ClaimIsTrue == Spec => []ClaimAgrees
<1>1. DevInv => ClaimAgrees
  BY DEF DevInv, Claimed, ClaimAgrees, Quiet
<1>2. QED
  BY <1>1, Invariance, PTL

\* When nothing is under way, the power state told to other devices is the
\* box's, unless it could not be read at the start.
THEOREM PowerReportIsTrue == Spec => []PowerReportAgrees
<1>1. DevInv => PowerReportAgrees
  BY DEF DevInv, Reported, PowerReportAgrees, Quiet
<1>2. QED
  BY <1>1, Invariance, PTL

\* No power event ends the process once conn_ is set: the bus takes frames by then.
THEOREM DiesEarly == Spec => DiesOnlyAtStart
<1>1. DevInv /\ [Next]_vars => [crashed' /\ ~crashed => ~conn]_vars
  <2> SUFFICES ASSUME DevInv, Next, crashed', ~crashed PROVE ~conn
    OBVIOUS
  <2>1. CallbackDies
    BY DEF Next, Main, MainInit, MainSetsCallback, MainAsksDisplay, MainAsksPower, MainInitsLibrary,
       MainSetsConn, MainOpens, Environment, WriterWrites, EventTaken, CallbackTells, CallbackStores,
       EventDone, RequestActiveSource, GiveDevicePowerStatus, ReaderSends
  <2>2. conn => opened
    BY DEF DevInv, Started
  <2>3. QED
    BY <2>1, <2>2 DEF CallbackDies
<1>2. QED
  BY <1>1, Invariance, PTL DEF Spec, DiesOnlyAtStart
=============================================================================
