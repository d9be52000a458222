--------------------------- MODULE PluginHandles_proofs ---------------------------
(****************************************************************************)
(* Proofs about PluginHandles, for any handles, libraries, requests and      *)
(* bounds.  What an operation does to a handle and its instance is one of    *)
(* three things: nothing, a change of the instance in place, or Replaced,    *)
(* which deletes the instance and may allocate another one (Effects).  The   *)
(* invariant is then preserved by each of the three.                         *)
(****************************************************************************)
EXTENDS PluginHandles, PluginRegistry_proofs

\* The constants of both modules.
LEMMA Constants ==
  /\ NoPlugin \notin Files
  /\ Kinds \subseteq [Handles -> HandleKinds]
  /\ Requests \in [HandleKinds -> SUBSET Nat]
  /\ MaxInstances \in Nat /\ MaxRuns \in Nat
BY RegistryAssumption, HandlesAssumption

\* A plugin that was found is a file, and has an engine of that name.
LEMMA Found ==
  ASSUME plugins \in Seq(Files), NEW name \in Nat, FindPlugin(name) # NoPlugin
  PROVE  /\ FindPlugin(name) \in Files
         /\ FindInfo(FindPlugin(name), name).name = name
         /\ FindInfo(FindPlugin(name), name).capabilities \in SUBSET Capabilities
<1> DEFINE p == FindPlugin(name)
<1>1. FindPlugin(name) = IF Places(plugins, name) # {}
                         THEN plugins[Min(Places(plugins, name))] ELSE NoPlugin
  <2>1. (\E i \in DOMAIN plugins : Implements(plugins[i], name)) <=> Places(plugins, name) # {}
    BY DEF Places
  <2>2. FindPlugin(name) = IF \E i \in DOMAIN plugins : Implements(plugins[i], name)
                           THEN plugins[IF Places(plugins, name) # {}
                                        THEN Min(Places(plugins, name)) ELSE 0] ELSE NoPlugin
    BY Zenon DEF FindPlugin, SelectInSeq, Places
  <2> QED BY <2>1, <2>2
<1>2. Min(Places(plugins, name)) \in Places(plugins, name)
  <2>1. Places(plugins, name) # {} /\ Places(plugins, name) \in SUBSET Nat
    BY <1>1 DEF Places
  <2> QED BY <2>1, Least
<1>3. p \in Files /\ Implements(p, name)
  <2>1. /\ Min(Places(plugins, name)) \in 1 .. Len(plugins)
        /\ Implements(plugins[Min(Places(plugins, name))], name)
    BY <1>2 DEF Places
  <2>2. plugins[Min(Places(plugins, name))] \in Files
    BY <2>1, ElementOfSeq
  <2> QED BY <1>1, <2>1, <2>2
<1> DEFINE list == Library[p].infos
           I == {i \in 1 .. Len(list) : list[i].name = name}
<1>4. list \in Seq(Info)
  BY <1>3, RegistryAssumption
<1> HIDE DEF p
<1>5. I # {} /\ I \in SUBSET Nat
  BY <1>3, <1>4 DEF Implements, Infos
<1>6. Min(I) \in I
  BY <1>5, Least
<1>7. FindInfo(p, name) = list[IF I # {} THEN Min(I) ELSE 0]
  BY Zenon DEF FindInfo, SelectInSeq, Infos
<1>8. list[Min(I)] \in Info /\ list[Min(I)].name = name
  <2>1. Min(I) \in 1 .. Len(list) /\ list[Min(I)].name = name
    BY <1>6
  <2>2. list[Min(I)] \in Info
    BY <1>4, <2>1, ElementOfSeq
  <2> QED BY <2>1, <2>2
<1>9. FindInfo(p, name) = list[Min(I)]
  BY <1>5, <1>7
<1>10. FindInfo(p, name).name = name /\ FindInfo(p, name).capabilities \in SUBSET Capabilities
  BY <1>8, <1>9 DEF Info
<1> QED BY <1>3, <1>10 DEF p

------------------------------------------------------------------------------
(* The invariant *)

HandleRecord == [plugin : Files \cup {NoPlugin}, instance : Nat, info : HandleInfo]
LiveRecord   == [plugin : Files, name : Nat, run : 0 .. MaxRuns, pending : BOOLEAN]
ResultRecord == [compressor : Nat, instance : Nat, run : 0 .. MaxRuns,
                 plugin : Files \cup {NoPlugin}]

\* The registry, the handles and the instances have their types, and instances
\* are counted.
Types ==
  /\ IInv
  /\ kind \in Kinds
  /\ handle \in [Handles -> HandleRecord]
  /\ \A h \in Handles : handle[h].instance <= made
  /\ made \in 0 .. MaxInstances
  /\ DOMAIN live \subseteq 1 .. made
  /\ live = [i \in DOMAIN live |-> live[i]]
  /\ \A i \in DOMAIN live : live[i] \in LiveRecord

\* A plugin that is held is the one its engine's name is found in.
Named ==
  \A h \in Handles :
    (handle[h].plugin # NoPlugin /\ handle[h].info.name > NONE) =>
      handle[h].plugin = FindPlugin(handle[h].info.name)

\* The same of a result, and of the two ends of a decompression.
Results ==
  /\ result \in ResultRecord /\ result.instance <= made
  /\ result.compressor > NONE =>
       result.plugin # NoPlugin /\ result.plugin = FindPlugin(result.compressor)
  /\ SameImplementation

\* Downloads are owed by downloaders that have an asynchronous engine, and by
\* the instances that are pending.
Downloading ==
  /\ owed \subseteq {h \in Handles : kind[h] = "downloader"}
  /\ FinishFindsDownload

HInv == Types /\ Owned /\ Named /\ Results /\ Downloading /\ TrueOnSuccess

------------------------------------------------------------------------------
(* What an operation does to its handle *)

\* The instance of the handle is deleted, and another one may be allocated.
NewInstance(r) ==
  [plugin |-> r.plugin, name |-> r.info.name, run |-> 0, pending |-> FALSE]

Replaced(h, r) ==
  /\ r \in HandleRecord
  /\ r.instance # 0 => r.plugin # NoPlugin /\ r.instance = made + 1 /\ made < MaxInstances
  /\ (r.plugin # NoPlugin /\ r.info.name > NONE) => r.plugin = FindPlugin(r.info.name)
  /\ h \notin owed
  /\ handle' = [handle EXCEPT ![h] = r]
  /\ live' = [i \in (DOMAIN live \ {handle[h].instance}) \cup ({r.instance} \ {0}) |->
                IF i = r.instance THEN NewInstance(r) ELSE live[i]]
  /\ made' = IF r.instance = 0 THEN made ELSE made + 1

\* A handle that is reset.
LEMMA ResetReplaces ==
  ASSUME Types, NEW h \in Handles, h \notin owed,
         NEW p \in Files \cup {NoPlugin},
         handle' = [handle EXCEPT ![h] = [Unset EXCEPT !.plugin = p]],
         live' = Remaining(h), made' = made
  PROVE  Replaced(h, [Unset EXCEPT !.plugin = p])
<1> DEFINE r == [Unset EXCEPT !.plugin = p]
<1>1. r = [plugin |-> p, instance |-> 0, info |-> NoInfo]
  BY DEF Unset
<1>2. NoInfo \in HandleInfo /\ NoInfo.name = 0
  BY DEF NoInfo, HandleInfo, INVALID
<1>3. r \in HandleRecord /\ r.instance = 0 /\ ~(r.info.name > NONE)
  BY <1>1, <1>2 DEF HandleRecord, NONE
<1>4. 0 \notin DOMAIN live
  BY DEF Types
<1>5. live' = [i \in (DOMAIN live \ {handle[h].instance}) \cup ({r.instance} \ {0}) |->
                IF i = r.instance THEN NewInstance(r) ELSE live[i]]
  <2>1. ({r.instance} \ {0}) = {}
    BY <1>3
  <2>2. \A i \in DOMAIN live : i # r.instance
    BY <1>3, <1>4
  <2> HIDE DEF r
  <2> QED BY <2>1, <2>2 DEF Remaining
<1> HIDE DEF r
<1> QED BY <1>3, <1>5 DEF Replaced, r

\* An instance is allocated, or the plugin returns none.
LEMMA AllocateReplaces ==
  ASSUME Types, NEW h \in Handles, h \notin owed,
         NEW p \in Files, NEW info \in HandleInfo,
         info.name > NONE => p = FindPlugin(info.name),
         Allocate(h, p, info)
  PROVE  /\ Replaced(h, handle'[h])
         /\ handle'[h].plugin = p /\ handle'[h].info = info
<1>1. PICK i \in {0} \cup {k \in {made + 1} : k <= MaxInstances} :
         /\ handle' = [handle EXCEPT ![h] = [plugin |-> p, instance |-> i, info |-> info]]
         /\ live' = With(Remaining(h), {i} \ {0},
                         [plugin |-> p, name |-> info.name, run |-> 0, pending |-> FALSE])
         /\ made' = IF i = 0 THEN made ELSE i
  BY Zenon DEF Allocate
<1> DEFINE r == [plugin |-> p, instance |-> i, info |-> info]
<1>2. made \in Nat /\ MaxInstances \in Nat /\ 0 \notin DOMAIN live
  BY Constants DEF Types
<1>3. i = 0 \/ (i = made + 1 /\ made < MaxInstances)
  BY <1>1, <1>2
<1>4. i \in Nat
  BY <1>2, <1>3
<1>5. r \in HandleRecord /\ r.instance = i /\ r.plugin = p /\ r.info = info /\ p # NoPlugin
  BY <1>4, Constants DEF HandleRecord
<1>6. live' = [k \in (DOMAIN live \ {handle[h].instance}) \cup ({i} \ {0}) |->
                IF k = i THEN NewInstance(r) ELSE live[k]]
  <2> DEFINE rec == [plugin |-> p, name |-> info.name, run |-> 0, pending |-> FALSE]
  <2>1. rec = NewInstance(r)
    BY <1>5 DEF NewInstance
  <2>2. live' = [k \in (DOMAIN live \ {handle[h].instance}) \cup ({i} \ {0}) |->
                  IF k \in {i} \ {0} THEN rec ELSE live[k]]
    <3> HIDE DEF rec
    <3>1. Remaining(h) = [k \in DOMAIN live \ {handle[h].instance} |-> live[k]]
      BY DEF Remaining
    <3>2. live' = With(Remaining(h), {i} \ {0}, rec)
      BY <1>1 DEF rec
    <3>3. DOMAIN Remaining(h) = DOMAIN live \ {handle[h].instance}
      BY <3>1
    <3>4. \A k \in DOMAIN live \ {handle[h].instance} : Remaining(h)[k] = live[k]
      BY <3>1
    <3> QED BY <3>2, <3>3, <3>4 DEF With
  <2>3. \A k \in (DOMAIN live \ {handle[h].instance}) \cup ({i} \ {0}) : k \in {i} \ {0} <=> k = i
    BY <1>2
  <2> HIDE DEF rec, r
  <2> QED BY <2>1, <2>2, <2>3
<1>7. handle' = [handle EXCEPT ![h] = r] /\ handle'[h] = r
  BY <1>1 DEF Types
<1>8. made' = IF i = 0 THEN made ELSE made + 1
  BY <1>1, <1>3
<1> HIDE DEF r
<1> QED BY <1>3, <1>5, <1>6, <1>7, <1>8 DEF Replaced

\* Nothing is done, or the instances change in place.
InPlace ==
  /\ handle' = handle /\ made' = made
  /\ DOMAIN live' = DOMAIN live /\ live' = [i \in DOMAIN live' |-> live'[i]]
  /\ \A i \in DOMAIN live :
       /\ live'[i] \in LiveRecord
       /\ live'[i].plugin = live[i].plugin /\ live'[i].name = live[i].name

\* The instances stay as they are.
LEMMA NothingInPlace ==
  ASSUME Types, UNCHANGED <<handle, live, made>>
  PROVE  InPlace
BY DEF Types, InPlace

\* One of the instances gets another run or pending.
LEMMA ChangeInPlace ==
  ASSUME Types, handle' = handle, made' = made,
         NEW i, NEW run \in 0 .. MaxRuns, NEW pending \in BOOLEAN,
         \/ live' = [live EXCEPT ![i].run = run]
         \/ live' = [live EXCEPT ![i].pending = pending]
  PROVE  InPlace
<1>1. /\ live = [k \in DOMAIN live |-> live[k]]
      /\ \A k \in DOMAIN live : live[k] \in LiveRecord
  BY DEF Types
<1>2. CASE live' = [live EXCEPT ![i].run = run]
  BY <1>1, <1>2 DEF InPlace, LiveRecord
<1>3. CASE live' = [live EXCEPT ![i].pending = pending]
  BY <1>1, <1>3 DEF InPlace, LiveRecord
<1> QED BY <1>2, <1>3

\* An instance that a handle holds exists, and its plugin is a file.
LEMMA Held ==
  ASSUME Types, Owned, NEW h \in Handles, handle[h].instance # 0
  PROVE  /\ handle[h].instance \in DOMAIN live
         /\ handle[h].plugin \in Files /\ handle[h].plugin # NoPlugin
BY Constants DEF Types, Owned, LiveRecord

\* The name of a good handle is that of an engine, which its plugin has.
LEMMA Good ==
  ASSUME Types, Named, NEW h \in Handles, HasPlugin(h)
  PROVE  /\ handle[h].plugin \in Files /\ handle[h].info \in HandleInfo
         /\ handle[h].info.name \in Nat /\ handle[h].info.name > NONE
         /\ handle[h].plugin = FindPlugin(handle[h].info.name)
<1>1. handle[h] \in HandleRecord
  BY DEF Types
<1>2. handle[h].info \in HandleInfo /\ handle[h].info.name \in Nat
  BY <1>1 DEF HandleRecord, HandleInfo
<1>3. handle[h].info.name > NONE
  BY <1>2 DEF HasPlugin, INVALID, NONE
<1> QED BY <1>1, <1>2, <1>3 DEF HasPlugin, HandleRecord, Named

\* A new instance is one of the engine that was asked for.
LEMMA NewReplaces ==
  ASSUME Types, NEW h \in Handles, NEW name \in Nat, h \notin owed, SetupNew(h, name)
  PROVE  /\ Replaced(h, handle'[h])
         /\ handle'[h].plugin \in Files /\ handle'[h].info.name = name
<1> DEFINE p == FindPlugin(name)
           found == FindInfo(p, name)
           info == [name |-> found.name, capabilities |-> found.capabilities]
<1>1. plugins \in Seq(Files) /\ FindPlugin(name) # NoPlugin
  BY DEF SetupNew, Types, IInv, PluginsDistinct
<1>2. p \in Files /\ found.name = name /\ found.capabilities \in SUBSET Capabilities
  BY <1>1, Found
<1>3. Allocate(h, p, info)
  BY DEF SetupNew
<1> HIDE DEF found
<1>4. info \in HandleInfo /\ info.name = name
  BY <1>2 DEF HandleInfo
<1>5. info.name > NONE => p = FindPlugin(info.name)
  BY <1>4
<1> HIDE DEF p, info
<1>6. /\ Replaced(h, handle'[h])
      /\ handle'[h].plugin = p /\ handle'[h].info = info
  BY <1>2, <1>3, <1>4, <1>5, AllocateReplaces
<1> QED BY <1>2, <1>4, <1>6

\* realloc() allocates for the engine the handle has.
LEMMA ReallocReplaces ==
  ASSUME Types, Named, Downloading, NEW h \in Handles, Realloc(h)
  PROVE  /\ Replaced(h, handle'[h])
         /\ handle'[h].plugin = handle[h].plugin /\ handle'[h].info = handle[h].info
<1>1. h \notin owed /\ HasPlugin(h)
  BY DEF Realloc, Downloading, IsGood, Ready
<1>2. /\ handle[h].plugin \in Files /\ handle[h].info \in HandleInfo
      /\ handle[h].plugin = FindPlugin(handle[h].info.name)
  BY <1>1, Good
<1> QED BY <1>1, <1>2, AllocateReplaces DEF Realloc

\* What setup() does to a handle.
LEMMA SetupEffect ==
  ASSUME Types, Downloading, NEW h \in Handles, Setup(h)
  PROVE  UNCHANGED <<handle, live, made>> \/ \E r : Replaced(h, r)
<1>1. PICK name \in Requests[kind[h]] :
        /\ h \in owed => name = handle[h].info.name
        /\ \/ SetupKept(h, name) \/ SetupNone(h, name) \/ SetupUnknown(h, name)
           \/ SetupIncompatible(h, name) \/ SetupNew(h, name)
  BY DEF Setup
<1>2. name \in Nat /\ plugins \in Seq(Files)
  BY Constants DEF Types, IInv, PluginsDistinct
<1>3. ~Kept(h, name) => h \notin owed
  BY <1>1 DEF Kept, Downloading
<1>4. Unset = [Unset EXCEPT !.plugin = NoPlugin]
  BY DEF Unset
<1>5. CASE SetupKept(h, name)
  BY <1>5 DEF SetupKept
<1>6. CASE SetupNone(h, name)
  <2>1. Replaced(h, [Unset EXCEPT !.plugin = NoPlugin])
    BY <1>3, <1>4, <1>6, ResetReplaces DEF SetupNone
  <2> QED BY <2>1
<1>7. CASE SetupUnknown(h, name)
  <2>1. Replaced(h, [Unset EXCEPT !.plugin = NoPlugin])
    BY <1>3, <1>4, <1>7, ResetReplaces DEF SetupUnknown
  <2> QED BY <2>1
<1>8. CASE SetupIncompatible(h, name)
  <2>1. FindPlugin(name) \in Files
    BY <1>2, <1>8, Found DEF SetupIncompatible
  <2>2. Replaced(h, [Unset EXCEPT !.plugin = FindPlugin(name)])
    BY <1>3, <1>8, <2>1, ResetReplaces DEF SetupIncompatible
  <2> QED BY <2>2
<1>9. CASE SetupNew(h, name)
  BY <1>2, <1>3, <1>9, NewReplaces DEF SetupNew
<1> QED BY <1>1, <1>5, <1>6, <1>7, <1>8, <1>9

\* What the operations on the handle itself do to it.
LEMMA Replacements ==
  ASSUME Types, Named, Downloading, NEW h \in Handles, Setup(h) \/ Clear(h) \/ Realloc(h)
  PROVE  UNCHANGED <<handle, live, made>> \/ \E r : Replaced(h, r)
<1>1. CASE Setup(h)
  BY <1>1, SetupEffect
<1>2. CASE Clear(h)
  <2>1. Unset = [Unset EXCEPT !.plugin = NoPlugin]
    BY DEF Unset
  <2>2. Replaced(h, [Unset EXCEPT !.plugin = NoPlugin])
    BY <1>2, <2>1, ResetReplaces DEF Clear
  <2> QED BY <2>2
<1>3. CASE Realloc(h)
  BY <1>3, ReallocReplaces
<1> QED BY <1>1, <1>2, <1>3

\* What all operations do to a handle.
LEMMA Effects ==
  ASSUME Types, Owned, Named, Downloading, NEW h \in Handles, Operation(h)
  PROVE  InPlace \/ \E r : Replaced(h, r)
<1>1. CASE Setup(h) \/ Clear(h) \/ Realloc(h)
  BY <1>1, Replacements, NothingInPlace
<1>2. CASE Compress(h)
  <2> DEFINE i == handle[h].instance
             run == live[i].run + 1
  <2>1. live[i].run < MaxRuns /\ live' = [live EXCEPT ![i].run = run]
    BY <1>2 DEF Compress
  <2>2. i \in DOMAIN live
    BY <1>2, Held DEF Compress, IsGood, Ready
  <2>3. live[i].run \in 0 .. MaxRuns
    BY <2>2 DEF Types, LiveRecord
  <2>4. run \in 0 .. MaxRuns
    BY <2>1, <2>3, Constants
  <2>5. handle' = handle /\ made' = made
    BY <1>2 DEF Compress
  <2> HIDE DEF i, run
  <2> QED BY <2>1, <2>4, <2>5, ChangeInPlace
<1>3. CASE GetResult(h)
  BY <1>3, NothingInPlace DEF GetResult
<1>4. CASE Decompress(h)
  BY <1>4, NothingInPlace DEF Decompress
<1>5. CASE StartDownload(h)
  <2>1. 0 \in 0 .. MaxRuns
    BY Constants
  <2> QED BY <1>5, <2>1, ChangeInPlace DEF StartDownload
<1>6. CASE Finish(h)
  <2>1. 0 \in 0 .. MaxRuns
    BY Constants
  <2> QED BY <1>6, <2>1, NothingInPlace, ChangeInPlace DEF Finish
<1> QED BY <1>1, <1>2, <1>3, <1>4, <1>5, <1>6 DEF Operation

------------------------------------------------------------------------------
(* What the effects preserve *)

\* The other handles after a replacement.
Others(h, r) ==
  /\ handle'[h] = r
  /\ \A g \in Handles \ {h} :
       /\ handle'[g] = handle[g]
       /\ handle[g].instance # 0 =>
            /\ handle[g].instance # handle[h].instance /\ handle[g].instance # r.instance
            /\ handle[g].instance \in DOMAIN live

\* The new instance, if there is one.
NewOne(h, r) ==
  r.instance # 0 =>
    /\ r.instance \in DOMAIN live' /\ r.instance \notin DOMAIN live
    /\ live'[r.instance] = NewInstance(r)
    /\ live'[r.instance].plugin = r.plugin
    /\ live'[r.instance].name = r.info.name
    /\ live'[r.instance].pending = FALSE

\* The instances that are neither new nor deleted.
Remain(h, r) ==
  /\ 0 \notin DOMAIN live'
  /\ \A i \in DOMAIN live :
       i # handle[h].instance => i \in DOMAIN live' /\ live'[i] = live[i]
  /\ \A i \in DOMAIN live' :
       \/ i \in DOMAIN live /\ i # handle[h].instance /\ live'[i] = live[i]
       \/ r.instance # 0 /\ i = r.instance

\* A replacement leaves the other handles with their instances.
LEMMA AfterReplaced ==
  ASSUME Types, Owned, NEW h \in Handles, NEW r, Replaced(h, r)
  PROVE  Others(h, r) /\ NewOne(h, r) /\ Remain(h, r)
<1>1. /\ handle \in [Handles -> HandleRecord]
      /\ made \in Nat /\ DOMAIN live \subseteq 1 .. made
      /\ r.instance \in Nat
  BY Constants DEF Types, Replaced, HandleRecord
<1>2. handle'[h] = r /\ \A g \in Handles \ {h} : handle'[g] = handle[g]
  BY <1>1 DEF Replaced
<1>3. \A i \in DOMAIN live : i # r.instance /\ i # 0
  BY <1>1 DEF Replaced
<1>4. /\ DOMAIN live' = (DOMAIN live \ {handle[h].instance}) \cup ({r.instance} \ {0})
      /\ \A i \in DOMAIN live' :
           live'[i] = IF i = r.instance THEN NewInstance(r) ELSE live[i]
  BY DEF Replaced
<1>5. r.instance # 0 => r.instance = made + 1
  BY DEF Replaced
<1>6. \A g \in Handles \ {h} : handle[g].instance # 0 =>
        handle[g].instance \in DOMAIN live /\ handle[g].instance # handle[h].instance
  BY DEF Owned
<1>7. /\ NewInstance(r).plugin = r.plugin /\ NewInstance(r).name = r.info.name /\ NewInstance(r).pending = FALSE
  BY DEF NewInstance
<1>8. 0 \notin DOMAIN live'
  BY <1>3, <1>4
<1>9. Others(h, r)
  BY <1>2, <1>3, <1>6 DEF Others
<1>10. NewOne(h, r)
  BY <1>3, <1>4, <1>5, <1>7 DEF NewOne
<1>11. Remain(h, r)
  BY <1>3, <1>4, <1>8 DEF Remain
<1> QED BY <1>9, <1>10, <1>11

\* The types and owners of the instances are preserved.
LEMMA OwnersKept ==
  ASSUME Types, Owned, NEW h \in Handles, InPlace \/ \E r : Replaced(h, r),
         kind' = kind, IInv'
  PROVE  Types' /\ Owned'
<1>1. CASE InPlace
  <2>1. Types'
    BY <1>1 DEF Types, InPlace
  <2>2. Owned'
    BY <1>1 DEF Owned, InPlace
  <2> QED BY <2>1, <2>2
<1>2. ASSUME NEW r, Replaced(h, r) PROVE Types' /\ Owned'
  <2>1. made \in Nat /\ MaxInstances \in Nat /\ made' \in Nat /\ made <= made'
    BY <1>2, Constants DEF Types, Replaced
  <2>2. Others(h, r) /\ NewOne(h, r) /\ Remain(h, r)
    BY <1>2, AfterReplaced
  <2>3. Types'
    <3>1. handle' \in [Handles -> HandleRecord] /\ live' = [i \in DOMAIN live' |-> live'[i]]
      BY <1>2 DEF Types, Replaced
    <3>2. \A g \in Handles : handle'[g].instance <= made'
      <4>1. r.instance <= made'
        BY <1>2, <2>1 DEF Replaced
      <4>2. \A g \in Handles : handle[g].instance \in Nat /\ handle[g].instance <= made
        BY DEF Types, HandleRecord
      <4> QED BY <2>1, <2>2, <4>1, <4>2 DEF Others
    <3>3. made' \in 0 .. MaxInstances
      BY <1>2, <2>1 DEF Types, Replaced
    <3>4. DOMAIN live' \subseteq 1 .. made'
      BY <1>2, <2>1 DEF Types, Replaced
    <3>5. r.instance # 0 => NewInstance(r) \in LiveRecord
      BY <1>2, Constants DEF NewInstance, LiveRecord, Replaced, HandleRecord, HandleInfo
    <3>6. \A i \in DOMAIN live' : live'[i] \in LiveRecord
      BY <2>2, <3>5 DEF Types, Remain, NewOne
    <3> QED BY <3>1, <3>2, <3>3, <3>4, <3>6 DEF Types
  <2>4. Owned'
    <3>1. ASSUME NEW g \in Handles, handle'[g].instance # 0
          PROVE  /\ handle'[g].instance \in DOMAIN live'
                 /\ live'[handle'[g].instance].plugin = handle'[g].plugin
                 /\ live'[handle'[g].instance].name = handle'[g].info.name
      <4>1. CASE g = h
        BY <2>2, <3>1, <4>1 DEF Others, NewOne
      <4>2. CASE g # h
        <5>1. handle'[g] = handle[g] /\ handle[g].instance # handle[h].instance
          BY <2>2, <3>1, <4>2 DEF Others
        <5>2. /\ handle[g].instance \in DOMAIN live
              /\ live[handle[g].instance].plugin = handle[g].plugin
              /\ live[handle[g].instance].name = handle[g].info.name
          BY <3>1, <5>1 DEF Owned
        <5> QED BY <2>2, <5>1, <5>2 DEF Remain
      <4> QED BY <4>1, <4>2
    <3>2. ASSUME NEW i \in DOMAIN live' PROVE \E g \in Handles : handle'[g].instance = i
      <4>1. CASE r.instance # 0 /\ i = r.instance
        BY <2>2, <4>1 DEF Others
      <4>2. CASE i \in DOMAIN live /\ i # handle[h].instance
        <5>1. PICK g \in Handles : handle[g].instance = i
          BY <4>2 DEF Owned
        <5> QED BY <2>2, <4>2, <5>1 DEF Others
      <4> QED BY <2>2, <4>1, <4>2 DEF Remain
    <3>3. ASSUME NEW f \in Handles, NEW g \in Handles, f # g, handle'[f].instance # 0
          PROVE  handle'[f].instance # handle'[g].instance
      <4>1. CASE f = h
        BY <2>2, <3>3, <4>1 DEF Others
      <4>2. CASE g = h
        BY <2>2, <3>3, <4>2 DEF Others
      <4>3. CASE f # h /\ g # h
        BY <2>2, <3>3, <4>3 DEF Others, Owned
      <4> QED BY <4>1, <4>2, <4>3
    <3> QED BY <3>1, <3>2, <3>3 DEF Owned
  <2> QED BY <2>3, <2>4
<1> QED BY <1>1, <1>2

\* Plugins are held for the names they are found for, after an operation.
LEMMA NamedKept ==
  ASSUME Types, Named, NEW h \in Handles, InPlace \/ \E r : Replaced(h, r),
         plugins' = plugins
  PROVE  Named'
<1>1. \A name : FindPlugin(name)' = FindPlugin(name)
  BY FirstFound DEF Types, IInv, PluginsDistinct
<1>2. CASE InPlace
  BY <1>1, <1>2 DEF InPlace, Named
<1>3. ASSUME NEW r, Replaced(h, r) PROVE Named'
  <2>1. handle'[h] = r /\ \A g \in Handles \ {h} : handle'[g] = handle[g]
    BY <1>3 DEF Replaced, Types
  <2>2. (r.plugin # NoPlugin /\ r.info.name > NONE) => r.plugin = FindPlugin(r.info.name)
    BY <1>3 DEF Replaced
  <2> QED BY <1>1, <2>1, <2>2 DEF Named
<1> QED BY <1>2, <1>3

\* The same after a step of the registry, which keeps what is found.
LEMMA NamedStays ==
  ASSUME Named, handle' = handle,
         \A name : FindPlugin(name) # NoPlugin => FindPlugin(name)' = FindPlugin(name)
  PROVE  Named'
BY DEF Named

\* Downloads that were started stay so when a handle is replaced that owes none.
LEMMA DownloadsKept ==
  ASSUME Types, Owned, Downloading, NEW h \in Handles, NEW r, Replaced(h, r),
         kind' = kind, owed' = owed
  PROVE  Downloading'
<1>1. Others(h, r) /\ NewOne(h, r) /\ Remain(h, r) /\ h \notin owed
  BY AfterReplaced DEF Replaced
<1>2. ASSUME NEW g \in owed'
      PROVE  /\ handle'[g].plugin # NoPlugin /\ Async(g)'
             /\ handle'[g].instance \in DOMAIN live'
             /\ live'[handle'[g].instance].pending
  <2>1. /\ g \in Handles \ {h}
        /\ handle[g].plugin # NoPlugin /\ Async(g)
        /\ handle[g].instance \in DOMAIN live /\ live[handle[g].instance].pending
    BY <1>1, <1>2 DEF Downloading, FinishFindsDownload
  <2>2. handle[g].instance # 0
    BY <2>1 DEF Types
  <2>3. handle'[g] = handle[g] /\ handle[g].instance # handle[h].instance
    BY <1>1, <2>1, <2>2 DEF Others
  <2>4. Async(g)'
    BY <2>1, <2>3 DEF Async
  <2> QED BY <1>1, <2>1, <2>3, <2>4 DEF Remain
<1>3. ASSUME NEW i \in DOMAIN live', live'[i].pending
      PROVE  \E g \in owed' : handle'[g].instance = i
  <2>1. i \in DOMAIN live /\ i # handle[h].instance /\ live'[i] = live[i]
    BY <1>1, <1>3 DEF Remain, NewOne
  <2>2. PICK g \in owed : handle[g].instance = i
    BY <1>3, <2>1 DEF Downloading, FinishFindsDownload
  <2>3. g \in Handles \ {h}
    BY <2>1, <2>2 DEF Downloading
  <2> QED BY <1>1, <2>2, <2>3 DEF Others
<1> QED BY <1>2, <1>3 DEF Downloading, FinishFindsDownload

\* They stay so while only runs are counted.
LEMMA DownloadsUntouched ==
  ASSUME Downloading, handle' = handle, kind' = kind, owed' = owed,
         DOMAIN live' = DOMAIN live,
         \A i \in DOMAIN live : live'[i].pending = live[i].pending
  PROVE  Downloading'
BY DEF Downloading, FinishFindsDownload, Async

\* A download that starts is owed, and pending on the instance of its handle.
LEMMA DownloadsStarted ==
  ASSUME Types, Owned, Downloading, NEW h \in Handles, kind' = kind, StartDownload(h)
  PROVE  Downloading'
<1> DEFINE i == handle[h].instance
<1>1. /\ handle' = handle /\ owed' = owed \cup {h}
      /\ kind[h] = "downloader" /\ handle[h].plugin # NoPlugin /\ Async(h)
      /\ live' = [live EXCEPT ![i].pending = TRUE]
  BY DEF StartDownload, IsGood, Ready, HasPlugin
<1>2. i \in DOMAIN live /\ live[i] \in LiveRecord
  BY <1>1, Held DEF Types, StartDownload, IsGood, Ready
<1>3. /\ DOMAIN live' = DOMAIN live /\ live'[i].pending
      /\ \A k \in DOMAIN live \ {i} : live'[k] = live[k]
  BY <1>1, <1>2 DEF LiveRecord
<1>4. \A g \in Handles : Async(g)' <=> Async(g)
  BY <1>1 DEF Async
<1>5. owed' \subseteq {g \in Handles : kind'[g] = "downloader"}
  BY <1>1 DEF Downloading
<1> HIDE DEF i
<1>6. ASSUME NEW g \in owed'
      PROVE  /\ handle'[g].plugin # NoPlugin /\ Async(g)'
             /\ handle'[g].instance \in DOMAIN live'
             /\ live'[handle'[g].instance].pending
  <2>1. CASE g = h
    BY <1>1, <1>2, <1>3, <1>4, <2>1 DEF i
  <2>2. CASE g # h
    <3>1. /\ g \in owed /\ g \in Handles /\ handle[g].plugin # NoPlugin /\ Async(g)
          /\ handle[g].instance \in DOMAIN live /\ live[handle[g].instance].pending
      BY <1>1, <1>6, <2>2 DEF Downloading, FinishFindsDownload
    <3> QED BY <1>1, <1>3, <1>4, <3>1
  <2> QED BY <2>1, <2>2
<1>7. ASSUME NEW k \in DOMAIN live', live'[k].pending
      PROVE  \E g \in owed' : handle'[g].instance = k
  <2>1. CASE k = i
    BY <1>1, <2>1 DEF i
  <2>2. CASE k # i
    BY <1>1, <1>3, <1>7, <2>2 DEF Downloading, FinishFindsDownload
  <2> QED BY <2>1, <2>2
<1> QED BY <1>5, <1>6, <1>7 DEF Downloading, FinishFindsDownload

\* One that is finished is neither owed nor pending.
LEMMA DownloadsFinished ==
  ASSUME Types, Owned, Downloading, NEW h \in Handles, kind' = kind, Finish(h)
  PROVE  Downloading'
<1> DEFINE i == handle[h].instance
<1>1. /\ h \in owed /\ handle[h].plugin # NoPlugin /\ Async(h)
      /\ i \in DOMAIN live
  BY DEF Finish, Downloading, FinishFindsDownload
<1>2. /\ handle' = handle /\ owed' = owed \ {h}
      /\ live' = [live EXCEPT ![i].pending = FALSE]
  BY <1>1 DEF Finish
<1>3. live[i] \in LiveRecord /\ i # 0
  BY <1>1 DEF Types
<1>4. /\ DOMAIN live' = DOMAIN live /\ ~live'[i].pending
      /\ \A k \in DOMAIN live \ {i} : live'[k] = live[k]
  BY <1>1, <1>2, <1>3 DEF LiveRecord
<1>5. \A g \in Handles : Async(g)' <=> Async(g)
  BY <1>2 DEF Async
<1>6. owed' \subseteq {g \in Handles : kind'[g] = "downloader"}
  BY <1>2 DEF Downloading
<1> HIDE DEF i
<1>7. ASSUME NEW g \in owed'
      PROVE  /\ handle'[g].plugin # NoPlugin /\ Async(g)'
             /\ handle'[g].instance \in DOMAIN live'
             /\ live'[handle'[g].instance].pending
  <2>1. /\ g \in owed /\ g # h /\ g \in Handles /\ handle[g].plugin # NoPlugin /\ Async(g)
        /\ handle[g].instance \in DOMAIN live /\ live[handle[g].instance].pending
    BY <1>2, <1>7 DEF Downloading, FinishFindsDownload
  <2>2. handle[g].instance # i
    BY <1>3, <2>1 DEF Owned, i
  <2> QED BY <1>2, <1>4, <1>5, <2>1, <2>2
<1>8. ASSUME NEW k \in DOMAIN live', live'[k].pending
      PROVE  \E g \in owed' : handle'[g].instance = k
  <2>1. k # i /\ k \in DOMAIN live /\ live[k].pending
    BY <1>4, <1>8
  <2>2. PICK g \in owed : handle[g].instance = k
    BY <2>1 DEF Downloading, FinishFindsDownload
  <2> QED BY <1>2, <2>1, <2>2 DEF i
<1> QED BY <1>6, <1>7, <1>8 DEF Downloading, FinishFindsDownload

\* So every operation keeps the account of downloads.
LEMMA DownloadsAccounted ==
  ASSUME Types, Owned, Named, Downloading, NEW h \in Handles, kind' = kind, Operation(h)
  PROVE  Downloading'
<1>1. CASE Setup(h) \/ Clear(h) \/ Realloc(h)
  <2>1. owed' = owed
    BY <1>1 DEF Setup, Clear, Realloc
  <2>2. CASE UNCHANGED <<handle, live, made>>
    BY <2>1, <2>2, DownloadsUntouched
  <2>3. CASE \E r : Replaced(h, r)
    BY <2>1, <2>3, DownloadsKept
  <2> QED BY <1>1, <2>2, <2>3, Replacements
<1>2. CASE Compress(h)
  <2>1. /\ handle' = handle /\ owed' = owed
        /\ live' = [live EXCEPT ![handle[h].instance].run = @ + 1]
    BY <1>2 DEF Compress
  <2>2. \A i \in DOMAIN live : live[i] \in LiveRecord
    BY DEF Types
  <2>3. DOMAIN live' = DOMAIN live /\ \A i \in DOMAIN live : live'[i].pending = live[i].pending
    BY <2>1, <2>2 DEF LiveRecord
  <2> QED BY <2>1, <2>3, DownloadsUntouched
<1>3. CASE GetResult(h) \/ Decompress(h)
  BY <1>3, DownloadsUntouched DEF GetResult, Decompress
<1> QED BY <1>1, <1>2, <1>3, DownloadsStarted, DownloadsFinished DEF Operation

\* A result that is held stays what it is while its plugin is found.
LEMMA ResultsKept ==
  ASSUME Results, result' = result, restored' = restored,
         made \in Nat, made' \in Nat, made <= made',
         \A name : FindPlugin(name) # NoPlugin => FindPlugin(name)' = FindPlugin(name)
  PROVE  Results'
<1>1. result \in ResultRecord /\ result.instance \in Nat /\ result.instance <= made'
  BY DEF Results, ResultRecord
<1>2. result.compressor > NONE =>
        result.plugin # NoPlugin /\ result.plugin = FindPlugin(result.compressor)
  BY DEF Results
<1>3. SameImplementation'
  BY DEF Results, SameImplementation
<1> QED BY <1>1, <1>2, <1>3 DEF Results

\* getResult() takes the plugin from the instance, which has it from the registry.
LEMMA ResultsTaken ==
  ASSUME Types, Owned, Named, Results, NEW h \in Handles, GetResult(h)
  PROVE  Results'
<1>1. kind[h] = "compressor" /\ HasPlugin(h) /\ handle[h].instance # 0
  BY DEF GetResult, IsGood, Ready
<1>2. /\ handle[h].info.name \in Nat /\ handle[h].plugin \in Files
      /\ handle[h].plugin = FindPlugin(handle[h].info.name)
  BY <1>1, Good
<1>3. /\ handle[h].instance \in DOMAIN live
      /\ live[handle[h].instance].plugin = handle[h].plugin
      /\ live[handle[h].instance].run \in 0 .. MaxRuns
      /\ handle[h].instance \in Nat /\ handle[h].instance <= made
  BY <1>1 DEF Owned, Types, LiveRecord, HandleRecord
<1>4. /\ result' = [compressor |-> handle[h].info.name, instance |-> handle[h].instance,
                    run |-> live[handle[h].instance].run, plugin |-> live[handle[h].instance].plugin]
      /\ made' = made /\ restored' = restored /\ plugins' = plugins
  BY DEF GetResult
<1>5. /\ result' \in ResultRecord /\ result'.instance = handle[h].instance
      /\ result'.plugin = handle[h].plugin /\ result'.compressor = handle[h].info.name
  BY <1>2, <1>3, <1>4 DEF ResultRecord
<1>6. \A name : FindPlugin(name)' = FindPlugin(name)
  BY <1>4, FirstFound DEF Types, IInv, PluginsDistinct
<1>7. SameImplementation'
  BY <1>4 DEF Results, SameImplementation
<1> QED BY <1>2, <1>3, <1>4, <1>5, <1>6, <1>7, Constants DEF Results

\* decompress() compares names; the plugins are then the same.
LEMMA ResultsUsed ==
  ASSUME Types, Named, Results, NEW h \in Handles, Decompress(h)
  PROVE  Results'
<1>1. /\ HasPlugin(h) /\ handle[h].info.name = result.compressor
      /\ result' = result /\ made' = made /\ plugins' = plugins
      /\ restored' = <<[plugin |-> handle[h].plugin, instance |-> handle[h].instance,
                        name |-> handle[h].info.name, result |-> result]>>
  BY DEF Decompress, Uses, Ready
<1>2. handle[h].info.name > NONE /\ handle[h].plugin = FindPlugin(handle[h].info.name)
  BY <1>1, Good
<1>3. handle[h].plugin = result.plugin
  BY <1>1, <1>2 DEF Results
<1>4. SameImplementation'
  <2>1. /\ restored'[1].plugin = handle[h].plugin /\ restored'[1].name = handle[h].info.name
        /\ restored'[1].result = result
    BY <1>1
  <2> QED BY <1>1, <1>3, <2>1 DEF SameImplementation
<1>5. \A name : FindPlugin(name)' = FindPlugin(name)
  BY <1>1, FirstFound DEF Types, IInv, PluginsDistinct
<1> QED BY <1>1, <1>4, <1>5 DEF Results

\* Ready, as a function of the state.
Serves(h, k, held) ==
  /\ held[h].plugin # NoPlugin /\ held[h].info.name \notin {INVALID, NONE}
  /\ k[h] # "decompressor" => held[h].instance # 0

\* The answer of a call on a handle is true if it is "yes" for a handle that is
\* ready, and that is then for the name.
LEMMA Told ==
  ASSUME kind' = kind, NEW h, NEW name, NEW ok,
         returned'[1].handle = h, returned'[1].name = name, returned'[1].ok = ok,
         (name > NONE /\ kind[h] # "downloader") => 
           /\ ok <=> Serves(h, kind, handle')
           /\ ok => handle'[h].info.name = name
  PROVE  TrueOnSuccess'
<1> SUFFICES ASSUME name > NONE, kind[h] # "downloader"
             PROVE  SetupTold(returned[1].handle)'
  BY DEF TrueOnSuccess
<1>1. (ok <=> Serves(h, kind, handle')) /\ (ok => handle'[h].info.name = name)
  OBVIOUS
<1>2. (returned[1].ok <=> Uses(returned[1].handle, returned[1].name))'
  BY <1>1 DEF Serves, Uses, Ready, HasPlugin
<1>3. (IsGood(returned[1].handle)
        <=> (Uses(returned[1].handle, returned[1].name)
              /\ (kind[returned[1].handle] = "uploader" => returned[1].name \in Compatible)))'
  BY <1>1 DEF Serves, IsGood, Uses, Ready, HasPlugin
<1> QED BY <1>2, <1>3 DEF SetupTold

\* What setup() says of a handle is true.
LEMMA SetupTells ==
  ASSUME Types, Owned, Downloading, NEW h \in Handles, kind' = kind, Setup(h)
  PROVE  TrueOnSuccess'
<1>1. PICK name \in Requests[kind[h]] :
        /\ h \in owed => name = handle[h].info.name
        /\ \/ SetupKept(h, name) \/ SetupNone(h, name) \/ SetupUnknown(h, name)
           \/ SetupIncompatible(h, name) \/ SetupNew(h, name)
  BY DEF Setup
<1>2. /\ name \in Nat /\ kind[h] \in HandleKinds /\ handle \in [Handles -> HandleRecord]
  BY Constants DEF Types
<1>3. PICK ok \in BOOLEAN : returned' = <<[handle |-> h, name |-> name, ok |-> ok]>>
  BY <1>1 DEF SetupKept, SetupNone, SetupUnknown, SetupIncompatible, SetupNew, Returns
<1>4. /\ returned'[1].handle = h /\ returned'[1].name = name /\ returned'[1].ok = ok
  BY <1>3
<1>5. ASSUME name > NONE, kind[h] # "downloader"
      PROVE  (ok <=> Serves(h, kind, handle')) /\ (ok => handle'[h].info.name = name)
  <2>1. Serves(h, kind, handle') <=>
          /\ handle'[h].plugin # NoPlugin
          /\ handle'[h].info.name # 0 /\ handle'[h].info.name # 1
          /\ (kind[h] = "decompressor" \/ handle'[h].instance # 0)
    BY DEF Serves, INVALID, NONE
  <2>2. CASE SetupKept(h, name)
    <3>1. ok = TRUE /\ handle' = handle /\ handle[h].info.name = name
      BY <1>3, <2>2 DEF SetupKept, Returns, Kept
    <3>2. /\ kind[h] # "decompressor" => handle[h].instance # 0
          /\ kind[h] = "decompressor" => handle[h].plugin # NoPlugin
      BY <1>2, <1>5, <2>2 DEF SetupKept, Kept, HandleKinds
    <3>3. handle[h].plugin # NoPlugin
      BY <3>2, Held
    <3> QED BY <1>2, <1>5, <2>1, <3>1, <3>2, <3>3 DEF NONE
  <2>3. CASE SetupUnknown(h, name)
    <3>1. ok = FALSE /\ handle' = [handle EXCEPT ![h] = Unset]
      BY <1>3, <2>3 DEF SetupUnknown, Returns
    <3> QED BY <1>2, <2>1, <3>1 DEF Unset
  <2>4. CASE SetupNew(h, name)
    <3>1. ok <=> (kind[h] = "decompressor" \/ handle'[h].instance # 0)
      BY <1>3, <2>4 DEF SetupNew, Returns
    <3>2. h \notin owed
      BY <1>5 DEF Downloading
    <3>3. handle'[h].plugin \in Files /\ handle'[h].info.name = name
      BY <1>2, <2>4, <3>2, NewReplaces
    <3>4. handle'[h].plugin # NoPlugin /\ handle'[h].info.name # 0 /\ handle'[h].info.name # 1
      BY <1>2, <1>5, <3>3, Constants DEF NONE
    <3> QED BY <2>1, <3>1, <3>3, <3>4
  <2>5. ~SetupNone(h, name)
    <3>1. ~(name <= NONE)
      BY <1>2, <1>5 DEF NONE
    <3> QED BY <3>1 DEF SetupNone
  <2>6. ~SetupIncompatible(h, name)
    BY <1>5 DEF SetupIncompatible
  <2> QED BY <1>1, <2>2, <2>3, <2>4, <2>5, <2>6
<1> QED BY <1>4, <1>5, Told

\* What realloc() says is true, too, and nothing else changes a handle.
LEMMA CallsTell ==
  ASSUME Types, Owned, Named, Downloading, TrueOnSuccess, NEW h \in Handles, kind' = kind,
         Operation(h)
  PROVE  TrueOnSuccess'
<1>1. CASE Setup(h)
  BY <1>1, SetupTells
<1>2. CASE Clear(h)
  BY <1>2 DEF Clear, TrueOnSuccess
<1>3. CASE Realloc(h)
  <2>1. /\ HasPlugin(h) /\ kind[h] = "compressor"
        /\ returned' = <<[handle |-> h, name |-> handle[h].info.name,
                          ok |-> handle'[h].instance # 0]>>
    BY <1>3 DEF Realloc, IsGood, Ready, Returns
  <2>2. handle'[h].plugin = handle[h].plugin /\ handle'[h].info = handle[h].info
    BY <1>3, ReallocReplaces
  <2>3. Serves(h, kind, handle') <=> handle'[h].instance # 0
    BY <2>1, <2>2 DEF Serves, HasPlugin
  <2>4. /\ returned'[1].handle = h /\ returned'[1].ok = (handle'[h].instance # 0)
        /\ returned'[1].name = handle[h].info.name
    BY <2>1
  <2> QED BY <2>2, <2>3, <2>4, Told
<1>4. CASE Compress(h) \/ GetResult(h) \/ Decompress(h) \/ StartDownload(h) \/ Finish(h)
  <2>1. handle' = handle /\ returned' = returned
    BY <1>4 DEF Compress, GetResult, Decompress, StartDownload, Finish
  <2> QED BY <2>1 DEF TrueOnSuccess, SetupTold, Uses, IsGood, Ready, HasPlugin
<1> QED BY <1>1, <1>2, <1>3, <1>4 DEF Operation

------------------------------------------------------------------------------
(* The theorems *)

\* The application's operations preserve the invariant.
LEMMA OperationKeeps ==
  ASSUME HInv, NEW h \in Handles, Operation(h), kind' = kind
  PROVE  HInv'
<1>1. /\ Types /\ Owned /\ Named /\ Results /\ Downloading /\ TrueOnSuccess
  BY DEF HInv
<1>2. plugins' = plugins /\ search' = search
  BY DEF Operation, Setup, Clear, Realloc, Compress, GetResult, Decompress, StartDownload, Finish
<1>3. IInv'
  BY <1>1, <1>2 DEF Types, IInv, PluginsDistinct
<1>4. InPlace \/ \E r : Replaced(h, r)
  BY <1>1, Effects
<1>5. Types' /\ Owned'
  BY <1>1, <1>3, <1>4, OwnersKept
<1>6. Named'
  BY <1>1, <1>2, <1>4, NamedKept
<1>7. Results'
  <2>1. CASE GetResult(h)
    BY <1>1, <2>1, ResultsTaken
  <2>2. CASE Decompress(h)
    BY <1>1, <2>2, ResultsUsed
  <2>3. CASE result' = result /\ restored' = restored
    <3>1. made \in Nat /\ made' \in Nat /\ made <= made'
      <4>1. made \in Nat
        BY <1>1, Constants DEF Types
      <4>2. CASE InPlace
        BY <4>1, <4>2 DEF InPlace
      <4>3. CASE \E r : Replaced(h, r)
        BY <4>1, <4>3 DEF Replaced
      <4> QED BY <1>4, <4>2, <4>3
    <3>2. \A name : FindPlugin(name)' = FindPlugin(name)
      BY <1>1, <1>2, FirstFound DEF Types, IInv, PluginsDistinct
    <3> QED BY <1>1, <2>3, <3>1, <3>2, ResultsKept
  <2> QED BY <2>1, <2>2, <2>3 DEF Operation, Setup, Clear, Realloc, Compress, StartDownload, Finish
<1>8. Downloading'
  BY <1>1, DownloadsAccounted
<1>9. TrueOnSuccess'
  BY <1>1, CallsTell
<1> QED BY <1>5, <1>6, <1>7, <1>8, <1>9 DEF HInv

\* So do the steps of the registry, and steps that do nothing.
LEMMA RegistryKeeps ==
  ASSUME HInv, Next \/ UNCHANGED <<plugins, search>>, UNCHANGED mine
  PROVE  HInv'
<1>1. /\ Types /\ Owned /\ Named /\ Results /\ Downloading /\ TrueOnSuccess
  BY DEF HInv
<1>2. /\ kind' = kind /\ handle' = handle /\ live' = live /\ made' = made
      /\ returned' = returned /\ result' = result /\ restored' = restored /\ owed' = owed
  BY DEF mine
<1>3. IInv' /\ \A name : FindPlugin(name) # NoPlugin => FindPlugin(name)' = FindPlugin(name)
  <2>1. CASE Next
    BY <1>1, <2>1, StepKeeps, StaysFound DEF Types
  <2>2. CASE UNCHANGED <<plugins, search>>
    BY <1>1, <2>2, FirstFound DEF Types, IInv, PluginsDistinct
  <2> QED BY <2>1, <2>2
<1>4. Types' /\ Owned'
  BY <1>1, <1>2, <1>3 DEF Types, Owned
<1>5. Named'
  BY <1>1, <1>2, <1>3, NamedStays
<1>6. Results'
  <2>1. made \in Nat /\ made' \in Nat /\ made <= made'
    BY <1>1, <1>2, Constants DEF Types
  <2> QED BY <1>1, <1>2, <1>3, <2>1, ResultsKept
<1>7. Downloading'
  BY <1>1, <1>2, DownloadsUntouched
<1>8. TrueOnSuccess'
  BY <1>1, <1>2 DEF TrueOnSuccess, SetupTold, Uses, IsGood, Ready, HasPlugin
<1> QED BY <1>4, <1>5, <1>6, <1>7, <1>8 DEF HInv

\* The invariant holds.
THEOREM HandlesInductive == HandlesSpec => []HInv
<1>1. HandlesInit => HInv
  <2> SUFFICES ASSUME HandlesInit PROVE HInv
    OBVIOUS
  <2>1. /\ kind \in Kinds /\ handle = [h \in Handles |-> Unset]
        /\ live = <<>> /\ made = 0 /\ returned = <<>> /\ result = NoResult
        /\ restored = <<>> /\ owed = {}
    BY DEF HandlesInit
  <2>2. IInv
    BY RegistryAssumption DEF HandlesInit, Init, IInv, PluginsDistinct
  <2>3. DOMAIN live = {} /\ live = [i \in DOMAIN live |-> live[i]]
    BY <2>1
  <2>4. Unset \in HandleRecord /\ Unset.instance = 0 /\ Unset.plugin = NoPlugin
    BY DEF Unset, NoInfo, HandleRecord, HandleInfo, INVALID
  <2>5. Types
    BY <2>1, <2>2, <2>3, <2>4, Constants DEF Types
  <2>6. Owned /\ Named
    BY <2>1, <2>3, <2>4 DEF Owned, Named
  <2>7. Results
    BY <2>1, Constants DEF Results, ResultRecord, NoResult, SameImplementation, INVALID, NONE
  <2>8. Downloading /\ TrueOnSuccess
    BY <2>1, <2>3 DEF Downloading, FinishFindsDownload, TrueOnSuccess
  <2> QED BY <2>5, <2>6, <2>7, <2>8 DEF HInv
<1>2. HInv /\ [HandlesNext]_vars => HInv'
  <2> SUFFICES ASSUME HInv, [HandlesNext]_vars PROVE HInv'
    OBVIOUS
  <2>1. CASE \E h \in Handles : Operation(h) /\ kind' = kind
    BY <2>1, OperationKeeps
  <2>2. CASE Next /\ UNCHANGED mine
    BY <2>2, RegistryKeeps
  <2>3. CASE UNCHANGED vars
    BY <2>3, RegistryKeeps DEF vars
  <2> QED BY <2>1, <2>2, <2>3 DEF HandlesNext
<1> QED BY <1>1, <1>2, PTL DEF HandlesSpec

\* Every variable has its type, for any applications, libraries and bounds.
THEOREM HandlesTypeCorrect == HandlesSpec => []TypeOK
<1>1. HInv => TypeOK
  <2> SUFFICES ASSUME HInv PROVE TypeOK
    OBVIOUS
  <2>1. Types /\ Results /\ Downloading
    BY DEF HInv
  <2>2. plugins \in Seq(Files) /\ search \in Seq(Files)
    BY <2>1 DEF Types, IInv, PluginsDistinct
  <2>3. handle \in [Handles -> [plugin : Files \cup {NoPlugin}, instance : 0 .. made,
                                info : HandleInfo]]
    <3>1. made \in Nat
      BY <2>1, Constants DEF Types
    <3>2. \A h \in Handles : handle[h] \in HandleRecord /\ handle[h].instance \in 0 .. made
      BY <2>1, <3>1 DEF Types, HandleRecord
    <3> QED BY <2>1, <3>2 DEF Types, HandleRecord
  <2>4. result \in [compressor : Nat, instance : 0 .. made, run : 0 .. MaxRuns,
                    plugin : Files \cup {NoPlugin}]
    BY <2>1, Constants DEF Results, ResultRecord, Types
  <2>5. owed \subseteq Handles
    BY <2>1 DEF Downloading
  <2> QED BY <2>1, <2>2, <2>3, <2>4, <2>5 DEF TypeOK, Types, LiveRecord
<1> QED BY <1>1, HandlesInductive, PTL

\* No instance is ever lost, deleted twice, shared or used with another plugin.
THEOREM OwnedAlways == HandlesSpec => []Owned
<1>1. HInv => Owned
  BY DEF HInv
<1> QED BY <1>1, HandlesInductive, PTL

\* Data is only decompressed by the implementation that compressed it.
THEOREM SameImplementationAlways == HandlesSpec => []SameImplementation
<1>1. HInv => SameImplementation
  BY DEF HInv, Results
<1> QED BY <1>1, HandlesInductive, PTL

\* setup() and realloc() tell of all handles but downloaders whether they can be
\* used for the engine they were called for.
THEOREM TrueOnSuccessAlways == HandlesSpec => []TrueOnSuccess
<1>1. HInv => TrueOnSuccess
  BY DEF HInv
<1> QED BY <1>1, HandlesInductive, PTL

\* Each finish() finds the download that is owed, and each download is owed.
THEOREM FinishFindsAlways == HandlesSpec => []FinishFindsDownload
<1>1. HInv => FinishFindsDownload
  BY DEF HInv, Downloading
<1> QED BY <1>1, HandlesInductive, PTL
==================================================================================
