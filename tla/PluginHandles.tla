------------------------------ MODULE PluginHandles ------------------------------
(****************************************************************************)
(* The handles an application works with: Compressor, Decompressor,          *)
(* Downloader and Uploader.  Each holds a plugin, an instance allocated by   *)
(* that plugin, and the information on the engine; the registry may load     *)
(* more plugins at any time.                                                 *)
(*                                                                           *)
(* The asserts of the code are not compiled into a release build, which is   *)
(* the one modelled here: a plugin that fails to allocate an instance, or    *)
(* needs none, returns the null pointer 0 and the handle goes on.            *)
(*                                                                           *)
(* What the documentation asks of the application is assumed: only a good    *)
(* handle is used, a compression result is not used after its compressor was *)
(* used again, and a download that was started is finished.                  *)
(****************************************************************************)
EXTENDS PluginRegistry

CONSTANTS
  Handles,       \* the handles of the application
  Kinds,         \* what they may be, for the applications considered
  Requests,      \* the names it sets up handles of each kind for
  Compatible,    \* the names of the engines the OpenGL context can be used with
  MaxInstances,  \* bound: how many instances the plugins allocate
  MaxRuns        \* bound: how often one instance compresses

HandleKinds == {"compressor", "decompressor", "downloader", "uploader"}

ASSUME HandlesAssumption ==
  /\ Kinds \subseteq [Handles -> HandleKinds]
  /\ Requests \in [HandleKinds -> SUBSET Nat] /\ Compatible \subseteq Nat
  /\ MaxInstances \in Nat /\ MaxRuns \in Nat

VARIABLES
  kind,      \* what each handle is
  handle,    \* plugin, instance (or 0), info
  live,      \* the instances that exist: who made them, what they hold
  made,      \* how many instances were allocated
  returned,  \* what the last setup() returned
  result,    \* the CompressorResult the application holds
  restored,  \* the last call of Plugin::decompress
  owed       \* the downloaders whose start() asked for a finish()

mine == <<kind, handle, live, made, returned, result, restored, owed>>
vars == <<plugins, search, mine>>

NoInfo == [name |-> INVALID, capabilities |-> {}]
Unset  == [plugin |-> NoPlugin, instance |-> 0, info |-> NoInfo]
NoResult == [compressor |-> INVALID, instance |-> 0, run |-> 0, plugin |-> NoPlugin]

\* PluginInstance::isGood(), and with the instance that all but a decompressor
\* need.
HasPlugin(h) == handle[h].plugin # NoPlugin /\ handle[h].info.name \notin {INVALID, NONE}
Ready(h) == HasPlugin(h) /\ (kind[h] # "decompressor" => handle[h].instance # 0)

\* isGood(); only that of an uploader asks whether its engine works with the
\* OpenGL context.
IsGood(h) == Ready(h) /\ (kind[h] = "uploader" => handle[h].info.name \in Compatible)

\* Mutant of Uses: the name is not compared.
UsesAny(h, name) == Ready(h)

\* uses(), which asks no uploader for its context.
Uses(h, name) == Ready(h) /\ handle[h].info.name = name

Async(h) == "USE_ASYNC_DOWNLOAD" \in handle[h].info.capabilities

HandlesInit ==
  /\ Init
  /\ kind \in Kinds
  /\ handle = [h \in Handles |-> Unset]
  /\ live = <<>> /\ made = 0
  /\ returned = <<>> /\ result = NoResult /\ restored = <<>> /\ owed = {}

------------------------------------------------------------------------------
(* Instances *)

\* clear() deletes the instance, if there is one.
Remaining(h) == [i \in DOMAIN live \ {handle[h].instance} |-> live[i]]

With(f, S, value) == [i \in DOMAIN f \cup S |-> IF i \in S THEN value ELSE f[i]]

\* The plugin allocates an instance for the engine, or returns the null pointer.
Allocate(h, p, info) ==
  \E i \in {0} \cup {k \in {made + 1} : k <= MaxInstances} :
    /\ handle' = [handle EXCEPT ![h] = [plugin |-> p, instance |-> i, info |-> info]]
    /\ live' = With(Remaining(h), {i} \ {0}, [plugin |-> p, name |-> info.name, run |-> 0, pending |-> FALSE])
    /\ made' = IF i = 0 THEN made ELSE i

Returns(h, name, ok) == returned' = <<[handle |-> h, name |-> name, ok |-> ok]>>

------------------------------------------------------------------------------
(* setup() *)

\* Mutant of Kept: a handle is always set up anew.
KeptNever(h, name) == FALSE

\* Mutant of Kept: an instance that could not be allocated is not missed.
KeptByName(h, name) == handle[h].info.name = name

\* The engine is there already.
Kept(h, name) ==
  /\ handle[h].info.name = name
  /\ kind[h] \in {"compressor", "uploader"} => handle[h].instance # 0
  /\ kind[h] = "decompressor" => handle[h].plugin # NoPlugin

SetupKept(h, name) ==
  /\ Kept(h, name)
  /\ Returns(h, name, TRUE)
  /\ UNCHANGED <<handle, live, made>>

\* clear(), and nothing to instantiate.
SetupNone(h, name) ==
  /\ ~Kept(h, name) /\ name <= NONE
  /\ handle' = [handle EXCEPT ![h] = Unset] /\ live' = Remaining(h)
  /\ Returns(h, name, TRUE)
  /\ UNCHANGED made

SetupUnknown(h, name) ==
  /\ ~Kept(h, name) /\ name > NONE /\ FindPlugin(name) = NoPlugin
  /\ handle' = [handle EXCEPT ![h] = Unset] /\ live' = Remaining(h)
  /\ Returns(h, name, FALSE)
  /\ UNCHANGED made

\* A downloader asks whether the engine works with the context it is given, and
\* keeps the plugin if it does not.
SetupIncompatible(h, name) ==
  /\ ~Kept(h, name) /\ name > NONE /\ FindPlugin(name) # NoPlugin
  /\ kind[h] = "downloader" /\ name \notin Compatible
  /\ handle' = [handle EXCEPT ![h] = [Unset EXCEPT !.plugin = FindPlugin(name)]]
  /\ live' = Remaining(h)
  /\ Returns(h, name, FALSE)
  /\ UNCHANGED made

SetupNew(h, name) ==
  /\ ~Kept(h, name) /\ name > NONE /\ FindPlugin(name) # NoPlugin
  /\ kind[h] = "downloader" => name \in Compatible
  /\ LET info == FindInfo(FindPlugin(name), name)
     IN Allocate(h, FindPlugin(name), [name |-> info.name, capabilities |-> info.capabilities])
  /\ Returns(h, name, kind[h] = "decompressor" \/ handle'[h].instance # 0)

\* A handle that waits for a download is only set up for what it is.
Setup(h) ==
  /\ \E name \in Requests[kind[h]] :
       /\ h \in owed => name = handle[h].info.name
       /\ \/ SetupKept(h, name) \/ SetupNone(h, name) \/ SetupUnknown(h, name)
          \/ SetupIncompatible(h, name) \/ SetupNew(h, name)
  /\ UNCHANGED <<plugins, search, result, restored, owed>>

\* clear(), also called by the destructor.
Clear(h) ==
  /\ h \notin owed
  /\ handle' = [handle EXCEPT ![h] = Unset] /\ live' = Remaining(h)
  /\ returned' = <<>>
  /\ UNCHANGED <<plugins, search, made, result, restored, owed>>

\* Mutant of Realloc: the new instance is allocated, the old one not deleted.
ReallocKeeping(h) ==
  /\ kind[h] = "compressor" /\ IsGood(h)
  /\ \E i \in {k \in {made + 1} : k <= MaxInstances} :
       /\ handle' = [handle EXCEPT ![h].instance = i]
       /\ live' = With(live, {i}, [live[handle[h].instance] EXCEPT !.run = 0])
       /\ made' = i
  /\ Returns(h, handle[h].info.name, TRUE)
  /\ UNCHANGED <<plugins, search, result, restored, owed>>

\* realloc() of a compressor.
Realloc(h) ==
  /\ kind[h] = "compressor" /\ IsGood(h)
  /\ Allocate(h, handle[h].plugin, handle[h].info)
  /\ Returns(h, handle[h].info.name, handle'[h].instance # 0)
  /\ UNCHANGED <<plugins, search, result, restored, owed>>

------------------------------------------------------------------------------
(* Compression *)

\* compress() overwrites the results of the instance's last run.
Compress(h) ==
  /\ kind[h] = "compressor" /\ IsGood(h)
  /\ LET i == handle[h].instance
     IN /\ live[i].run < MaxRuns
        /\ live' = [live EXCEPT ![i].run = @ + 1]
  /\ UNCHANGED <<plugins, search, handle, made, returned, result, restored, owed>>

\* getResult(): pointers into the instance.
GetResult(h) ==
  /\ kind[h] = "compressor" /\ IsGood(h)
  /\ LET i == handle[h].instance
     IN result' = [compressor |-> handle[h].info.name, instance |-> i,
                   run |-> live[i].run, plugin |-> live[i].plugin]
  /\ UNCHANGED <<plugins, search, handle, live, made, returned, restored, owed>>

\* The compressor is still there and has not been used again.
IsValid(r) == r.instance \in DOMAIN live /\ live[r.instance].run = r.run

\* decompress(): anything but a result of this engine with chunks is refused.
Decompress(h) ==
  /\ kind[h] = "decompressor" /\ IsValid(result)
  /\ Uses(h, result.compressor) /\ result.run > 0
  /\ restored' = <<[plugin |-> handle[h].plugin, instance |-> handle[h].instance,
                    name |-> handle[h].info.name, result |-> result]>>
  /\ UNCHANGED <<plugins, search, handle, live, made, returned, result, owed>>

------------------------------------------------------------------------------
(* Downloads *)

\* start() of an engine that downloads asynchronously.
StartDownload(h) ==
  /\ kind[h] = "downloader" /\ IsGood(h) /\ h \notin owed
  /\ Async(h)
  /\ live' = [live EXCEPT ![handle[h].instance].pending = TRUE]
  /\ owed' = owed \cup {h}
  /\ UNCHANGED <<plugins, search, handle, made, returned, result, restored>>

\* finish() does nothing for a handle without a plugin or asynchronous engine.
Finish(h) ==
  /\ h \in owed
  /\ live' = IF handle[h].plugin # NoPlugin /\ Async(h)
             THEN [live EXCEPT ![handle[h].instance].pending = FALSE] ELSE live
  /\ owed' = owed \ {h}
  /\ UNCHANGED <<plugins, search, handle, made, returned, result, restored>>

------------------------------------------------------------------------------
Operation(h) ==
  \/ Setup(h) \/ Clear(h) \/ Realloc(h)
  \/ Compress(h) \/ GetResult(h) \/ Decompress(h)
  \/ StartDownload(h) \/ Finish(h)

\* The thread of the application searches, or works with its handles.
HandlesNext ==
  \/ (search = <<>> /\ (\E h \in Handles : Operation(h)) /\ UNCHANGED kind)
  \/ (Next /\ UNCHANGED mine)

\* Nothing obliges the application to do anything.
HandlesSpec == HandlesInit /\ [][HandlesNext]_vars

------------------------------------------------------------------------------
(* Properties *)

HandleInfo == [name : Nat, capabilities : SUBSET Capabilities]

\* Every variable has its type.
TypeOK ==
  /\ kind \in Kinds
  /\ plugins \in Seq(Files) /\ search \in Seq(Files)
  /\ handle \in [Handles -> [plugin : Files \cup {NoPlugin}, instance : 0 .. made, info : HandleInfo]]
  /\ made \in 0 .. MaxInstances /\ DOMAIN live \subseteq 1 .. made
  /\ \A i \in DOMAIN live :
       live[i] \in [plugin : Files, name : Nat, run : 0 .. MaxRuns, pending : BOOLEAN]
  /\ result \in [compressor : Nat, instance : 0 .. made, run : 0 .. MaxRuns,
                 plugin : Files \cup {NoPlugin}]
  /\ owed \subseteq Handles

\* Each instance that exists belongs to exactly one handle, which holds the
\* plugin that made it and the name it was made for: whatever fails on the way,
\* no instance is lost, deleted twice, shared, or used with another plugin.
Owned ==
  /\ \A h \in Handles : handle[h].instance # 0 =>
       /\ handle[h].instance \in DOMAIN live
       /\ live[handle[h].instance].plugin = handle[h].plugin
       /\ live[handle[h].instance].name = handle[h].info.name
  /\ \A i \in DOMAIN live : \E h \in Handles : handle[h].instance = i
  /\ \A g, h \in Handles : (g # h /\ handle[g].instance # 0) =>
       handle[g].instance # handle[h].instance

\* Data is only ever decompressed by the plugin, and for the engine, that has
\* compressed it, although both were found by name, at different times, in a
\* registry that has loaded more plugins in between.
SameImplementation ==
  restored # <<>> =>
    /\ restored[1].plugin = restored[1].result.plugin
    /\ restored[1].name = restored[1].result.compressor

\* The last call said whether the handle can be used for the engine of that
\* name. It is then good, an uploader for the contexts its engine works with:
\* its setup() is given none.
SetupTold(h) ==
  LET last == returned[1]
  IN /\ last.ok <=> Uses(h, last.name)
     /\ IsGood(h) <=> (last.ok /\ (kind[h] = "uploader" => last.name \in Compatible))

\* "@return true on success, false otherwise": what setup() and realloc() return
\* is true of the handle for as long as no other of them is called, whatever
\* failed, in this call or in those before it.
TrueOnSuccess ==
  (returned # <<>> /\ returned[1].name > NONE /\ kind[returned[1].handle] # "downloader") =>
    SetupTold(returned[1].handle)

\* The same promise of Downloader::setup().
DownloaderTrueOnSuccess ==
  (returned # <<>> /\ returned[1].name > NONE /\ kind[returned[1].handle] = "downloader") =>
    SetupTold(returned[1].handle)

\* finish() finds the download that start() began, on the instance that began
\* it, and no instance holds a download that nobody is going to finish.
FinishFindsDownload ==
  /\ \A h \in owed : /\ handle[h].plugin # NoPlugin /\ Async(h)
                     /\ handle[h].instance \in DOMAIN live
                     /\ live[handle[h].instance].pending
  /\ \A i \in DOMAIN live :
       live[i].pending => \E h \in owed : handle[h].instance = i
================================================================================
