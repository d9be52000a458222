----------------------------- MODULE PluginRegistry -----------------------------
(****************************************************************************)
(* The registry of plugin libraries: which of the files that a search comes  *)
(* across are kept, which plugin a name resolves to, and which engine is the *)
(* best for a request.                                                       *)
(*                                                                           *)
(* The registry is a list that only grows.  The same library may lie in      *)
(* several directories, and any application may load more files at any time. *)
(****************************************************************************)
EXTENDS Integers, Sequences, SequencesExt

CONSTANTS
  Files,       \* the files a search may come across
  NoPlugin,    \* the null pointer
  Library,     \* what each file holds
  Searches,    \* the lists of files the constructor of the registry may try
  Directories  \* the lists of files loadDirectory() may find

\* Reserved names, of which EQ_COMPRESSOR_NONE is the larger one.
INVALID == 0
NONE    == 1

Capabilities == {"TRANSFER", "IGNORE_ALPHA", "USE_ASYNC_DOWNLOAD"}
EntryPoints  == {"base", "cpu", "gpu", "async"}

\* The information on an engine.  Ratings are whole numbers in which
\* UnitRating is the rating 1.0 of an engine that does nothing.
UnitRating == 10
Info == [name : Nat, tokenType : Nat, outputTokenType : Nat, quality : Nat,
         capabilities : SUBSET Capabilities, ratingAlpha : Nat, ratingNoAlpha : Nat,
         ratio : Nat, speed : Nat]

ASSUME RegistryAssumption ==
  /\ NoPlugin \notin Files
  /\ \A f \in Files : /\ Library[f].entries \subseteq EntryPoints
                      /\ Library[f].infos \in Seq(Info)
                      /\ \A i \in DOMAIN Library[f].infos : Library[f].infos[i].name > NONE
  /\ Searches \subseteq Seq(Files) /\ Directories \subseteq Seq(Files)

VARIABLES
  plugins,  \* the loaded files, in the order they were loaded
  search    \* the files a running search has yet to try

------------------------------------------------------------------------------
(* Plugin *)

Infos(f) == Library[f].infos

\* The constructor keeps the engines of a library with all entry points only.
\* A file that is no library has none.
PluginIsGood(f) ==
  /\ "base" \in Library[f].entries
  /\ "cpu" \in Library[f].entries \/ "gpu" \in Library[f].entries
  /\ Infos(f) # <<>>
  /\ \A i \in DOMAIN Infos(f) :
       "USE_ASYNC_DOWNLOAD" \in Infos(f)[i].capabilities => "async" \in Library[f].entries

Implements(f, name) == \E i \in DOMAIN Infos(f) : Infos(f)[i].name = name

\* findInfo(), for a name the plugin implements.
FindInfo(f, name) == Infos(f)[SelectInSeq(Infos(f), LAMBDA info : info.name = name)]

------------------------------------------------------------------------------
(* Loading *)

SameLibrary(f, g) == Infos(f)[1].name = Infos(g)[1].name

\* Mutants of Loaded: the new plugin goes first, a library is compared with the
\* last plugin only, and a library that could not be used leaves a null pointer.
LoadedFirst(list, f) ==
  IF PluginIsGood(f) /\ \A i \in DOMAIN list : ~SameLibrary(f, list[i]) THEN <<f>> \o list ELSE list
LoadedUnlessLast(list, f) ==
  IF PluginIsGood(f) /\ (list # <<>> => ~SameLibrary(f, Last(list))) THEN Append(list, f) ELSE list
LoadedNull(list, f) ==
  IF ~PluginIsGood(f) THEN Append(list, "")
  ELSE IF \A i \in DOMAIN list : ~SameLibrary(f, list[i]) THEN Append(list, f) ELSE list

\* loadFile(): a library whose first engine is already there is dropped.
Loaded(list, f) ==
  IF PluginIsGood(f) /\ \A i \in DOMAIN list : ~SameLibrary(f, list[i]) THEN Append(list, f) ELSE list

\* getInstance() searches the default places before it returns.
Init == plugins = <<>> /\ search \in Searches

\* loadFile() as the application calls it.
LoadFile ==
  /\ search = <<>>
  /\ \E f \in Files : plugins' = Loaded(plugins, f)
  /\ UNCHANGED search

LoadDirectory ==
  /\ search = <<>> /\ search' \in Directories
  /\ UNCHANGED plugins

\* Mutant of LoadNext: the first file that is not loaded ends the search.
LoadNextOrStop ==
  /\ search # <<>>
  /\ plugins' = Loaded(plugins, Head(search))
  /\ search' = IF plugins' = plugins THEN <<>> ELSE Tail(search)

\* One iteration of the loop over the files of a search.
LoadNext ==
  /\ search # <<>>
  /\ plugins' = Loaded(plugins, Head(search))
  /\ search' = Tail(search)

Next == LoadFile \/ LoadDirectory \/ LoadNext

\* A search goes through all its files.
Spec == Init /\ [][Next]_<<plugins, search>> /\ WF_<<plugins, search>>(LoadNext)

------------------------------------------------------------------------------
(* Finding *)

\* findPlugin(): the Finder stops the traversal at the first engine of that name.
FindPlugin(name) ==
  IF \E i \in DOMAIN plugins : Implements(plugins[i], name)
  THEN plugins[SelectInSeq(plugins, LAMBDA f : Implements(f, name))]
  ELSE NoPlugin

\* All engines, in the order a visitor comes to them.
Engines(list) == FlattenSeq([i \in DOMAIN list |-> Infos(list[i])])

\* The request of a compressor.
Acceptable(info, tokenType, minQuality) ==
  info.tokenType = tokenType /\ info.quality >= minQuality /\ "TRANSFER" \notin info.capabilities

Rating(info, ignoreAlpha) == IF ignoreAlpha THEN info.ratingNoAlpha ELSE info.ratingAlpha

\* Mutant of Choose: transfer engines are not skipped.
ChooseAny(list, tokenType, minQuality, ignoreAlpha) ==
  FoldLeft(LAMBDA best, info :
             IF /\ info.tokenType = tokenType /\ info.quality >= minQuality
                /\ Rating(info, ignoreAlpha) > best.rating
             THEN [name |-> info.name, rating |-> Rating(info, ignoreAlpha)] ELSE best,
           [name |-> NONE, rating |-> UnitRating], Engines(list)).name

\* Compressor::choose(): the loop over all engines with its candidate.
Choose(list, tokenType, minQuality, ignoreAlpha) ==
  FoldLeft(LAMBDA best, info :
             IF /\ Acceptable(info, tokenType, minQuality)
                /\ Rating(info, ignoreAlpha) > best.rating
             THEN [name |-> info.name, rating |-> Rating(info, ignoreAlpha)] ELSE best,
           [name |-> NONE, rating |-> UnitRating], Engines(list)).name

\* What the Finder of a downloader accepts; the context decides compatibility.
Downloads(info, format, minQuality, ignoreAlpha, capabilities, compatible) ==
  /\ capabilities \subseteq info.capabilities
  /\ info.tokenType = format /\ info.quality >= minQuality
  /\ ignoreAlpha \/ "IGNORE_ALPHA" \notin info.capabilities
  /\ info.name \in compatible

\* An engine replaces the current one of the Finder.  An empty current engine
\* has the largest ratio.
Smaller(info, best) ==
  \/ best = <<>>
  \/ info.ratio < best[1].ratio
  \/ info.ratio = best[1].ratio /\ info.speed > best[1].speed

\* Downloader::choose().
ChooseDownloader(list, format, minQuality, ignoreAlpha, capabilities, compatible) ==
  LET best == FoldLeft(LAMBDA b, info :
                IF /\ Downloads(info, format, minQuality, ignoreAlpha, capabilities, compatible)
                   /\ Smaller(info, b)
                THEN <<info>> ELSE b, <<>>, Engines(list))
  IN IF best = <<>> THEN NONE ELSE best[1].name

\* What the Finder of an uploader accepts.
Uploads(info, external, internal, capabilities, compatible) ==
  /\ capabilities \subseteq info.capabilities
  /\ info.outputTokenType = external /\ info.tokenType = internal
  /\ info.name \in compatible

\* Uploader::choose().
ChooseUploader(list, external, internal, capabilities, compatible) ==
  FoldLeft(LAMBDA best, info :
             IF /\ Uploads(info, external, internal, capabilities, compatible)
                /\ info.speed > best.speed
             THEN [name |-> info.name, speed |-> info.speed] ELSE best,
           [name |-> NONE, speed |-> 0], Engines(list)).name

------------------------------------------------------------------------------
(* Properties *)

\* The list holds usable libraries, no two with the same first engine; in
\* particular a library found in two places is loaded once.
PluginsDistinct ==
  /\ plugins \in Seq(Files)
  /\ \A i \in DOMAIN plugins : PluginIsGood(plugins[i])
  /\ \A i, j \in DOMAIN plugins : SameLibrary(plugins[i], plugins[j]) => i = j

Names == UNION {{Infos(f)[i].name : i \in DOMAIN Infos(f)} : f \in Files}

\* A name once found resolves to the same plugin for ever, whatever is loaded
\* later: handles keep their plugin, so two handles that were set up for one
\* name before and after a load talk to the same implementation.
FindStable ==
  [][\A name \in Names :
       FindPlugin(name) # NoPlugin => FindPlugin(name)' = FindPlugin(name)]_<<plugins, search>>

\* Every search ends, with each usable library it was to try loaded or present.
SearchLoads ==
  \A f \in {g \in Files : PluginIsGood(g)} :
    (\E i \in DOMAIN search : search[i] = f) ~>
      \E i \in DOMAIN plugins : SameLibrary(f, plugins[i])

TokenTypes == UNION {{Infos(f)[i].tokenType : i \in DOMAIN Infos(f)} : f \in Files}
Qualities  == UNION {{Infos(f)[i].quality : i \in DOMAIN Infos(f)} : f \in Files}

\* The compressor chosen is the best of all acceptable engines of all plugins,
\* and nothing is chosen only if none of them is worth its time.
BestCompressor ==
  \A t \in TokenTypes, q \in Qualities, a \in BOOLEAN :
    LET name == Choose(plugins, t, q, a)
        good == {i \in DOMAIN Engines(plugins) : Acceptable(Engines(plugins)[i], t, q)}
        best == {i \in good : \A j \in good :
                   Rating(Engines(plugins)[i], a) >= Rating(Engines(plugins)[j], a)}
        worth == {i \in best : Rating(Engines(plugins)[i], a) > UnitRating}
    IN IF worth = {} THEN name = NONE
       ELSE \E i \in worth : name = Engines(plugins)[i].name

\* Applications ask for transfer engines when they look for one.
TransferRequests == {c \in SUBSET Capabilities : "TRANSFER" \in c}

\* One engine is at least as good as the other in size and speed, and better in
\* one of them.
Beats(it, other) ==
  /\ it.ratio <= other.ratio /\ it.speed >= other.speed
  /\ it.ratio < other.ratio \/ it.speed > other.speed

\* The header promises the downloader of the highest speed, the code looks for
\* the smallest output first.  Both mean: no engine that is compatible and
\* acceptable beats the one that is chosen.
UnbeatenDownloader ==
  \A t \in TokenTypes, q \in Qualities, a \in BOOLEAN, c \in TransferRequests,
     compatible \in {Names} \cup {{n} : n \in Names} :
    LET name == ChooseDownloader(plugins, t, q, a, c, compatible)
        good == {i \in DOMAIN Engines(plugins) :
                   Downloads(Engines(plugins)[i], t, q, a, c, compatible)}
    IN IF good = {} THEN name = NONE
       ELSE \E i \in good :
              /\ name = Engines(plugins)[i].name
              /\ \A j \in good : ~Beats(Engines(plugins)[j], Engines(plugins)[i])

\* The uploader chosen is the fastest that is compatible and converts between
\* the two formats; one that claims no speed at all is not chosen.
FastestUploader ==
  \A external, internal \in TokenTypes, c \in TransferRequests :
    LET name == ChooseUploader(plugins, external, internal, c, Names)
        good == {i \in DOMAIN Engines(plugins) :
                   /\ Uploads(Engines(plugins)[i], external, internal, c, Names)
                   /\ Engines(plugins)[i].speed > 0}
    IN IF good = {} THEN name = NONE
       ELSE \E i \in good : /\ name = Engines(plugins)[i].name
                            /\ \A j \in good : Engines(plugins)[i].speed >= Engines(plugins)[j].speed

\* Whatever is loaded, each of the three choose() functions finds an engine that
\* fits and none of all those that fit is better, and finds none only if none
\* is worth it.
ChooseBest ==
  search = <<>> => BestCompressor /\ UnbeatenDownloader /\ FastestUploader
================================================================================
