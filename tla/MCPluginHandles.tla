----------------------------- MODULE MCPluginHandles -----------------------------
(* Two plugins that both claim the name 3, the second one with transfer engines *)
(* too, and a library without functions, for TLC.  The handles are those of a   *)
(* sender and a receiver of data, or of a transfer to and from the GPU.         *)
EXTENDS PluginHandles

Engine(name, capabilities) ==
  [name |-> name, tokenType |-> 1, outputTokenType |-> 1, quality |-> 1,
   capabilities |-> capabilities, ratingAlpha |-> 12, ratingNoAlpha |-> 12,
   ratio |-> 1, speed |-> 1]

TheLibrary ==
  [first  |-> [entries |-> {"base", "cpu"}, infos |-> <<Engine(2, {}), Engine(3, {})>>],
   second |-> [entries |-> EntryPoints,
               infos |-> <<Engine(4, {"TRANSFER", "USE_ASYNC_DOWNLOAD"}),
                           Engine(5, {"TRANSFER"}), Engine(3, {})>>],
   broken |-> [entries |-> {"base"}, infos |-> <<>>]]

TheFiles == DOMAIN TheLibrary
TheSearches == {<<>>, <<"first">>}
TheDirectories == {<<"second">>}

\* The ends of a transfer of data, or of one from and to a GPU.
TheKinds == {[one |-> "compressor", two |-> "decompressor"],
             [one |-> "downloader", two |-> "uploader"]}
GpuKinds == {[one |-> "downloader", two |-> "uploader"]}

TheRequests ==
  [compressor |-> {NONE, 2, 3}, decompressor |-> {NONE, 2, 3},
   downloader |-> {NONE, 4, 5}, uploader |-> {NONE, 4, 5}]
================================================================================
