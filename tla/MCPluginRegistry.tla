---------------------------- MODULE MCPluginRegistry ----------------------------
(* A handful of libraries for TLC: one found in two places, one that shares a  *)
(* name with another, one with transfer engines, and three that are refused.   *)
EXTENDS PluginRegistry

\* An engine with the given rating; ignoring alpha improves it by one.
Engine(name, tokenType, output, quality, capabilities, rating, ratio, speed) ==
  [name |-> name, tokenType |-> tokenType, outputTokenType |-> output, quality |-> quality,
   capabilities |-> capabilities, ratingAlpha |-> rating,
   ratingNoAlpha |-> IF "IGNORE_ALPHA" \in capabilities THEN rating + 1 ELSE rating,
   ratio |-> ratio, speed |-> speed]

CpuEngines ==
  <<Engine(2, 1, 1, 2, {"IGNORE_ALPHA"}, 12, 4, 5), Engine(3, 1, 1, 1, {}, 13, 3, 5)>>

TheLibrary ==
  [base   |-> [entries |-> {"base", "cpu"}, infos |-> CpuEngines],
   copy   |-> [entries |-> {"base", "cpu"}, infos |-> CpuEngines],
   clash  |-> [entries |-> {"base", "cpu", "gpu"},
               infos |-> <<Engine(4, 2, 2, 2, {}, 9, 6, 9), Engine(3, 1, 1, 2, {}, 14, 2, 7)>>],
   gpu    |-> [entries |-> {"base", "gpu", "async"},
               infos |-> <<Engine(5, 1, 2, 2, {"TRANSFER"}, 20, 4, 3),
                           Engine(6, 1, 2, 1, {"TRANSFER", "USE_ASYNC_DOWNLOAD"}, 20, 4, 8)>>],
   gpu2   |-> [entries |-> {"base", "cpu", "gpu"},
               infos |-> <<Engine(7, 1, 2, 2, {"TRANSFER"}, 20, 2, 6)>>],
   async  |-> [entries |-> {"base", "gpu"},
               infos |-> <<Engine(8, 1, 1, 2, {"USE_ASYNC_DOWNLOAD"}, 30, 1, 9)>>],
   nobase |-> [entries |-> {"cpu"}, infos |-> CpuEngines],
   empty  |-> [entries |-> {"base", "cpu"}, infos |-> <<>>]]

TheFiles == DOMAIN TheLibrary
TheSearches == {<<>>, <<"base", "copy">>, <<"nobase", "clash", "base">>}
TheDirectories == {<<"copy", "gpu">>, <<"async", "gpu2", "gpu">>, <<"empty">>}
================================================================================
