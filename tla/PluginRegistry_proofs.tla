-------------------------- MODULE PluginRegistry_proofs --------------------------
(****************************************************************************)
(* Proofs about PluginRegistry, for any files, libraries and searches: the   *)
(* list of plugins holds usable libraries once, and only grows at its end,   *)
(* so that the first plugin of a name stays the first; and what the three    *)
(* choose() functions find is the best.                                      *)
(****************************************************************************)
EXTENDS PluginRegistry, SequenceTheorems, WellFoundedInduction, TLAPS

\* A set of natural numbers that is not empty has a least one.
LEMMA Least ==
  ASSUME NEW S \in SUBSET Nat, S # {}
  PROVE  Min(S) \in S /\ \A i \in S : Min(S) <= i
<1> DEFINE R == {ss \in Nat \X Nat : ss[1] < ss[2]}
<1>1. IsWellFoundedOn(R, Nat)
  BY NatLessThanWellFounded, Zenon DEF OpToRel
<1> HIDE DEF R
<1>2. PICK x \in S : \A y \in S : ~(<<y, x>> \in R)
  BY <1>1, WFMin
<1>3. ASSUME NEW y \in S PROVE x <= y
  <2>1. <<y, x>> \in Nat \X Nat /\ <<y, x>>[1] = y /\ <<y, x>>[2] = x
    OBVIOUS
  <2>2. ~(y < x)
    BY <1>2, <2>1 DEF R
  <2> QED BY <2>2
<1> QED BY <1>3 DEF Min

\* The list after a load: the same, or one usable library more that is not in it.
LEMMA LoadedList ==
  ASSUME NEW list \in Seq(Files), NEW f \in Files
  PROVE  \/ Loaded(list, f) = list
         \/ /\ Loaded(list, f) = Append(list, f)
            /\ PluginIsGood(f) /\ \A i \in DOMAIN list : ~SameLibrary(f, list[i])
BY DEF Loaded

\* The search stays a list of files, and a load appends at most one.
LEMMA StepAppends ==
  ASSUME plugins \in Seq(Files), search \in Seq(Files), Next
  PROVE  /\ search' \in Seq(Files)
         /\ \/ plugins' = plugins
            \/ \E f \in Files : /\ plugins' = Append(plugins, f)
                                /\ PluginIsGood(f)
                                /\ \A i \in DOMAIN plugins : ~SameLibrary(f, plugins[i])
<1>1. CASE LoadFile
  BY <1>1, LoadedList DEF LoadFile
<1>2. CASE LoadDirectory
  BY <1>2, RegistryAssumption DEF LoadDirectory
<1>3. CASE LoadNext
  <2>1. Head(search) \in Files /\ Tail(search) \in Seq(Files)
    BY <1>3, HeadTailProperties DEF LoadNext
  <2> QED BY <1>3, <2>1, LoadedList DEF LoadNext
<1> QED BY <1>1, <1>2, <1>3 DEF Next

\* The invariant: the search is a list of files, the plugins are distinct.
IInv == search \in Seq(Files) /\ PluginsDistinct

\* The plugins stay distinct when one is appended that is not in the list.
LEMMA AppendDistinct ==
  ASSUME PluginsDistinct, NEW f \in Files, plugins' = Append(plugins, f), PluginIsGood(f),
         \A i \in DOMAIN plugins : ~SameLibrary(f, plugins[i])
  PROVE  PluginsDistinct'
<1>1. /\ plugins \in Seq(Files) /\ plugins' \in Seq(Files)
      /\ Len(plugins') = Len(plugins) + 1
      /\ \A i \in 1 .. Len(plugins) : plugins'[i] = plugins[i]
      /\ plugins'[Len(plugins) + 1] = f
  BY AppendProperties DEF PluginsDistinct
<1>2. DOMAIN plugins = 1 .. Len(plugins) /\ DOMAIN plugins' = 1 .. Len(plugins) + 1 /\ Len(plugins) \in Nat
  BY <1>1
<1>3. ASSUME NEW i \in DOMAIN plugins' PROVE PluginIsGood(plugins'[i])
  <2>1. CASE i \in DOMAIN plugins
    BY <1>1, <1>2, <2>1 DEF PluginsDistinct
  <2>2. CASE i = Len(plugins) + 1
    BY <1>1, <2>2
  <2> QED BY <1>2, <2>1, <2>2
<1>4. ASSUME NEW i \in DOMAIN plugins', NEW j \in DOMAIN plugins',
             SameLibrary(plugins'[i], plugins'[j])
      PROVE  i = j
  <2>1. CASE i \in DOMAIN plugins /\ j \in DOMAIN plugins
    BY <1>1, <1>2, <1>4, <2>1 DEF PluginsDistinct
  <2>2. CASE i \in DOMAIN plugins /\ j = Len(plugins) + 1
    <3>1. SameLibrary(f, plugins[i])
      BY <1>1, <1>2, <1>4, <2>2 DEF SameLibrary
    <3> QED BY <2>2, <3>1
  <2>3. CASE i = Len(plugins) + 1 /\ j \in DOMAIN plugins
    BY <1>1, <1>2, <1>4, <2>3
  <2>4. CASE i = Len(plugins) + 1 /\ j = Len(plugins) + 1
    BY <2>4
  <2> QED BY <1>2, <2>1, <2>2, <2>3, <2>4
<1> QED BY <1>1, <1>3, <1>4 DEF PluginsDistinct

\* A step of the registry preserves the invariant.
LEMMA StepKeeps ==
  ASSUME IInv, Next
  PROVE  IInv'
<1>1. plugins \in Seq(Files) /\ search \in Seq(Files)
  BY DEF IInv, PluginsDistinct
<1>2. CASE plugins' = plugins
  BY <1>1, <1>2, StepAppends DEF IInv, PluginsDistinct
<1>3. CASE plugins' # plugins
  BY <1>1, <1>3, StepAppends, AppendDistinct DEF IInv
<1> QED BY <1>2, <1>3

\* The invariant holds.
THEOREM Inductive == Spec => []IInv
<1>1. Init => IInv
  BY RegistryAssumption DEF Init, IInv, PluginsDistinct
<1>2. IInv /\ [Next]_<<plugins, search>> => IInv'
  <2> SUFFICES ASSUME IInv, [Next]_<<plugins, search>> PROVE IInv'
    OBVIOUS
  <2>1. CASE UNCHANGED <<plugins, search>>
    BY <2>1 DEF IInv, PluginsDistinct
  <2> QED BY <2>1, StepKeeps
<1> QED BY <1>1, <1>2, PTL DEF Spec

\* Whatever is loaded in whatever order, a library that was found twice is
\* loaded once.
THEOREM Distinct == Spec => []PluginsDistinct
<1>1. IInv => PluginsDistinct
  BY DEF IInv
<1> QED BY <1>1, Inductive, PTL

\* The places of a list at which a name is found.
Places(list, name) == {i \in 1 .. Len(list) : Implements(list[i], name)}

\* The first place does not change when a library is appended.
LEMMA FirstPlace ==
  ASSUME NEW list \in Seq(Files), NEW f \in Files, NEW name, Places(list, name) # {}
  PROVE  /\ Places(Append(list, f), name) # {}
         /\ Min(Places(Append(list, f), name)) = Min(Places(list, name))
         /\ Append(list, f)[Min(Places(list, name))] = list[Min(Places(list, name))]
<1> DEFINE I == Places(list, name)
           J == Places(Append(list, f), name)
<1>1. I \in SUBSET Nat /\ J \in SUBSET Nat
  BY DEF Places
<1>2. /\ Append(list, f) \in Seq(Files) /\ Len(Append(list, f)) = Len(list) + 1 /\ Len(list) \in Nat
      /\ \A i \in 1 .. Len(list) : Append(list, f)[i] = list[i]
  BY AppendProperties
<1>3. \A i \in J : i \in I \/ i = Len(list) + 1
  BY <1>2 DEF Places
<1>4. \A i \in I : i \in J /\ i <= Len(list)
  BY <1>2 DEF Places
<1>5. Min(I) \in I /\ \A i \in I : Min(I) <= i
  BY <1>1, Least
<1>6. Min(I) \in 1 .. Len(list)
  BY <1>5 DEF Places
<1> HIDE DEF I, J
<1>7. Min(J) \in J /\ \A i \in J : Min(J) <= i
  BY <1>1, <1>4, <1>5, Least
<1>8. Min(J) = Min(I)
  <2> DEFINE i == Min(I)
             j == Min(J)
  <2>1. i \in Nat /\ j \in Nat /\ Len(list) \in Nat
    BY <1>1, <1>2, <1>5, <1>7
  <2>2. i <= Len(list) /\ j <= i /\ (j \in I => i <= j) /\ (j \in I \/ j = Len(list) + 1)
    BY <1>3, <1>4, <1>5, <1>7
  <2> HIDE DEF i, j
  <2>3. i = j
    BY <2>1, <2>2
  <2> QED BY <2>3 DEF i, j
<1> QED BY <1>2, <1>4, <1>5, <1>6, <1>8 DEF I, J

\* findPlugin() by the first place, in this state and in the next.
LEMMA FirstFound ==
  ASSUME plugins \in Seq(Files), plugins' \in Seq(Files), NEW name
  PROVE  /\ FindPlugin(name) = IF Places(plugins, name) # {}
                               THEN plugins[Min(Places(plugins, name))] ELSE NoPlugin
         /\ FindPlugin(name)' = IF Places(plugins', name) # {}
                                THEN plugins'[Min(Places(plugins', name))] ELSE NoPlugin
<1>1. /\ (\E i \in DOMAIN plugins : Implements(plugins[i], name)) <=> Places(plugins, name) # {}
      /\ (\E i \in DOMAIN plugins' : Implements(plugins'[i], name)) <=> Places(plugins', name) # {}
  BY DEF Places
<1>2. /\ FindPlugin(name) = IF \E i \in DOMAIN plugins : Implements(plugins[i], name)
                            THEN plugins[IF Places(plugins, name) # {}
                                         THEN Min(Places(plugins, name)) ELSE 0] ELSE NoPlugin
      /\ FindPlugin(name)' = IF \E i \in DOMAIN plugins' : Implements(plugins'[i], name)
                            THEN plugins'[IF Places(plugins', name) # {}
                                          THEN Min(Places(plugins', name)) ELSE 0] ELSE NoPlugin
  BY Zenon DEF FindPlugin, SelectInSeq, Places
<1> QED BY <1>1, <1>2

\* A step of the registry leaves a name that is found with its plugin.
LEMMA StaysFound ==
  ASSUME IInv, Next, NEW name, FindPlugin(name) # NoPlugin
  PROVE  FindPlugin(name)' = FindPlugin(name)
<1>1. plugins \in Seq(Files) /\ search \in Seq(Files)
  BY DEF IInv, PluginsDistinct
<1>2. CASE plugins' = plugins
  BY <1>1, <1>2, FirstFound
<1>3. CASE plugins' # plugins
  <2>1. PICK f \in Files : plugins' = Append(plugins, f)
    BY <1>1, <1>3, StepAppends
  <2>2. plugins' \in Seq(Files)
    BY <1>1, <2>1
  <2>3. /\ FindPlugin(name) = IF Places(plugins, name) # {}
                              THEN plugins[Min(Places(plugins, name))] ELSE NoPlugin
        /\ FindPlugin(name)' = IF Places(plugins', name) # {}
                               THEN plugins'[Min(Places(plugins', name))] ELSE NoPlugin
    BY <1>1, <2>2, FirstFound
  <2>4. Places(plugins, name) # {}
    BY <2>3
  <2>5. /\ Places(plugins', name) # {}
        /\ Min(Places(plugins', name)) = Min(Places(plugins, name))
        /\ plugins'[Min(Places(plugins, name))] = plugins[Min(Places(plugins, name))]
    BY <1>1, <2>1, <2>4, FirstPlace
  <2> QED BY <2>3, <2>4, <2>5
<1> QED BY <1>2, <1>3

\* A name that was found is found in the same plugin for ever.
THEOREM Stable == Spec => FindStable
<1>1. IInv /\ [Next]_<<plugins, search>> =>
        [\A name \in Names :
           FindPlugin(name) # NoPlugin => FindPlugin(name)' = FindPlugin(name)]_<<plugins, search>>
  BY StaysFound
<1> QED BY <1>1, Inductive, PTL DEF Spec, FindStable

------------------------------------------------------------------------------
(* The loops over all engines *)

\* The largest of the first places.
LEMMA LastPlace ==
  ASSUME NEW n \in Nat, NEW S \in SUBSET (1 .. n + 1), n + 1 \in S
  PROVE  Max(S) = n + 1
<1>1. \A x \in S : n + 1 >= x
  OBVIOUS
<1>2. \E x \in S : \A y \in S : x >= y
  BY <1>1
<1>3. Max(S) \in S /\ \A y \in S : Max(S) >= y
  BY <1>2 DEF Max
<1>4. Max(S) >= n + 1 /\ Max(S) \in 1 .. n + 1
  BY <1>3
<1> DEFINE m == Max(S)
<1> HIDE DEF m
<1>5. m >= n + 1 /\ m \in 1 .. n + 1
  BY <1>4 DEF m
<1>6. m = n + 1
  BY <1>5
<1> QED
  BY <1>6 DEF m

\* A set of the first places has a largest one.
LEMMA LastOne ==
  ASSUME NEW l \in Nat, NEW S \in SUBSET (1 .. l), S # {}
  PROVE  Max(S) \in S
<1> DEFINE R == {l - i : i \in S}
<1>1. R \in SUBSET Nat /\ R # {}
  <2>1. ASSUME NEW i \in S PROVE l - i \in Nat
    <3>1. i \in 1 .. l
      OBVIOUS
    <3> QED
      BY <3>1
  <2> QED
    BY <2>1
<1>2. Min(R) \in R /\ \A i \in R : Min(R) <= i
  BY <1>1, Least
<1>3. PICK x \in S : \A i \in R : l - x <= i
  BY <1>2
<1>4. ASSUME NEW y \in S PROVE x >= y
  <2>1. l - x <= l - y
    BY <1>3
  <2>2. x \in Int /\ y \in Int
    OBVIOUS
  <2> QED
    BY <2>1, <2>2
<1>5. \E x1 \in S : \A y \in S : x1 >= y
  BY <1>4
<1> QED
  BY <1>5 DEF Max

\* What a loop from base over the elements of a list has found, for each set of
\* its places, when op is done with an element.
LoopOver(op, base, list, D, A, found) ==
  /\ found \in [SUBSET D -> A]
  /\ \A S \in SUBSET D :
       found[S] = IF S = {} THEN base ELSE op[<<found[S \ {Max(S)}], list[Max(S)]>>]

\* There is such a function for the first n places of the list.
LEMMA LoopExists ==
  ASSUME NEW A, NEW B, NEW op \in [A \X B -> A], NEW base \in A, NEW list \in Seq(B)
  PROVE  \E found : LoopOver(op, base, list, 1 .. Len(list), A, found)
<1> DEFINE missing == {n \in 0 .. Len(list) : ~ \E found : LoopOver(op, base, list, 1 .. n, A, found)}
           l == Len(list)
<1>1. l \in Nat /\ missing \in SUBSET Nat
  OBVIOUS
<1>2. 0 \notin missing
  <2> DEFINE found == [S \in SUBSET (1 .. 0) |-> base]
  <2>1. SUBSET (1 .. 0) = {{}}
    OBVIOUS
  <2>2. LoopOver(op, base, list, 1 .. 0, A, found)
    BY <2>1 DEF LoopOver
  <2> QED
    BY <2>2
<1>3. missing = {}
  <2> SUFFICES ASSUME missing # {} PROVE FALSE
    OBVIOUS
  <2> DEFINE m == Min(missing)
  <2>1. m \in missing /\ \A n \in missing : m <= n
    BY <1>1, Least
  <2>2. m \in 0 .. l /\ m # 0
    BY <1>2, <2>1
  <2> HIDE DEF m, l
  <2>3. PICK k \in Nat : m = k + 1 /\ k + 1 <= l
    <3>1. m - 1 \in Nat /\ m = (m - 1) + 1
      BY <2>2
    <3> QED
      BY <1>1, <2>2, <3>1
  <2>4. k \in 0 .. l /\ ~(m <= k)
    BY <1>1, <2>3
  <2>5. PICK found : LoopOver(op, base, list, 1 .. k, A, found)
    BY <2>1, <2>4 DEF l
  <2> DEFINE D == 1 .. k
             E == 1 .. k + 1
             more == [S \in SUBSET E |->
                        IF k + 1 \in S THEN op[<<found[S \ {k + 1}], list[k + 1]>>] ELSE found[S]]
  <2>6. /\ found \in [SUBSET D -> A]
        /\ \A S \in SUBSET D :
             found[S] = IF S = {} THEN base ELSE op[<<found[S \ {Max(S)}], list[Max(S)]>>]
    BY <2>5 DEF LoopOver
  <2>7. list[k + 1] \in B
    <3>1. k + 1 \in 1 .. Len(list)
      BY <1>1, <2>3 DEF l
    <3> QED
      BY <3>1, ElementOfSeq
  <2>8. ASSUME NEW S \in SUBSET E
        PROVE  /\ more[S] \in A
               /\ more[S] = IF S = {} THEN base ELSE op[<<more[S \ {Max(S)}], list[Max(S)]>>]
    <3>0. ASSUME NEW x \in E, x # k + 1 PROVE x \in D
      BY <3>0
    <3>1. CASE k + 1 \in S
      <4>1. Max(S) = k + 1
        BY <3>1, LastPlace
      <4>2. S # {} /\ S \ {k + 1} \in SUBSET E /\ k + 1 \notin S \ {k + 1} /\ S \ {k + 1} \in SUBSET D
        BY <3>0, <3>1
      <4>3. more[S] = op[<<found[S \ {k + 1}], list[k + 1]>>]
        BY <3>1
      <4>4. more[S \ {k + 1}] = found[S \ {k + 1}]
        BY <4>2
      <4> HIDE DEF more, D, E
      <4>5. found[S \ {k + 1}] \in A
        BY <2>6, <4>2
      <4>6. more[S] \in A
        BY <2>7, <4>3, <4>5
      <4> QED
        BY <4>1, <4>2, <4>3, <4>4, <4>6
    <3>2. CASE k + 1 \notin S
      <4> DEFINE last == Max(S)
      <4>1. S \in SUBSET D
        BY <3>0, <3>2
      <4> HIDE DEF last
      <4>2. S \ {last} \in SUBSET E /\ k + 1 \notin S \ {last}
        BY <3>2
      <4>3. more[S] = found[S] /\ more[S \ {last}] = found[S \ {last}]
        BY <3>2, <4>2
      <4> HIDE DEF more, D, E
      <4>4. found[S] \in A /\ found[S] = IF S = {} THEN base ELSE op[<<found[S \ {last}], list[last]>>]
        BY <2>6, <4>1 DEF last
      <4> QED
        BY <4>3, <4>4 DEF last
    <3> QED
      BY <3>1, <3>2
  <2>9. DOMAIN more = SUBSET E /\ more = [S \in SUBSET E |-> more[S]]
    OBVIOUS
  <2>10. LoopOver(op, base, list, E, A, more)
    <3> HIDE DEF more, E
    <3>1. more \in [SUBSET E -> A]
      BY <2>8, <2>9
    <3> QED
      BY <2>8, <3>1 DEF LoopOver
  <2> QED
    BY <2>1, <2>3, <2>10
<1>4. l \in 0 .. Len(list) /\ l \notin missing
  BY <1>1, <1>3
<1> QED
  BY <1>4

\* What holds before the first element and after each one holds at the end.
LEMMA Climb ==
  ASSUME NEW l \in Nat, NEW T, 0 \in T, \A n \in 0 .. l - 1 : n \in T => n + 1 \in T
  PROVE  l \in T
<1> DEFINE missing == {n \in 0 .. l : n \notin T}
<1> SUFFICES ASSUME missing # {} PROVE FALSE
  <2>1. l \in 0 .. l
    OBVIOUS
  <2> QED
    BY <2>1
<1> DEFINE m == Min(missing)
<1>1. m \in missing /\ \A n \in missing : m <= n
  <2>1. missing \in SUBSET Nat
    OBVIOUS
  <2> HIDE DEF missing
  <2> QED
    BY <2>1, Least
<1>2. m \in 0 .. l /\ m # 0 /\ m \notin T
  BY <1>1
<1> HIDE DEF m
<1>3. m - 1 \in 0 .. l - 1 /\ ~(m <= m - 1) /\ (m - 1) + 1 = m
  BY <1>2
<1>4. m - 1 \notin missing /\ m - 1 \in 0 .. l
  BY <1>1, <1>2, <1>3
<1>5. m - 1 \in T
  BY <1>4
<1> QED
  BY <1>2, <1>3, <1>5

\* The engines of a list of files.
LEMMA EnginesType ==
  ASSUME NEW list \in Seq(Files)
  PROVE  Engines(list) \in Seq(Info)
<1> DEFINE all == [i \in DOMAIN list |-> Infos(list[i])]
           l == Len(list)
<1>1. l \in Nat /\ DOMAIN list = 1 .. l
  OBVIOUS
<1>2. ASSUME NEW i \in 1 .. l PROVE all[i] = Infos(list[i]) /\ all[i] \in Seq(Info)
  <2>1. list[i] \in Files
    BY ElementOfSeq
  <2> QED
    BY <1>1, <2>1, RegistryAssumption DEF Infos
<1>3. all \in Seq(Seq(Info)) /\ Len(all) = l
  BY <1>1, <1>2
<1> HIDE DEF all
<1>4. CASE l = 0
  <2>1. all = <<>>
    BY <1>3, <1>4, EmptySeq
  <2> QED
    BY <1>3, <1>4, <2>1 DEF Engines, FlattenSeq, all
<1>5. CASE l # 0
  <2> DEFINE Flat(k, f) ==
               /\ f = [i \in 1 .. k |-> f[i]]
               /\ \A i \in 1 .. k : f[i] = IF i = 1 THEN all[i] ELSE f[i - 1] \o all[i]
             T == {k \in 0 .. l : \E f : Flat(k, f)}
  <2>1. 0 \in T
    <3>1. Flat(0, [i \in 1 .. 0 |-> <<>>])
      OBVIOUS
    <3>2. 0 \in 0 .. l
      BY <1>1
    <3> QED
      BY <3>1, <3>2
  <2>2. ASSUME NEW k \in 0 .. l - 1, k \in T PROVE k + 1 \in T
    <3>1. PICK f : Flat(k, f)
      BY <2>2
    <3> DEFINE g == [i \in 1 .. k + 1 |->
                       IF i = k + 1 THEN (IF i = 1 THEN all[i] ELSE f[i - 1] \o all[i]) ELSE f[i]]
    <3>2. ASSUME NEW i \in 1 .. k + 1
          PROVE  g[i] = IF i = 1 THEN all[i] ELSE g[i - 1] \o all[i]
      <4>1. CASE i = k + 1
        <5>1. g[i] = IF i = 1 THEN all[i] ELSE f[i - 1] \o all[i]
          BY <4>1
        <5>2. i # 1 => g[i - 1] = f[i - 1]
          <6>1. i # 1 => i - 1 \in 1 .. k + 1 /\ i - 1 # k + 1
            BY <4>1
          <6> QED
            BY <6>1
        <5> QED
          BY <5>1, <5>2
      <4>2. CASE i # k + 1
        <5>1. i \in 1 .. k /\ g[i] = f[i]
          BY <4>2
        <5>2. i # 1 => g[i - 1] = f[i - 1]
          <6>1. i # 1 => i - 1 \in 1 .. k + 1 /\ i - 1 # k + 1
            BY <5>1
          <6> QED
            BY <6>1
        <5>3. f[i] = IF i = 1 THEN all[i] ELSE f[i - 1] \o all[i]
          BY <3>1, <5>1
        <5> QED
          BY <5>1, <5>2, <5>3
      <4> QED
        BY <4>1, <4>2
    <3>3. Flat(k + 1, g)
      <4>1. g = [i \in 1 .. k + 1 |-> g[i]]
        OBVIOUS
      <4> HIDE DEF g
      <4> QED
        BY <3>2, <4>1
    <3>4. k + 1 \in 0 .. l
      BY <1>1
    <3> QED
      BY <3>3, <3>4
  <2>3. l \in T
    <3> HIDE DEF T
    <3> QED
      BY <1>1, <2>1, <2>2, Climb
  <2> DEFINE flatten == CHOOSE f : f = [i \in 1 .. l |-> IF i = 1 THEN all[i] ELSE f[i - 1] \o all[i]]
  <2>4. flatten = [i \in 1 .. l |-> IF i = 1 THEN all[i] ELSE flatten[i - 1] \o all[i]]
    <3>1. PICK f : Flat(l, f)
      BY <2>3
    <3>2. \E g : g = [i \in 1 .. l |-> IF i = 1 THEN all[i] ELSE g[i - 1] \o all[i]]
      <4> HIDE DEF l
      <4>1. f = [i \in 1 .. l |-> IF i = 1 THEN all[i] ELSE f[i - 1] \o all[i]]
        BY <3>1
      <4> QED
        BY <4>1
    <3> HIDE DEF l, Flat, T
    <3> QED
      BY <3>2, Zenon DEF flatten
  <2> HIDE DEF flatten
  <2>5. \A i \in 1 .. l : flatten[i] = IF i = 1 THEN all[i] ELSE flatten[i - 1] \o all[i]
    BY <2>4
  <2> DEFINE U == {k \in 0 .. l : k = 0 \/ flatten[k] \in Seq(Info)}
  <2>6. 0 \in U
    BY <1>1
  <2>7. ASSUME NEW k \in 0 .. l - 1, k \in U PROVE k + 1 \in U
    <3>1. k + 1 \in 1 .. l /\ k + 1 \in 0 .. l /\ (k + 1) - 1 = k
      BY <1>1
    <3>2. all[k + 1] \in Seq(Info)
      BY <1>2, <3>1
    <3>3. CASE k = 0
      <4>1. flatten[k + 1] = all[k + 1]
        BY <2>5, <3>1, <3>3
      <4> QED
        BY <3>1, <3>2, <4>1
    <3>4. CASE k # 0
      <4>1. flatten[k] \in Seq(Info)
        BY <2>7, <3>4
      <4>0. k + 1 # 1
        BY <3>4
      <4>2. flatten[k + 1] = flatten[k] \o all[k + 1]
        BY <2>5, <3>1, <4>0
      <4>3. flatten[k] \o all[k + 1] \in Seq(Info)
        BY <3>2, <4>1, ConcatProperties
      <4> QED
        BY <3>1, <4>2, <4>3
    <3> QED
      BY <3>3, <3>4
  <2>8. l \in U
    <3> HIDE DEF U
    <3> QED
      BY <1>1, <2>6, <2>7, Climb
  <2>9. flatten[l] \in Seq(Info)
    BY <1>5, <2>8
  <2>10. Engines(list) = flatten[l]
    BY <1>3, <1>5 DEF Engines, FlattenSeq, all, flatten
  <2> QED
    BY <2>9, <2>10
<1> QED
  BY <1>4, <1>5

\* In turn after turn an element that fits takes over if it is to replace what
\* was found before.
TurnAfter(take, fits, replaces, old, x) ==
  IF x \in fits /\ <<old, x>> \in replaces THEN take[x] ELSE old

\* Replacing is a matter of rank: nothing replaces itself, and what replaces
\* another replaces all that this one does, and is replaced by no more.
Ranked(B, take, replaces, base) ==
  /\ \A x \in B : <<take[x], x>> \notin replaces
  /\ \A old \in {base} \cup {take[w] : w \in B}, x, y \in B :
       <<old, x>> \in replaces /\ <<old, y>> \notin replaces => <<take[x], y>> \notin replaces
  /\ \A x, y \in B :
       <<base, x>> \in replaces /\ <<take[x], y>> \in replaces => <<base, y>> \in replaces

\* No element of the first n that fits is to replace what was found, which is
\* one of them, or still the base.
Wins(base, list, take, fits, replaces, n, best) ==
  /\ \A j \in 1 .. n : list[j] \in fits => <<best, list[j]>> \notin replaces
  /\ \/ best = base
     \/ \E i \in 1 .. n : list[i] \in fits /\ best = take[list[i]] /\ <<base, list[i]>> \in replaces

LEMMA TurnWins ==
  ASSUME NEW A, NEW B, NEW list \in Seq(B), NEW take \in [B -> A], NEW base \in A,
         NEW fits, NEW replaces, Ranked(B, take, replaces, base),
         NEW k \in Nat, k < Len(list), NEW best, Wins(base, list, take, fits, replaces, k, best)
  PROVE  Wins(base, list, take, fits, replaces, k + 1,
              TurnAfter(take, fits, replaces, best, list[k + 1]))
<1> DEFINE x == list[k + 1]
           next == TurnAfter(take, fits, replaces, best, x)
<1>1. k + 1 \in 1 .. Len(list) /\ k + 1 \in 1 .. k + 1
  OBVIOUS
<1>2. \A j \in 1 .. k : j \in 1 .. Len(list) /\ j \in 1 .. k + 1
  BY <1>1
<1>3. x \in B /\ \A j \in 1 .. k : list[j] \in B
  BY <1>1, <1>2, ElementOfSeq
<1>4. \A j \in 1 .. k + 1 : j \in 1 .. k \/ j = k + 1
  OBVIOUS
<1>5. best = base \/ \E i \in 1 .. k : best = take[list[i]] /\ <<base, list[i]>> \in replaces
  BY DEF Wins
<1>6. best \in {base} \cup {take[w] : w \in B}
  BY <1>3, <1>5
<1> HIDE DEF x
<1>7. CASE x \in fits /\ <<best, x>> \in replaces
  <2>1. next = take[x]
    BY <1>7 DEF TurnAfter
  <2>2. ASSUME NEW j \in 1 .. k + 1, list[j] \in fits PROVE <<take[x], list[j]>> \notin replaces
    <3>1. CASE j = k + 1
      BY <1>3, <3>1 DEF Ranked, x
    <3>2. CASE j \in 1 .. k
      BY <1>3, <1>6, <1>7, <2>2, <3>2 DEF Ranked, Wins
    <3> QED
      BY <1>4, <3>1, <3>2
  <2>3. <<base, x>> \in replaces
    <3>1. CASE best = base
      BY <1>7, <3>1
    <3>2. CASE best # base
      BY <1>3, <1>5, <1>7, <3>2 DEF Ranked
    <3> QED
      BY <3>1, <3>2
  <2> HIDE DEF next
  <2>4. \E i \in 1 .. k + 1 : list[i] \in fits /\ next = take[list[i]] /\ <<base, list[i]>> \in replaces
    BY <1>1, <1>7, <2>1, <2>3 DEF x
  <2>5. Wins(base, list, take, fits, replaces, k + 1, next)
    BY <2>1, <2>2, <2>4 DEF Wins
  <2> QED
    BY <2>5 DEF next, x
<1>8. CASE ~(x \in fits /\ <<best, x>> \in replaces)
  <2>1. next = best
    BY <1>8 DEF TurnAfter
  <2> HIDE DEF next
  <2>2. ASSUME NEW j \in 1 .. k + 1, list[j] \in fits PROVE <<best, list[j]>> \notin replaces
    <3>1. CASE j = k + 1
      BY <1>8, <2>2, <3>1 DEF x
    <3>2. CASE j \in 1 .. k
      BY <2>2, <3>2 DEF Wins
    <3> QED
      BY <1>4, <3>1, <3>2
  <2>3. \/ best = base
        \/ \E i \in 1 .. k + 1 : list[i] \in fits /\ best = take[list[i]] /\ <<base, list[i]>> \in replaces
    BY <1>2 DEF Wins
  <2>4. Wins(base, list, take, fits, replaces, k + 1, next)
    BY <2>1, <2>2, <2>3 DEF Wins
  <2> QED
    BY <2>4 DEF next, x
<1> QED
  BY <1>7, <1>8

\* What a loop finds that takes such turns.
LEMMA LoopWins ==
  ASSUME NEW A, NEW B, NEW list \in Seq(B), NEW take \in [B -> A], NEW base \in A,
         NEW fits, NEW replaces, Ranked(B, take, replaces, base), NEW found,
         found[1 .. 0] = base,
         \A n \in 0 .. Len(list) - 1 :
           found[1 .. n] \in A =>
             found[1 .. n + 1] = TurnAfter(take, fits, replaces, found[1 .. n], list[n + 1])
  PROVE  Wins(base, list, take, fits, replaces, Len(list), found[1 .. Len(list)])
<1> DEFINE l == Len(list)
           T == {n \in 0 .. l : /\ found[1 .. n] \in A
                                /\ Wins(base, list, take, fits, replaces, n, found[1 .. n])}
<1>1. l \in Nat
  OBVIOUS
<1>2. 0 \in T
  <2>1. \A j \in 1 .. 0 : FALSE
    OBVIOUS
  <2>2. Wins(base, list, take, fits, replaces, 0, base)
    BY <2>1 DEF Wins
  <2>3. 0 \in 0 .. l
    BY <1>1
  <2> QED
    BY <2>2, <2>3
<1>3. ASSUME NEW n \in 0 .. l - 1, n \in T PROVE n + 1 \in T
  <2>1. n \in Nat /\ n < Len(list) /\ n + 1 \in 0 .. l /\ n + 1 \in 1 .. Len(list)
    BY <1>1
  <2>2. found[1 .. n] \in A /\ Wins(base, list, take, fits, replaces, n, found[1 .. n])
    BY <1>3
  <2>3. found[1 .. n + 1] = TurnAfter(take, fits, replaces, found[1 .. n], list[n + 1])
    BY <2>2
  <2>4. list[n + 1] \in B
    BY <2>1, ElementOfSeq
  <2>5. found[1 .. n + 1] \in A
    BY <2>2, <2>3, <2>4 DEF TurnAfter
  <2> HIDE DEF T, l
  <2>6. Wins(base, list, take, fits, replaces, n + 1, found[1 .. n + 1])
    BY <2>1, <2>2, <2>3, TurnWins
  <2> QED
    BY <2>1, <2>5, <2>6 DEF T
<1> HIDE DEF T
<1>4. l \in T
  <2> HIDE DEF l
  <2> QED
    BY <1>1, <1>2, <1>3, Climb
<1> QED
  BY <1>4 DEF T

Candidates == [name : Nat, rating : Nat]
Nobody == [name |-> NONE, rating |-> UnitRating]

\* Compressor::choose().  One turn of its loop, and what it has found for each set
\* of places.
Weighed(t, q, a, best, info) ==
  IF Acceptable(info, t, q) /\ Rating(info, a) > best.rating
  THEN [name |-> info.name, rating |-> Rating(info, a)] ELSE best
WeighedAll(engines, t, q, a, found) ==
  found = [S \in SUBSET DOMAIN engines |->
             IF S = {} THEN Nobody
             ELSE Weighed(t, q, a, found[S \ {Max(S)}], engines[Max(S)])]

LEMMA WeighedExists ==
  ASSUME NEW engines \in Seq(Info), NEW t, NEW q, NEW a
  PROVE  \E found : WeighedAll(engines, t, q, a, found)
<1> DEFINE op == [p \in Candidates \X Info |-> Weighed(t, q, a, p[1], p[2])]
           D == DOMAIN engines
<1>1. Nobody \in Candidates
  BY DEF Nobody, Candidates, NONE, UnitRating, Rating
<1>2. ASSUME NEW b \in Candidates, NEW info \in Info
      PROVE  Weighed(t, q, a, b, info) \in Candidates /\ op[<<b, info>>] = Weighed(t, q, a, b, info)
  <2>1. [name |-> info.name, rating |-> Rating(info, a)] \in Candidates
    BY DEF Info, Nobody, Candidates, NONE, UnitRating, Rating
  <2> QED
    BY <2>1 DEF Weighed
<1>3. op \in [Candidates \X Info -> Candidates]
  BY <1>2
<1> HIDE DEF op
<1>4. PICK found : LoopOver(op, Nobody, engines, 1 .. Len(engines), Candidates, found)
  BY <1>1, <1>3, LoopExists
<1>5. D = 1 .. Len(engines) /\ Len(engines) \in Nat
  OBVIOUS
<1> HIDE DEF D
<1>6. ASSUME NEW S \in SUBSET D
      PROVE  found[S] = IF S = {} THEN Nobody
                        ELSE Weighed(t, q, a, found[S \ {Max(S)}], engines[Max(S)])
  <2>1. CASE S = {}
    BY <1>4, <1>5, <2>1 DEF LoopOver
  <2>2. CASE S # {}
    <3>1. Max(S) \in S
      BY <1>5, <2>2, LastOne
    <3>2. engines[Max(S)] \in Info
      BY <1>5, <3>1, ElementOfSeq
    <3>3. found[S \ {Max(S)}] \in Candidates
      BY <1>4, <1>5 DEF LoopOver
    <3>4. found[S] = op[<<found[S \ {Max(S)}], engines[Max(S)]>>]
      BY <1>4, <1>5, <2>2 DEF LoopOver
    <3> QED
      BY <1>2, <2>2, <3>2, <3>3, <3>4
  <2> QED
    BY <2>1, <2>2
<1>7. found = [S \in SUBSET D |-> found[S]]
  BY <1>4, <1>5 DEF LoopOver
<1>8. WeighedAll(engines, t, q, a, found)
  BY <1>6, <1>7 DEF WeighedAll, D
<1> QED
  BY <1>8

LEMMA WeighedSteps ==
  ASSUME NEW engines \in Seq(Info), NEW t, NEW q, NEW a, NEW found,
         WeighedAll(engines, t, q, a, found)
  PROVE  /\ found[1 .. 0] = Nobody
         /\ \A n \in 0 .. Len(engines) - 1 :
              found[1 .. n + 1] = Weighed(t, q, a, found[1 .. n], engines[n + 1])
<1> DEFINE l == Len(engines)
<1>1. l \in Nat /\ DOMAIN engines = 1 .. l
  OBVIOUS
<1>2. \A S \in SUBSET (1 .. l) :
        found[S] = IF S = {} THEN Nobody
                   ELSE Weighed(t, q, a, found[S \ {Max(S)}], engines[Max(S)])
  <2> HIDE DEF l
  <2> QED
    BY <1>1 DEF WeighedAll
<1>3. found[1 .. 0] = Nobody
  <2>1. 1 .. 0 = {} /\ {} \in SUBSET (1 .. l)
    BY <1>1
  <2> QED
    BY <1>2, <2>1
<1>4. ASSUME NEW n \in 0 .. l - 1
      PROVE  found[1 .. n + 1] = Weighed(t, q, a, found[1 .. n], engines[n + 1])
  <2> DEFINE S == 1 .. n + 1
  <2>1. n \in Nat /\ S \in SUBSET (1 .. n + 1) /\ n + 1 \in S /\ S \ {n + 1} = 1 .. n
    BY <1>1
  <2>2. S \in SUBSET (1 .. l) /\ S # {}
    BY <1>1, <2>1
  <2> HIDE DEF S
  <2>3. Max(S) = n + 1
    BY <2>1, LastPlace
  <2>4. found[S] = Weighed(t, q, a, found[S \ {n + 1}], engines[n + 1])
    BY <1>2, <2>2, <2>3
  <2> QED
    BY <2>1, <2>4 DEF S
<1> QED
  BY <1>3, <1>4

AtMostOne == {<<>>} \cup {<<info>> : info \in Info}

\* Downloader::choose().  One turn of its loop, and what it has found for each set
\* of places.
Compared(t, q, a, c, m, best, info) ==
  IF Downloads(info, t, q, a, c, m) /\ Smaller(info, best) THEN <<info>> ELSE best
ComparedAll(engines, t, q, a, c, m, found) ==
  found = [S \in SUBSET DOMAIN engines |->
             IF S = {} THEN <<>>
             ELSE Compared(t, q, a, c, m, found[S \ {Max(S)}], engines[Max(S)])]

LEMMA ComparedExists ==
  ASSUME NEW engines \in Seq(Info), NEW t, NEW q, NEW a, NEW c, NEW m
  PROVE  \E found : ComparedAll(engines, t, q, a, c, m, found)
<1> DEFINE op == [p \in AtMostOne \X Info |-> Compared(t, q, a, c, m, p[1], p[2])]
           D == DOMAIN engines
<1>1. <<>> \in AtMostOne
  BY DEF AtMostOne
<1>2. ASSUME NEW b \in AtMostOne, NEW info \in Info
      PROVE  /\ Compared(t, q, a, c, m, b, info) \in AtMostOne
             /\ op[<<b, info>>] = Compared(t, q, a, c, m, b, info)
  <2>1. <<info>> \in AtMostOne
    BY DEF Info, AtMostOne
  <2> QED
    BY <2>1 DEF Compared
<1>3. op \in [AtMostOne \X Info -> AtMostOne]
  BY <1>2
<1> HIDE DEF op
<1>4. PICK found : LoopOver(op, <<>>, engines, 1 .. Len(engines), AtMostOne, found)
  BY <1>1, <1>3, LoopExists
<1>5. D = 1 .. Len(engines) /\ Len(engines) \in Nat
  OBVIOUS
<1> HIDE DEF D
<1>6. ASSUME NEW S \in SUBSET D
      PROVE  found[S] = IF S = {} THEN <<>>
                        ELSE Compared(t, q, a, c, m, found[S \ {Max(S)}], engines[Max(S)])
  <2>1. CASE S = {}
    BY <1>4, <1>5, <2>1 DEF LoopOver
  <2>2. CASE S # {}
    <3>1. Max(S) \in S
      BY <1>5, <2>2, LastOne
    <3>2. engines[Max(S)] \in Info
      BY <1>5, <3>1, ElementOfSeq
    <3>3. found[S \ {Max(S)}] \in AtMostOne
      BY <1>4, <1>5 DEF LoopOver
    <3>4. found[S] = op[<<found[S \ {Max(S)}], engines[Max(S)]>>]
      BY <1>4, <1>5, <2>2 DEF LoopOver
    <3> QED
      BY <1>2, <2>2, <3>2, <3>3, <3>4
  <2> QED
    BY <2>1, <2>2
<1>7. found = [S \in SUBSET D |-> found[S]]
  BY <1>4, <1>5 DEF LoopOver
<1>8. ComparedAll(engines, t, q, a, c, m, found)
  BY <1>6, <1>7 DEF ComparedAll, D
<1> QED
  BY <1>8

LEMMA ComparedSteps ==
  ASSUME NEW engines \in Seq(Info), NEW t, NEW q, NEW a, NEW c, NEW m, NEW found,
         ComparedAll(engines, t, q, a, c, m, found)
  PROVE  /\ found[1 .. 0] = <<>>
         /\ \A n \in 0 .. Len(engines) - 1 :
              found[1 .. n + 1] = Compared(t, q, a, c, m, found[1 .. n], engines[n + 1])
<1> DEFINE l == Len(engines)
<1>1. l \in Nat /\ DOMAIN engines = 1 .. l
  OBVIOUS
<1>2. \A S \in SUBSET (1 .. l) :
        found[S] = IF S = {} THEN <<>>
                   ELSE Compared(t, q, a, c, m, found[S \ {Max(S)}], engines[Max(S)])
  <2> HIDE DEF l
  <2> QED
    BY <1>1 DEF ComparedAll
<1>3. found[1 .. 0] = <<>>
  <2>1. 1 .. 0 = {} /\ {} \in SUBSET (1 .. l)
    BY <1>1
  <2> QED
    BY <1>2, <2>1
<1>4. ASSUME NEW n \in 0 .. l - 1
      PROVE  found[1 .. n + 1] = Compared(t, q, a, c, m, found[1 .. n], engines[n + 1])
  <2> DEFINE S == 1 .. n + 1
  <2>1. n \in Nat /\ S \in SUBSET (1 .. n + 1) /\ n + 1 \in S /\ S \ {n + 1} = 1 .. n
    BY <1>1
  <2>2. S \in SUBSET (1 .. l) /\ S # {}
    BY <1>1, <2>1
  <2> HIDE DEF S
  <2>3. Max(S) = n + 1
    BY <2>1, LastPlace
  <2>4. found[S] = Compared(t, q, a, c, m, found[S \ {n + 1}], engines[n + 1])
    BY <1>2, <2>2, <2>3
  <2> QED
    BY <2>1, <2>4 DEF S
<1> QED
  BY <1>3, <1>4

Runners == [name : Nat, speed : Nat]
Nothing == [name |-> NONE, speed |-> 0]

\* Uploader::choose().  One turn of its loop, and what it has found for each set
\* of places.
Raced(e, i, c, m, best, info) ==
  IF Uploads(info, e, i, c, m) /\ info.speed > best.speed
  THEN [name |-> info.name, speed |-> info.speed] ELSE best
RacedAll(engines, e, i, c, m, found) ==
  found = [S \in SUBSET DOMAIN engines |->
             IF S = {} THEN Nothing
             ELSE Raced(e, i, c, m, found[S \ {Max(S)}], engines[Max(S)])]

LEMMA RacedExists ==
  ASSUME NEW engines \in Seq(Info), NEW e, NEW i, NEW c, NEW m
  PROVE  \E found : RacedAll(engines, e, i, c, m, found)
<1> DEFINE op == [p \in Runners \X Info |-> Raced(e, i, c, m, p[1], p[2])]
           D == DOMAIN engines
<1>1. Nothing \in Runners
  BY DEF Nothing, Runners, NONE
<1>2. ASSUME NEW b \in Runners, NEW info \in Info
      PROVE  Raced(e, i, c, m, b, info) \in Runners /\ op[<<b, info>>] = Raced(e, i, c, m, b, info)
  <2>1. [name |-> info.name, speed |-> info.speed] \in Runners
    BY DEF Info, Nothing, Runners, NONE
  <2> QED
    BY <2>1 DEF Raced
<1>3. op \in [Runners \X Info -> Runners]
  BY <1>2
<1> HIDE DEF op
<1>4. PICK found : LoopOver(op, Nothing, engines, 1 .. Len(engines), Runners, found)
  BY <1>1, <1>3, LoopExists
<1>5. D = 1 .. Len(engines) /\ Len(engines) \in Nat
  OBVIOUS
<1> HIDE DEF D
<1>6. ASSUME NEW S \in SUBSET D
      PROVE  found[S] = IF S = {} THEN Nothing
                        ELSE Raced(e, i, c, m, found[S \ {Max(S)}], engines[Max(S)])
  <2>1. CASE S = {}
    BY <1>4, <1>5, <2>1 DEF LoopOver
  <2>2. CASE S # {}
    <3>1. Max(S) \in S
      BY <1>5, <2>2, LastOne
    <3>2. engines[Max(S)] \in Info
      BY <1>5, <3>1, ElementOfSeq
    <3>3. found[S \ {Max(S)}] \in Runners
      BY <1>4, <1>5 DEF LoopOver
    <3>4. found[S] = op[<<found[S \ {Max(S)}], engines[Max(S)]>>]
      BY <1>4, <1>5, <2>2 DEF LoopOver
    <3> QED
      BY <1>2, <2>2, <3>2, <3>3, <3>4
  <2> QED
    BY <2>1, <2>2
<1>7. found = [S \in SUBSET D |-> found[S]]
  BY <1>4, <1>5 DEF LoopOver
<1>8. RacedAll(engines, e, i, c, m, found)
  BY <1>6, <1>7 DEF RacedAll, D
<1> QED
  BY <1>8

LEMMA RacedSteps ==
  ASSUME NEW engines \in Seq(Info), NEW e, NEW i, NEW c, NEW m, NEW found,
         RacedAll(engines, e, i, c, m, found)
  PROVE  /\ found[1 .. 0] = Nothing
         /\ \A n \in 0 .. Len(engines) - 1 :
              found[1 .. n + 1] = Raced(e, i, c, m, found[1 .. n], engines[n + 1])
<1> DEFINE l == Len(engines)
<1>1. l \in Nat /\ DOMAIN engines = 1 .. l
  OBVIOUS
<1>2. \A S \in SUBSET (1 .. l) :
        found[S] = IF S = {} THEN Nothing
                   ELSE Raced(e, i, c, m, found[S \ {Max(S)}], engines[Max(S)])
  <2> HIDE DEF l
  <2> QED
    BY <1>1 DEF RacedAll
<1>3. found[1 .. 0] = Nothing
  <2>1. 1 .. 0 = {} /\ {} \in SUBSET (1 .. l)
    BY <1>1
  <2> QED
    BY <1>2, <2>1
<1>4. ASSUME NEW n \in 0 .. l - 1
      PROVE  found[1 .. n + 1] = Raced(e, i, c, m, found[1 .. n], engines[n + 1])
  <2> DEFINE S == 1 .. n + 1
  <2>1. n \in Nat /\ S \in SUBSET (1 .. n + 1) /\ n + 1 \in S /\ S \ {n + 1} = 1 .. n
    BY <1>1
  <2>2. S \in SUBSET (1 .. l) /\ S # {}
    BY <1>1, <2>1
  <2> HIDE DEF S
  <2>3. Max(S) = n + 1
    BY <2>1, LastPlace
  <2>4. found[S] = Raced(e, i, c, m, found[S \ {n + 1}], engines[n + 1])
    BY <1>2, <2>2, <2>3
  <2> QED
    BY <2>1, <2>4 DEF S
<1> QED
  BY <1>3, <1>4

\* Compressor::choose() finds the best rated of the acceptable engines that are
\* better than none.
LEMMA BestFound ==
  ASSUME NEW list \in Seq(Files), NEW t, NEW q, NEW a
  PROVE  LET name == Choose(list, t, q, a)
             engines == Engines(list)
             good == {i \in DOMAIN engines : Acceptable(engines[i], t, q)}
             best == {i \in good : \A j \in good :
                        Rating(engines[i], a) >= Rating(engines[j], a)}
             worth == {i \in best : Rating(engines[i], a) > UnitRating}
         IN IF worth = {} THEN name = NONE ELSE \E i \in worth : name = engines[i].name
<1> DEFINE engines == Engines(list)
           found == CHOOSE f : WeighedAll(engines, t, q, a, f)
           l == Len(engines)
           take == [info \in Info |-> [name |-> info.name, rating |-> Rating(info, a)]]
           fits == {info \in Info : Acceptable(info, t, q)}
           replaces == {p \in Candidates \X Info : Rating(p[2], a) > p[1].rating}
           won == found[1 .. l]
           name == Choose(list, t, q, a)
           good == {i \in DOMAIN engines : Acceptable(engines[i], t, q)}
           best == {i \in good : \A j \in good : Rating(engines[i], a) >= Rating(engines[j], a)}
           worth == {i \in best : Rating(engines[i], a) > UnitRating}
<1>1. engines \in Seq(Info)
  BY EnginesType
<1>2. name = found[DOMAIN engines].name
  BY DEF Choose, FoldLeft, MapThenFoldSet, WeighedAll, Weighed, Nobody
<1> HIDE DEF engines, name
<1>3. WeighedAll(engines, t, q, a, found)
  BY <1>1, WeighedExists
<1> HIDE DEF found
<1>4. /\ found[1 .. 0] = Nobody
      /\ \A n \in 0 .. l - 1 : found[1 .. n + 1] = Weighed(t, q, a, found[1 .. n], engines[n + 1])
  BY <1>1, <1>3, WeighedSteps
<1>5. /\ l \in Nat /\ DOMAIN engines = 1 .. l
      /\ \A i \in 1 .. l : engines[i] \in Info /\ Rating(engines[i], a) \in Nat
  <2>1. ASSUME NEW i \in 1 .. l PROVE engines[i] \in Info
    BY <1>1, ElementOfSeq
  <2>2. \A info \in Info : Rating(info, a) \in Nat
    BY DEF Info, Rating
  <2> QED
    BY <1>1, <2>1, <2>2
<1>6. /\ Nobody \in Candidates /\ Nobody.rating = UnitRating /\ Nobody.name = NONE
      /\ \A b \in Candidates : b.rating \in Nat
  BY DEF Nobody, Candidates, NONE, UnitRating
<1>7. ASSUME NEW info \in Info
      PROVE  /\ take[info] \in Candidates /\ take[info].rating = Rating(info, a)
             /\ take[info].name = info.name
  BY DEF Info, Candidates, Rating
<1>8. take \in [Info -> Candidates]
  BY <1>7
<1>9. \A b \in Candidates, info \in Info : <<b, info>> \in replaces <=> Rating(info, a) > b.rating
  OBVIOUS
<1>10. \A info \in Info : info \in fits <=> Acceptable(info, t, q)
  OBVIOUS
<1>11. \A b, info : TurnAfter(take, fits, replaces, b, info) =
                      IF info \in fits /\ <<b, info>> \in replaces THEN take[info] ELSE b
  BY DEF TurnAfter
<1>12. \A info \in Info : take[info] = [name |-> info.name, rating |-> Rating(info, a)]
  OBVIOUS
<1> HIDE DEF take, fits, replaces
<1>13. Ranked(Info, take, replaces, Nobody)
  <2>1. \A info \in Info : Rating(info, a) \in Nat
    BY DEF Info, Rating
  <2> QED
    BY <1>6, <1>7, <1>9, <2>1 DEF Ranked
<1>14. ASSUME NEW n \in 0 .. l - 1, found[1 .. n] \in Candidates
       PROVE  found[1 .. n + 1] = TurnAfter(take, fits, replaces, found[1 .. n], engines[n + 1])
  <2>1. n + 1 \in 1 .. l
    BY <1>5
  <2>2. engines[n + 1] \in Info
    BY <1>5, <2>1
  <2> DEFINE b == found[1 .. n]
             x == engines[n + 1]
  <2>3. found[1 .. n + 1] = Weighed(t, q, a, b, x)
    BY <1>4
  <2>4. b \in Candidates /\ x \in Info
    BY <1>14, <2>2
  <2> HIDE DEF b, x
  <2>5. Weighed(t, q, a, b, x) = TurnAfter(take, fits, replaces, b, x)
    BY <1>9, <1>10, <1>11, <1>12, <2>4 DEF Weighed
  <2> QED
    BY <2>3, <2>5 DEF b, x
<1>15. Wins(Nobody, engines, take, fits, replaces, l, won)
  BY <1>1, <1>4, <1>6, <1>8, <1>13, <1>14, LoopWins
<1>16. name = won.name
  BY <1>2, <1>5
<1> HIDE DEF won, l
<1>17. won = Nobody \/ \E i \in 1 .. l : engines[i] \in fits /\ won = take[engines[i]]
                                         /\ <<Nobody, engines[i]>> \in replaces
  BY <1>15 DEF Wins
<1>18. won \in Candidates
  BY <1>5, <1>6, <1>7, <1>17
<1>19. \A j \in good : won.rating >= Rating(engines[j], a)
  <2> SUFFICES ASSUME NEW j \in good PROVE won.rating >= Rating(engines[j], a)
    OBVIOUS
  <2>1. j \in 1 .. l /\ engines[j] \in Info /\ engines[j] \in fits
    BY <1>5, <1>10
  <2>2. <<won, engines[j]>> \notin replaces
    BY <1>15, <2>1 DEF Wins
  <2>3. ~(Rating(engines[j], a) > won.rating)
    BY <1>9, <1>18, <2>1, <2>2
  <2>4. Rating(engines[j], a) \in Nat /\ won.rating \in Nat
    BY <1>5, <1>6, <1>18, <2>1
  <2> QED
    BY <2>3, <2>4
<1>20. CASE won = Nobody
  <2>1. name = NONE
    BY <1>6, <1>16, <1>20
  <2>2. worth = {}
    <3> SUFFICES ASSUME NEW i \in worth PROVE FALSE
      OBVIOUS
    <3>1. i \in good /\ Rating(engines[i], a) > UnitRating /\ i \in 1 .. l
      BY <1>5
    <3>2. UnitRating >= Rating(engines[i], a) /\ Rating(engines[i], a) \in Nat
      BY <1>5, <1>6, <1>19, <1>20, <3>1
    <3> QED
      BY <3>1, <3>2 DEF UnitRating
  <2> HIDE DEF worth
  <2> QED
    BY <2>1, <2>2 DEF worth, engines, name
<1>21. CASE won # Nobody
  <2>1. PICK i \in 1 .. l : engines[i] \in fits /\ won = take[engines[i]]
                           /\ <<Nobody, engines[i]>> \in replaces
    BY <1>17, <1>21
  <2>2. i \in good /\ engines[i] \in Info
    BY <1>5, <1>10, <2>1
  <2>3. won.rating = Rating(engines[i], a) /\ won.name = engines[i].name
    BY <1>7, <2>1, <2>2
  <2>4. Rating(engines[i], a) > UnitRating
    BY <1>6, <1>9, <2>1, <2>2
  <2>5. i \in best
    BY <1>19, <2>2, <2>3
  <2>6. i \in worth
    BY <2>4, <2>5
  <2>7. name = engines[i].name
    BY <1>16, <2>3
  <2> HIDE DEF worth
  <2>8. worth # {} /\ \E j \in worth : name = engines[j].name
    BY <2>6, <2>7
  <2> QED
    BY <2>8 DEF worth, engines, name
<1> QED
  BY <1>20, <1>21

\* Downloader::choose() finds the fastest of the smallest of the engines it
\* accepts.
LEMMA SmallestFound ==
  ASSUME NEW list \in Seq(Files), NEW t, NEW q, NEW a, NEW c, NEW m
  PROVE  LET name == ChooseDownloader(list, t, q, a, c, m)
             engines == Engines(list)
             good == {i \in DOMAIN engines : Downloads(engines[i], t, q, a, c, m)}
         IN IF good = {} THEN name = NONE
            ELSE \E i \in good :
                   /\ name = engines[i].name
                   /\ \A j \in good :
                        LET it == engines[i]
                            other == engines[j]
                        IN it.ratio < other.ratio \/ (it.ratio = other.ratio /\ it.speed >= other.speed)
<1> DEFINE engines == Engines(list)
           found == CHOOSE f : ComparedAll(engines, t, q, a, c, m, f)
           l == Len(engines)
           take == [info \in Info |-> <<info>>]
           fits == {info \in Info : Downloads(info, t, q, a, c, m)}
           replaces == {p \in AtMostOne \X Info : Smaller(p[2], p[1])}
           won == found[1 .. l]
           name == ChooseDownloader(list, t, q, a, c, m)
           good == {i \in DOMAIN engines : Downloads(engines[i], t, q, a, c, m)}
           Precedes(it, other) ==
             it.ratio < other.ratio \/ (it.ratio = other.ratio /\ it.speed >= other.speed)
<1>1. engines \in Seq(Info)
  BY EnginesType
<1>2. name = LET b == found[DOMAIN engines] IN IF b = <<>> THEN NONE ELSE b[1].name
  BY DEF ChooseDownloader, FoldLeft, MapThenFoldSet, ComparedAll, Compared
<1> HIDE DEF engines, name
<1>3. ComparedAll(engines, t, q, a, c, m, found)
  BY <1>1, ComparedExists
<1> HIDE DEF found
<1>4. /\ found[1 .. 0] = <<>>
      /\ \A n \in 0 .. l - 1 : found[1 .. n + 1] = Compared(t, q, a, c, m, found[1 .. n], engines[n + 1])
  BY <1>1, <1>3, ComparedSteps
<1>5. l \in Nat /\ DOMAIN engines = 1 .. l /\ \A i \in 1 .. l : engines[i] \in Info
  <2>1. ASSUME NEW i \in 1 .. l PROVE engines[i] \in Info
    BY <1>1, ElementOfSeq
  <2> QED
    BY <1>1, <2>1
<1>6. \A info \in Info : info.ratio \in Nat /\ info.speed \in Nat
  BY DEF Info
<1>7. ASSUME NEW info \in Info
      PROVE  take[info] = <<info>> /\ take[info] \in AtMostOne /\ take[info] # <<>> /\ take[info][1] = info
  BY DEF AtMostOne
<1>8. take \in [Info -> AtMostOne] /\ <<>> \in AtMostOne
  BY <1>7 DEF AtMostOne
<1>9. \A b \in AtMostOne, info \in Info : <<b, info>> \in replaces <=> Smaller(info, b)
  OBVIOUS
<1>10. \A info \in Info : info \in fits <=> Downloads(info, t, q, a, c, m)
  OBVIOUS
<1>11. \A b, info : TurnAfter(take, fits, replaces, b, info) =
                      IF info \in fits /\ <<b, info>> \in replaces THEN take[info] ELSE b
  BY DEF TurnAfter
<1> HIDE DEF take, fits, replaces
<1>12. ASSUME NEW x \in Info, NEW y \in Info
       PROVE  /\ <<<<>>, x>> \in replaces
              /\ <<take[x], y>> \in replaces <=> ~Precedes(x, y)
  <2>1. <<<<>>, x>> \in replaces
    BY <1>8, <1>9 DEF Smaller
  <2>2. <<take[x], y>> \in replaces <=> Smaller(y, take[x])
    BY <1>7, <1>9
  <2>3. Smaller(y, take[x]) <=> (y.ratio < x.ratio \/ (y.ratio = x.ratio /\ y.speed > x.speed))
    BY <1>7 DEF Smaller
  <2>4. /\ x.ratio \in Nat /\ y.ratio \in Nat /\ x.speed \in Nat /\ y.speed \in Nat
    BY <1>6
  <2> QED
    BY <2>1, <2>2, <2>3, <2>4
<1>13. Ranked(Info, take, replaces, <<>>)
  <2>1. ASSUME NEW x \in Info PROVE <<take[x], x>> \notin replaces
    <3>1. x.ratio \in Nat /\ x.speed \in Nat
      BY <1>6
    <3>2. Precedes(x, x)
      BY <3>1
    <3> QED
      BY <1>12, <3>2
  <2>2. ASSUME NEW old \in {<<>>} \cup {take[w] : w \in Info}, NEW x \in Info, NEW y \in Info,
               <<old, x>> \in replaces, <<old, y>> \notin replaces
        PROVE  <<take[x], y>> \notin replaces
    <3>1. old # <<>>
      BY <1>12, <2>2
    <3>2. PICK w \in Info : old = take[w]
      BY <3>1
    <3>3. ~Precedes(w, x) /\ Precedes(w, y)
      BY <1>12, <2>2, <3>2
    <3>4. Precedes(x, y)
      BY <1>6, <3>3
    <3> QED
      BY <1>12, <3>4
  <2>3. \A x, y \in Info :
          <<<<>>, x>> \in replaces /\ <<take[x], y>> \in replaces => <<<<>>, y>> \in replaces
    BY <1>12
  <2> QED
    BY <2>1, <2>2, <2>3 DEF Ranked
<1>14. ASSUME NEW n \in 0 .. l - 1, found[1 .. n] \in AtMostOne
       PROVE  found[1 .. n + 1] = TurnAfter(take, fits, replaces, found[1 .. n], engines[n + 1])
  <2>1. n + 1 \in 1 .. l
    BY <1>5
  <2>2. engines[n + 1] \in Info
    BY <1>5, <2>1
  <2> DEFINE b == found[1 .. n]
             x == engines[n + 1]
  <2>3. found[1 .. n + 1] = Compared(t, q, a, c, m, b, x)
    BY <1>4
  <2>4. b \in AtMostOne /\ x \in Info
    BY <1>14, <2>2
  <2> HIDE DEF b, x
  <2>5. Compared(t, q, a, c, m, b, x) = TurnAfter(take, fits, replaces, b, x)
    BY <1>7, <1>9, <1>10, <1>11, <2>4 DEF Compared
  <2> QED
    BY <2>3, <2>5 DEF b, x
<1>15. Wins(<<>>, engines, take, fits, replaces, l, won)
  BY <1>1, <1>4, <1>8, <1>13, <1>14, LoopWins
<1>16. name = IF won = <<>> THEN NONE ELSE won[1].name
  BY <1>2, <1>5
<1> HIDE DEF won, l
<1>17. CASE won = <<>>
  <2>1. name = NONE
    BY <1>16, <1>17
  <2>2. ASSUME NEW j \in good PROVE FALSE
    <3>1. j \in 1 .. l /\ engines[j] \in Info /\ engines[j] \in fits
      BY <1>5, <1>10
    <3>2. <<won, engines[j]>> \notin replaces
      BY <1>15, <3>1 DEF Wins
    <3> QED
      BY <1>12, <1>17, <3>1, <3>2
  <2> HIDE DEF good
  <2> QED
    BY <2>1, <2>2 DEF good, engines, name
<1>18. CASE won # <<>>
  <2>1. PICK i \in 1 .. l : engines[i] \in fits /\ won = take[engines[i]]
    BY <1>15, <1>18 DEF Wins
  <2>2. engines[i] \in Info /\ i \in good
    BY <1>5, <1>10, <2>1
  <2>3. name = engines[i].name
    BY <1>7, <1>16, <1>18, <2>1, <2>2
  <2>4. ASSUME NEW j \in good PROVE Precedes(engines[i], engines[j])
    <3>1. j \in 1 .. l /\ engines[j] \in Info /\ engines[j] \in fits
      BY <1>5, <1>10
    <3>2. <<won, engines[j]>> \notin replaces
      BY <1>15, <3>1 DEF Wins
    <3> QED
      BY <1>12, <2>1, <2>2, <3>1, <3>2
  <2> HIDE DEF good
  <2>5. good # {}
        /\ \E k \in good : name = engines[k].name /\ \A j \in good : Precedes(engines[k], engines[j])
    BY <2>2, <2>3, <2>4
  <2> QED
    BY <2>5 DEF good, engines, name
<1> QED
  BY <1>17, <1>18

\* Nothing beats an engine that is smaller, or as small and not slower.
LEMMA UnbeatenFound ==
  ASSUME NEW list \in Seq(Files), NEW t, NEW q, NEW a, NEW c, NEW m
  PROVE  LET name == ChooseDownloader(list, t, q, a, c, m)
             engines == Engines(list)
             good == {i \in DOMAIN engines : Downloads(engines[i], t, q, a, c, m)}
         IN IF good = {} THEN name = NONE
            ELSE \E i \in good : /\ name = engines[i].name
                                  /\ \A j \in good : ~Beats(engines[j], engines[i])
<1> DEFINE engines == Engines(list)
           name == ChooseDownloader(list, t, q, a, c, m)
           good == {i \in DOMAIN engines : Downloads(engines[i], t, q, a, c, m)}
           Precedes(it, other) ==
             it.ratio < other.ratio \/ (it.ratio = other.ratio /\ it.speed >= other.speed)
<1>1. IF good = {} THEN name = NONE
      ELSE \E i \in good : /\ name = engines[i].name
                            /\ \A j \in good : Precedes(engines[i], engines[j])
  BY SmallestFound
<1>2. \A i \in good : engines[i] \in Info
  BY EnginesType, ElementOfSeq
<1>3. ASSUME NEW x \in Info, NEW y \in Info, Precedes(x, y) PROVE ~Beats(y, x)
  <2>1. x.ratio \in Nat /\ y.ratio \in Nat /\ x.speed \in Nat /\ y.speed \in Nat
    BY DEF Info
  <2> QED
    BY <1>3, <2>1 DEF Beats
<1> HIDE DEF engines, name, good
<1>4. CASE good = {}
  BY <1>1, <1>4 DEF engines, name, good
<1>5. CASE good # {}
  <2> HIDE DEF Precedes
  <2>1. PICK i \in good : name = engines[i].name /\ \A j \in good : Precedes(engines[i], engines[j])
    BY <1>1, <1>5
  <2>2. \A j \in good : ~Beats(engines[j], engines[i])
    BY <1>2, <1>3, <2>1
  <2>3. \E k \in good : name = engines[k].name /\ \A j \in good : ~Beats(engines[j], engines[k])
    BY <2>1, <2>2
  <2> QED
    BY <1>5, <2>3 DEF engines, name, good
<1> QED
  BY <1>4, <1>5

\* Uploader::choose() finds the fastest of the engines it accepts.
LEMMA FastestFound ==
  ASSUME NEW list \in Seq(Files), NEW e, NEW o, NEW c, NEW m
  PROVE  LET name == ChooseUploader(list, e, o, c, m)
             engines == Engines(list)
             good == {i \in DOMAIN engines :
                        Uploads(engines[i], e, o, c, m) /\ engines[i].speed > 0}
         IN IF good = {} THEN name = NONE
            ELSE \E i \in good : /\ name = engines[i].name
                                 /\ \A j \in good : engines[i].speed >= engines[j].speed
<1> DEFINE engines == Engines(list)
           found == CHOOSE f : RacedAll(engines, e, o, c, m, f)
           l == Len(engines)
           take == [info \in Info |-> [name |-> info.name, speed |-> info.speed]]
           fits == {info \in Info : Uploads(info, e, o, c, m)}
           replaces == {p \in Runners \X Info : p[2].speed > p[1].speed}
           won == found[1 .. l]
           name == ChooseUploader(list, e, o, c, m)
           good == {i \in DOMAIN engines : Uploads(engines[i], e, o, c, m) /\ engines[i].speed > 0}
<1>1. engines \in Seq(Info)
  BY EnginesType
<1>2. name = found[DOMAIN engines].name
  BY DEF ChooseUploader, FoldLeft, MapThenFoldSet, RacedAll, Raced, Nothing
<1> HIDE DEF engines, name
<1>3. RacedAll(engines, e, o, c, m, found)
  BY <1>1, RacedExists
<1> HIDE DEF found
<1>4. /\ found[1 .. 0] = Nothing
      /\ \A n \in 0 .. l - 1 : found[1 .. n + 1] = Raced(e, o, c, m, found[1 .. n], engines[n + 1])
  BY <1>1, <1>3, RacedSteps
<1>5. l \in Nat /\ DOMAIN engines = 1 .. l /\ \A i \in 1 .. l : engines[i] \in Info
  <2>1. ASSUME NEW i \in 1 .. l PROVE engines[i] \in Info
    BY <1>1, ElementOfSeq
  <2> QED
    BY <1>1, <2>1
<1>6. /\ Nothing \in Runners /\ Nothing.speed = 0 /\ Nothing.name = NONE
      /\ \A b \in Runners : b.speed \in Nat
  BY DEF Nothing, Runners, NONE
<1>7. ASSUME NEW info \in Info
      PROVE  /\ take[info] \in Runners /\ take[info].speed = info.speed
             /\ take[info].name = info.name /\ info.speed \in Nat
  BY DEF Info, Runners
<1>8. take \in [Info -> Runners]
  BY <1>7
<1>9. \A b \in Runners, info \in Info : <<b, info>> \in replaces <=> info.speed > b.speed
  OBVIOUS
<1>10. \A info \in Info : info \in fits <=> Uploads(info, e, o, c, m)
  OBVIOUS
<1>11. \A b, info : TurnAfter(take, fits, replaces, b, info) =
                      IF info \in fits /\ <<b, info>> \in replaces THEN take[info] ELSE b
  BY DEF TurnAfter
<1>12. \A info \in Info : take[info] = [name |-> info.name, speed |-> info.speed]
  OBVIOUS
<1> HIDE DEF take, fits, replaces
<1>13. Ranked(Info, take, replaces, Nothing)
  BY <1>6, <1>7, <1>9 DEF Ranked
<1>14. ASSUME NEW n \in 0 .. l - 1, found[1 .. n] \in Runners
       PROVE  found[1 .. n + 1] = TurnAfter(take, fits, replaces, found[1 .. n], engines[n + 1])
  <2>1. n + 1 \in 1 .. l
    BY <1>5
  <2>2. engines[n + 1] \in Info
    BY <1>5, <2>1
  <2> DEFINE b == found[1 .. n]
             x == engines[n + 1]
  <2>3. found[1 .. n + 1] = Raced(e, o, c, m, b, x)
    BY <1>4
  <2>4. b \in Runners /\ x \in Info
    BY <1>14, <2>2
  <2> HIDE DEF b, x
  <2>5. Raced(e, o, c, m, b, x) = TurnAfter(take, fits, replaces, b, x)
    BY <1>9, <1>10, <1>11, <1>12, <2>4 DEF Raced
  <2> QED
    BY <2>3, <2>5 DEF b, x
<1>15. Wins(Nothing, engines, take, fits, replaces, l, won)
  BY <1>1, <1>4, <1>6, <1>8, <1>13, <1>14, LoopWins
<1>16. name = won.name
  BY <1>2, <1>5
<1> HIDE DEF won, l
<1>17. won = Nothing \/ \E i \in 1 .. l : engines[i] \in fits /\ won = take[engines[i]]
                                          /\ <<Nothing, engines[i]>> \in replaces
  BY <1>15 DEF Wins
<1>18. won \in Runners
  BY <1>5, <1>6, <1>7, <1>17
<1>19. ASSUME NEW j \in good PROVE won.speed >= engines[j].speed
  <2>1. j \in 1 .. l /\ engines[j] \in Info /\ engines[j] \in fits
    BY <1>5, <1>10
  <2>2. <<won, engines[j]>> \notin replaces
    BY <1>15, <2>1 DEF Wins
  <2>3. ~(engines[j].speed > won.speed)
    BY <1>9, <1>18, <2>1, <2>2
  <2>4. engines[j].speed \in Nat /\ won.speed \in Nat
    BY <1>6, <1>7, <1>18, <2>1
  <2> QED
    BY <2>3, <2>4
<1>20. CASE won = Nothing
  <2>1. name = NONE
    BY <1>6, <1>16, <1>20
  <2>2. ASSUME NEW j \in good PROVE FALSE
    <3>1. j \in 1 .. l /\ engines[j] \in Info /\ engines[j].speed > 0
      BY <1>5
    <3>2. 0 >= engines[j].speed /\ engines[j].speed \in Nat
      BY <1>6, <1>7, <1>19, <1>20, <3>1
    <3> QED
      BY <3>1, <3>2
  <2> HIDE DEF good
  <2> QED
    BY <2>1, <2>2 DEF good, engines, name
<1>21. CASE won # Nothing
  <2>1. PICK i \in 1 .. l : engines[i] \in fits /\ won = take[engines[i]]
                           /\ <<Nothing, engines[i]>> \in replaces
    BY <1>17, <1>21
  <2>2. engines[i] \in Info /\ engines[i].speed > 0
    BY <1>5, <1>6, <1>9, <2>1
  <2>3. i \in good
    BY <1>5, <1>10, <2>1, <2>2
  <2>4. won.speed = engines[i].speed /\ name = engines[i].name
    BY <1>7, <1>16, <2>1, <2>2
  <2> HIDE DEF good
  <2>5. good # {}
        /\ \E k \in good : name = engines[k].name /\ \A j \in good : engines[k].speed >= engines[j].speed
    BY <1>19, <2>3, <2>4
  <2> QED
    BY <2>5 DEF good, engines, name
<1> QED
  BY <1>20, <1>21

\* Whatever is loaded, in whatever order and with whatever ratings: each choose()
\* finds the best of the engines that fit, and none only if none is worth it.
THEOREM ChoosesBest == Spec => []ChooseBest
<1>1. IInv => ChooseBest
  <2> SUFFICES ASSUME plugins \in Seq(Files)
               PROVE  BestCompressor /\ UnbeatenDownloader /\ FastestUploader
    BY DEF IInv, PluginsDistinct, ChooseBest
  <2>1. BestCompressor
    BY BestFound DEF BestCompressor
  <2>2. UnbeatenDownloader
    <3> SUFFICES ASSUME NEW t \in TokenTypes, NEW q \in Qualities, NEW a \in BOOLEAN,
                        NEW c \in TransferRequests,
                        NEW m \in {Names} \cup {{n} : n \in Names}
                 PROVE  LET name == ChooseDownloader(plugins, t, q, a, c, m)
                            engines == Engines(plugins)
                            good == {i \in DOMAIN engines : Downloads(engines[i], t, q, a, c, m)}
                        IN IF good = {} THEN name = NONE
                           ELSE \E i \in good :
                                  /\ name = engines[i].name
                                  /\ \A j \in good : ~Beats(engines[j], engines[i])
      BY DEF UnbeatenDownloader
    <3> QED
      BY UnbeatenFound
  <2>3. FastestUploader
    BY FastestFound DEF FastestUploader
  <2> QED
    BY <2>1, <2>2, <2>3
<1> QED
  BY <1>1, Inductive, PTL
================================================================================
