-------------------------- MODULE MCConfiguration --------------------------
(***************************************************************************)
(* Two groups of settings that no line of code reads together: those of    *)
(* the lists, those of the namespaces.  Environment and command line each  *)
(* give any values to the settings of one group and none to the others.    *)
(*                                                                         *)
(* The domain names have, besides words, a part with a comma ("a,b"), one  *)
(* of blanks and commas only (","), and a blank behind the dot (". lan").  *)
(***************************************************************************)
EXTENDS Configuration

EnvLists ==
  [f \in Settings |->
     CASE f = "domainName" -> {Nil, "corp", "a,b", ","}
       [] f = "deviceSuffix" -> {Nil, ".dev", ".corp"}
       [] f = "loadBalancerSuffix" -> {Nil, ". lan", "."}
       [] f = "domainSearch" -> {Nil, <<"", "a">>, <<"">>}
       [] f = "watchNamespaces" -> {Nil, <<"n", "">>}
       [] OTHER -> {Nil}]

EnvNamespaces ==
  [f \in Settings |->
     CASE f = "dryRun" -> {Nil, "true"}
       [] f = "enableFreeRadius" -> {Nil, "", "0"}
       [] f = "dnsmasqNamespace" -> {Nil, "", "ns"}
       [] f = "freeRadiusNamespace" -> {Nil, "ns"}
       [] OTHER -> {Nil}]

ArgLists ==
  [f \in Settings |->
     CASE f = "domainName" -> {Nil, "", "home"}
       [] f = "deviceSuffix" -> {Nil, "", ".lab"}
       [] f = "loadBalancerSuffix" -> {Nil, ". lan"}
       [] f = "domainSearch" -> {Nil, <<"b">>}
       [] f = "watchNamespaces" -> {Nil, <<"m">>}
       [] OTHER -> {Nil}]

ArgNamespaces ==
  [f \in Settings |->
     CASE f = "dryRun" -> {Nil, FALSE}
       [] f = "enableFreeRadius" -> {Nil, TRUE, FALSE}
       [] f = "dnsmasqNamespace" -> {Nil, "", "other"}
       [] f = "freeRadiusNamespace" -> {Nil, "", "other"}
       [] OTHER -> {Nil}]

\* The functions that take a value of V[f] for every setting f.
Assignments(V) ==
  {[f \in Settings |->
      CASE f = "dryRun" -> d [] f = "enableFreeRadius" -> fr [] f = "dnsmasqNamespace" -> n
        [] f = "domainName" -> m [] f = "deviceSuffix" -> s [] f = "loadBalancerSuffix" -> l
        [] f = "freeRadiusNamespace" -> fn [] f = "domainSearch" -> ds
        [] f = "watchNamespaces" -> w] :
     d \in V["dryRun"], fr \in V["enableFreeRadius"], n \in V["dnsmasqNamespace"],
     m \in V["domainName"], s \in V["deviceSuffix"], l \in V["loadBalancerSuffix"],
     fn \in V["freeRadiusNamespace"], ds \in V["domainSearch"], w \in V["watchNamespaces"]}

MCEnvironments == Assignments(EnvLists) \union Assignments(EnvNamespaces)
MCCommandLines == Assignments(ArgLists) \union Assignments(ArgNamespaces)

\* An environment that both defaults are derived from; flags that change what
\* they are derived from, and flags for the lists.
MCDerivedEnvironments ==
  Assignments([f \in Settings |->
     CASE f = "domainName" -> {"corp"}
       [] f = "deviceSuffix" -> {".dev"}
       [] f = "enableFreeRadius" -> {"true"}
       [] f = "watchNamespaces" -> {Nil, <<"n", "">>}
       [] OTHER -> {Nil}])
MCChangingFlags ==
  Assignments([f \in Settings |->
     CASE f = "domainName" -> {"home"}
       [] f = "dnsmasqNamespace" -> {"other"}
       [] f = "watchNamespaces" -> {<<"m">>}
       [] OTHER -> {Nil}])

MCTexts ==
  {"", "default", "true", "0", "ns", "other", "a", "b", "n", "m", "corp", "home", "dev", "lab", "lan",
   ".", ".corp", ".dev", ".lab", ". lan", " lan", "a,b", ","}

MCDomain ==
  [s \in MCTexts |->
     CASE s = "." -> "" [] s = ".corp" -> "corp" [] s = ".dev" -> "dev" [] s = ".lab" -> "lab"
       [] s = ". lan" -> " lan" [] s = " lan" -> "lan" [] OTHER -> s]

MCPieces ==
  [s \in MCTexts |->
     CASE s = "a,b" -> <<"a", "b">> [] s = "," -> <<"", "">> [] s = " lan" -> <<"lan">>
       [] OTHER -> <<s>>]

=============================================================================
