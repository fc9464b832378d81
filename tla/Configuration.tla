--------------------------- MODULE Configuration ---------------------------
(***************************************************************************)
(* How the operator gets its settings when it starts (internal/config and  *)
(* cmd/main.go): Load reads the environment, BindFlags registers the       *)
(* flags with what Load found as defaults, flag.Parse stores what the      *)
(* command line gives, ApplyCSVFlags takes over the comma-separated ones.  *)
(*                                                                         *)
(* The settings that only one line reads behave like dryRun, deviceSuffix  *)
(* or watch, which stand for them.  A comma-separated string is the        *)
(* sequence of its pieces, each without the blanks around it.              *)
(***************************************************************************)
EXTENDS Naturals, Sequences, SequencesExt

CONSTANTS
  Nil,          \* a variable or flag that is not given
  Environments, \* environments: functions from settings to strings or Nil
  CommandLines, \* command lines: functions from settings to values or Nil
  Domain,       \* Domain[s]: the string s without the blanks around it and a
                \* leading dot; it is defined for all strings in use
  Pieces        \* Pieces[s]: what lies between the commas of s, without blanks

Bools == {"dryRun", "enableFreeRadius"}
Strings == {"dnsmasqNamespace", "domainName", "deviceSuffix", "loadBalancerSuffix",
            "freeRadiusNamespace"}
Lists == {"domainSearch", "watchNamespaces"}
Settings == Bools \union Strings \union Lists

\* The settings a domain search list is derived from.
DomainSettings == {"domainName", "deviceSuffix", "loadBalancerSuffix"}

\* All strings; those without a comma and without blanks around them.
Texts == DOMAIN Domain
Words == {s \in Texts : Pieces[s] = <<s>>}

\* Values for the settings: those of bools are in bools, a list is its pieces.
Typed(values, bools) ==
  /\ DOMAIN values = Settings
  /\ \A f \in Settings : values[f] # Nil =>
       \/ f \in Bools /\ values[f] \in bools
       \/ f \in Strings /\ values[f] \in Texts
       \/ f \in Lists /\ values[f] \in Seq(Words)

ASSUME ConfigurationAssumption ==
  /\ \A e \in Environments : Typed(e, Texts)
  /\ \A a \in CommandLines : Typed(a, BOOLEAN)
  /\ \A s \in Texts : Domain[s] \in Texts /\ Pieces[s] \in Seq(Words)
  /\ {"", "default"} \subseteq Texts
  /\ Nil \notin Seq(Texts)

VARIABLES
  pc,           \* the next statement of main
  env, args,    \* environment and command line
  cfg,          \* cfg
  bound,        \* the CSVFlags in BindFlags that the flags are registered on
  csvFlags      \* the copy of it that BindFlags returned

vars == <<pc, env, args, cfg, bound, csvFlags>>

(***************************************************************************)
(* Load.                                                                   *)
(***************************************************************************)
DefaultOf(f) ==
  CASE f = "dnsmasqNamespace" -> "default"
    [] f \in Bools -> FALSE
    [] f \in Lists -> <<>>
    [] OTHER -> ""

EnvBool(f, v) == IF v = Nil THEN DefaultOf(f) ELSE v \notin {"false", "0"}

Getenv(f, v) == IF v \in {Nil, ""} THEN DefaultOf(f) ELSE v

\* Mutant of SplitCommaList: blank parts are kept.
SplitKeepingBlanks(v) == IF v = Nil THEN <<>> ELSE v

\* The loop over the parts.
NonBlank(v) == FlattenSeq([i \in DOMAIN v |-> IF v[i] = "" THEN <<>> ELSE <<v[i]>>])

SplitCommaList(v) == IF v = Nil THEN <<>> ELSE NonBlank(v)

FromEnv(e) ==
  [f \in Settings |->
     CASE f \in Bools -> EnvBool(f, e[f])
       [] f \in Strings -> Getenv(f, e[f])
       [] f \in Lists -> SplitCommaList(e[f])]

Add(out, raw) ==
  IF Domain[raw] \in {""} \union ToSet(out) THEN out ELSE Append(out, Domain[raw])

DerivedSearch(c) ==
  Add(Add(Add(<<>>, c["domainName"]), c["loadBalancerSuffix"]), c["deviceSuffix"])

\* Mutant of DeriveDomainSearch: what is derived is added to a list that is set.
DeriveMore(c) ==
  IF \/ c["domainName"] = ""
     \/ c["deviceSuffix"] = "" /\ c["loadBalancerSuffix"] = ""
  THEN c["domainSearch"]
  ELSE Add(Add(Add(c["domainSearch"], c["domainName"]), c["loadBalancerSuffix"]), c["deviceSuffix"])

DeriveDomainSearch(c) ==
  IF \/ c["domainSearch"] # <<>> \/ c["domainName"] = ""
     \/ c["deviceSuffix"] = "" /\ c["loadBalancerSuffix"] = ""
  THEN c["domainSearch"]
  ELSE DerivedSearch(c)

DeriveNamespace(c) ==
  IF c["enableFreeRadius"] /\ c["freeRadiusNamespace"] = ""
  THEN c["dnsmasqNamespace"]
  ELSE c["freeRadiusNamespace"]

Finalize(c) ==
  [c EXCEPT !["freeRadiusNamespace"] = DeriveNamespace(c),
            !["domainSearch"] = DeriveDomainSearch(c)]

(***************************************************************************)
(* main, up to the manager.                                                *)
(***************************************************************************)
NoLists == [f \in Lists |-> <<>>]

Init ==
  /\ pc = "load"
  /\ env \in Environments
  /\ args \in CommandLines
  /\ cfg = [f \in Settings |-> DefaultOf(f)]
  /\ bound = NoLists /\ csvFlags = NoLists

Load ==
  /\ pc = "load"
  /\ cfg' = Finalize(FromEnv(env))
  /\ pc' = "bind"
  /\ UNCHANGED <<env, args, bound, csvFlags>>

\* strings.Join: a part with a comma of its own becomes several pieces.
Join(list) == FlattenSeq([i \in DOMAIN list |-> Pieces[list[i]]])

BindFlags ==
  /\ pc = "bind"
  /\ bound' = [f \in Lists |-> Join(cfg[f])]
  /\ csvFlags' = [f \in Lists |-> Join(cfg[f])]
  /\ pc' = "parse"
  /\ UNCHANGED <<env, args, cfg>>

Given(f) == args[f] # Nil

\* Mutant of Parse: the environment is stronger than the flags.
ParseUnlessSet ==
  /\ pc = "parse"
  /\ cfg' = [f \in Settings |-> IF f \notin Lists /\ Given(f) /\ env[f] = Nil THEN args[f] ELSE cfg[f]]
  /\ pc' = "apply"
  /\ UNCHANGED <<env, args, bound, csvFlags>>

Parse ==
  /\ pc = "parse"
  /\ cfg' = [f \in Settings |-> IF f \notin Lists /\ Given(f) THEN args[f] ELSE cfg[f]]
  /\ bound' = [f \in Lists |-> IF Given(f) THEN args[f] ELSE bound[f]]
  /\ pc' = "apply"
  /\ UNCHANGED <<env, args, csvFlags>>

ApplyCSVFlags ==
  /\ pc = "apply"
  /\ cfg' = Finalize([f \in Settings |->
                        IF f \in Lists THEN SplitCommaList(csvFlags[f]) ELSE cfg[f]])
  /\ pc' = "run"
  /\ UNCHANGED <<env, args, bound, csvFlags>>

Next == Load \/ BindFlags \/ Parse \/ ApplyCSVFlags

Spec == Init /\ [][Next]_vars

-----------------------------------------------------------------------------
(***************************************************************************)
(* Properties.                                                             *)
(***************************************************************************)

\* Every variable stays within the values its Go type allows, and no list that
\* was split or derived has a blank part.
TypeOK ==
  /\ pc \in {"load", "bind", "parse", "apply", "run"}
  /\ Typed(env, Texts) /\ Typed(args, BOOLEAN)
  /\ DOMAIN cfg = Settings
  /\ \A f \in Bools : cfg[f] \in BOOLEAN
  /\ \A f \in Strings : cfg[f] \in Texts
  /\ \A f \in Lists : cfg[f] \in Seq(Texts \ {""})
  /\ bound \in [Lists -> Seq(Words)] /\ csvFlags \in [Lists -> Seq(Words)]

\* What the table of README.md:25-42 promises: a setting is what its flag says,
\* else its variable, else its default; only then are the defaults that depend
\* on other settings derived.
Documented ==
  Finalize([f \in Settings |->
              IF ~Given(f) THEN FromEnv(env)[f]
              ELSE IF f \in Lists THEN SplitCommaList(args[f]) ELSE args[f]])

\* Load derived a default from the environment that a flag should change.
StaleSearch ==
  /\ FromEnv(env)["domainSearch"] = <<>> /\ Finalize(FromEnv(env))["domainSearch"] # <<>>
  /\ \E f \in DomainSettings : Given(f)
StaleNamespace ==
  /\ FromEnv(env)["freeRadiusNamespace"] = "" /\ Finalize(FromEnv(env))["freeRadiusNamespace"] # ""
  /\ Given("dnsmasqNamespace") \/ Given("enableFreeRadius")

\* A list as it is after it was joined and split.
Rejoined(list) == SplitCommaList(Join(list))

\* The operator starts with the documented settings, whatever the environment
\* and the flags, except for the two lists when they are given by flags (these
\* are lost) and a default that was derived too early (for both see FlagsCount):
\* deriving twice does no further harm.  Between the two passes the lists are
\* joined and split: that changes no list of words, and of a derived part with
\* a comma or a blank no more than where it is cut.
StartsAsDocumented ==
  pc = "run" =>
    /\ \A f \in Settings \ {"domainSearch", "watchNamespaces", "freeRadiusNamespace"} :
         cfg[f] = Documented[f]
    /\ ~Given("watchNamespaces") => cfg["watchNamespaces"] = Documented["watchNamespaces"]
    /\ ~Given("domainSearch") /\ ~StaleSearch =>
         /\ Rejoined(cfg["domainSearch"]) = Rejoined(Documented["domainSearch"])
         /\ Documented["domainSearch"] \in Seq(Words) =>
              cfg["domainSearch"] = Documented["domainSearch"]
    /\ ~StaleNamespace => cfg["freeRadiusNamespace"] = Documented["freeRadiusNamespace"]

\* Nobody sets the search list, the FreeRADIUS namespace.
SearchUnset == FromEnv(env)["domainSearch"] = <<>> /\ ~Given("domainSearch")
NamespaceUnset == FromEnv(env)["freeRadiusNamespace"] = "" /\ ~Given("freeRadiusNamespace")

\* They are those that the settings c call for.
SearchDerivedFrom(c) ==
  Rejoined(cfg["domainSearch"]) = Rejoined(DeriveDomainSearch([c EXCEPT !["domainSearch"] = <<>>]))
NamespaceDerivedFrom(c) ==
  cfg["freeRadiusNamespace"] = DeriveNamespace([c EXCEPT !["freeRadiusNamespace"] = ""])

\* Although defaults are derived before and after the flags are parsed, what
\* the operator starts with was derived from settings of one moment, those of
\* the environment or those in force: never, for instance, from the domain name
\* of the environment and the suffix of a flag.
DerivedFromOneSide ==
  pc = "run" =>
    /\ SearchUnset => SearchDerivedFrom(FromEnv(env)) \/ SearchDerivedFrom(cfg)
    /\ NamespaceUnset => NamespaceDerivedFrom(FromEnv(env)) \/ NamespaceDerivedFrom(cfg)

\* "Each setting can be set with an environment variable [...] or a
\* command-line flag" (README.md:23), the comma-separated ones and those "if
\* unset, derived from" others (README.md:31), too: after a start with flags
\* every setting is what the table says.
FlagsCount ==
  pc = "run" /\ (\E f \in Settings : Given(f)) =>
    \A f \in Settings : cfg[f] = Documented[f]

=============================================================================
