------------------------ MODULE DriverLoadingProofs ------------------------
(***************************************************************************)
(* Proofs about DriverLoading for any call, environment and file system.   *)
(***************************************************************************)
EXTENDS DriverLoading, SequenceTheorems, FiniteSetTheorems, TLAPS

\* The application's own options, which no step may touch.
ExplicitKept ==
  /\ \A key \in DOMAIN scenario.args.options \ {"profile", "uri"} :
       /\ key \in DOMAIN args.options
       /\ args.options[key] = scenario.args.options[key]
  /\ \A key \in DOMAIN scenario.args.number_options :
       /\ key \in DOMAIN args.number_options
       /\ args.number_options[key] = scenario.args.number_options[key]

\* LoadProfileFile has looked at the types of the profile's options.
TypesKnown ==
  DOMAIN fs[profile].options
    \subseteq OfType(fs[profile].options, StringTypes)
              \union OfType(fs[profile].options, NumberTypes)

\* The profile's options, once it is applied.
ProfileApplied ==
  /\ \A key \in OfType(fs[profile].options, StringTypes) \ {"uri"} :
       \/ key \in DOMAIN scenario.args.options
       \/ /\ key \in DOMAIN args.options
          /\ args.options[key] = ProcessProfileValue(fs[profile].options[key].value)
  /\ \A key \in DOMAIN NumberOptions :
       \/ key \in DOMAIN scenario.args.number_options
       \/ /\ key \in DOMAIN args.number_options
          /\ args.number_options[key] = NumberOptions[key]
  /\ DOMAIN args.number_options
       \subseteq DOMAIN scenario.args.number_options \union DOMAIN NumberOptions
  /\ TypesKnown

ArgsFields == {"driver", "options", "number_options", "entrypoint", "init_func",
               "load_flags", "additional_manifest_search_path_list",
               "additional_profile_search_path_list"}

BeforeProfile == {"options", "profile", "apply"}

OptionsInv ==
  /\ scenario \in Scenarios
  /\ DOMAIN args = ArgsFields
  /\ ExplicitKept
  /\ pc \in BeforeProfile =>
       /\ DOMAIN args.options \subseteq DOMAIN scenario.args.options
       /\ DOMAIN args.number_options \subseteq DOMAIN scenario.args.number_options
  /\ pc = "options" => profile = <<>>
  /\ pc = "apply" => profile # <<>> /\ TypesKnown
  /\ pc \notin BeforeProfile \union {"failed"} =>
       IF profile # <<>> THEN ProfileApplied
       ELSE DOMAIN args.number_options \subseteq DOMAIN scenario.args.number_options

----------------------------------------------------------------------------
\* At first the options are those of the call.
LEMMA OptionsInit == Init => OptionsInv
  BY ScenariosAssumption
     DEF Init, OptionsInv, ArgsFields, ExplicitKept, BeforeProfile

\* The values of a profile depend on the file and the environment only.
LEMMA ProfileValues ==
  ASSUME UNCHANGED scenario, NEW value
  PROVE  ProcessProfileValue(value)' = ProcessProfileValue(value)
  <1> DEFINE pieces == [i \in DOMAIN value |->
                          IF value[i].type = "text" THEN <<value[i].is>>
                                                    ELSE Getenv(value[i].is)]
  <1>1. \A i \in DOMAIN value : Getenv(value[i].is)' = Getenv(value[i].is)
    BY DEF Getenv, env
  <1>2. pieces' = pieces
    BY <1>1
  <1>3. ProcessProfileValue(value) = FlattenSeq(pieces)
    BY DEF ProcessProfileValue
  <1>4. ProcessProfileValue(value)' = FlattenSeq(pieces)'
    BY DEF ProcessProfileValue
  <1> HIDE DEF pieces
  <1> QED
    BY <1>2, <1>3, <1>4

\* What the profile says does not depend on the rest of the state.
LEMMA ProfileOptions ==
  ASSUME UNCHANGED <<scenario, profile>>
  PROVE  /\ UNCHANGED <<NumberOptions, OfType(fs[profile].options, StringTypes)>>
         /\ UNCHANGED fs
  <1>1. UNCHANGED fs
    BY DEF fs
  <1> QED
    BY <1>1 DEF NumberOptions, OfType

\* ProfileApplied is kept when options are added or one that is not the
\* profile's is changed: only the URI ever is.
LEMMA AppliedKept ==
  ASSUME ProfileApplied, UNCHANGED <<scenario, profile>>,
         \A key \in DOMAIN args.options \ {"uri"} :
           key \in DOMAIN args'.options /\ args'.options[key] = args.options[key],
         UNCHANGED args.number_options
  PROVE  ProfileApplied'
  <1>1. /\ UNCHANGED <<NumberOptions, OfType(fs[profile].options, StringTypes)>>
        /\ UNCHANGED fs
    BY ProfileOptions
  <1>2. ASSUME NEW key \in OfType(fs[profile].options, StringTypes)' \ {"uri"}
        PROVE  \/ key \in DOMAIN scenario'.args.options
               \/ /\ key \in DOMAIN args'.options
                  /\ args'.options[key]
                       = ProcessProfileValue(fs[profile].options[key].value)'
    <2> DEFINE value == fs[profile].options[key].value
    <2>1. value' = value
      BY <1>1
    <2>2. ProcessProfileValue(value)' = ProcessProfileValue(value)
      <3>1. \A v : ProcessProfileValue(v)' = ProcessProfileValue(v)
        BY ProfileValues
      <3> QED
        BY <2>1, <3>1
    <2>3. \/ key \in DOMAIN scenario.args.options
          \/ /\ key \in DOMAIN args.options
             /\ args.options[key] = ProcessProfileValue(value)
      BY <1>1, <1>2 DEF ProfileApplied
    <2> QED
      BY <1>2, <2>2, <2>3
  <1>3. \A key \in DOMAIN NumberOptions' :
          \/ key \in DOMAIN scenario'.args.number_options
          \/ /\ key \in DOMAIN args'.number_options
             /\ args'.number_options[key] = NumberOptions'[key]
    BY <1>1 DEF ProfileApplied
  <1>4. TypesKnown'
    BY <1>1 DEF ProfileApplied, TypesKnown, OfType
  <1>5. DOMAIN args'.number_options
          \subseteq DOMAIN scenario'.args.number_options \union DOMAIN NumberOptions'
    BY <1>1 DEF ProfileApplied
  <1> QED
    BY <1>2, <1>3, <1>4, <1>5 DEF ProfileApplied

\* Steps that look for the driver leave the options alone.
LEMMA SameArgs ==
  ASSUME OptionsInv, UNCHANGED <<scenario, args, profile>>,
         pc' \in BeforeProfile => pc = pc',
         pc = "failed" => pc' = "failed",
         pc \in BeforeProfile /\ profile # <<>> => pc' \in BeforeProfile \union {"failed"}
  PROVE  OptionsInv'
  <1>1. ProfileApplied => ProfileApplied'
    BY AppliedKept
  <1>2. TypesKnown => TypesKnown'
    BY DEF TypesKnown, OfType, fs
  <1> QED
    BY <1>1, <1>2 DEF OptionsInv, ExplicitKept, BeforeProfile

\* Taking the profile's name out of the options keeps the others.
LEMMA ChooseProfileOptions ==
  ASSUME OptionsInv, ChooseProfile
  PROVE  OptionsInv'
  <1>1. /\ pc = "options" /\ UNCHANGED scenario
        /\ pc' = IF profile' = <<>> THEN "driver" ELSE "profile"
    BY DEF ChooseProfile, Goto
  <1>2. \/ args' = args
        \/ args' = [args EXCEPT !.driver = <<>>]
        \/ \E key \in {"profile", "uri"} : args' = [args EXCEPT !.options = Erased(key)]
    BY DEF ChooseProfile
  <1>3. /\ DOMAIN args' = ArgsFields
        /\ UNCHANGED args.number_options
        /\ \/ UNCHANGED args.options
           \/ \E key \in {"profile", "uri"} : args'.options = Erased(key)
    BY <1>2 DEF OptionsInv, ArgsFields
  <1>4. /\ DOMAIN args'.options \subseteq DOMAIN args.options
        /\ \A key \in DOMAIN args.options \ {"profile", "uri"} :
             key \in DOMAIN args'.options /\ args'.options[key] = args.options[key]
    BY <1>3 DEF Erased, Restrict
  <1>5. ExplicitKept'
    BY <1>1, <1>3, <1>4 DEF OptionsInv, ExplicitKept
  <1>6. /\ DOMAIN args'.options \subseteq DOMAIN scenario'.args.options
        /\ DOMAIN args'.number_options \subseteq DOMAIN scenario'.args.number_options
    BY <1>1, <1>3, <1>4 DEF OptionsInv, BeforeProfile
  <1> QED
    BY <1>1, <1>3, <1>5, <1>6 DEF OptionsInv, BeforeProfile

\* Looking for the profile's file leaves the options alone.
LEMMA FindProfileOptions ==
  ASSUME OptionsInv, FindProfile
  PROVE  OptionsInv'
  <1>1. pc = "profile" /\ pc' \in {"failed", "apply"} /\ UNCHANGED <<scenario, args>>
    BY DEF FindProfile, Goto, Fail
  <1>2. UNCHANGED fs
    BY <1>1 DEF fs
  <1>3. ASSUME pc' = "apply" PROVE ProfileIsValid(profile')
    BY <1>3 DEF FindProfile, Fail
  <1>4. ASSUME pc' = "apply" PROVE profile' # <<>> /\ TypesKnown'
    <2>1. profile' \in DOMAIN fs
      BY <1>3, <1>4 DEF ProfileIsValid, Exists
    <2>2. profile' # <<>>
      BY <2>1, ScenariosAssumption DEF OptionsInv, fs
    <2>3. DOMAIN fs[profile'].options
            = OfType(fs[profile'].options, StringTypes \union NumberTypes)
      BY <1>3, <1>4 DEF ProfileIsValid
    <2> QED
      BY <1>2, <2>2, <2>3 DEF TypesKnown, OfType
  <1> QED
    BY <1>1, <1>4 DEF OptionsInv, ExplicitKept, BeforeProfile

\* A value of the profile that cannot be processed: the options that were
\* visited before it do not replace one that was set.
LEMMA ValueInvalidOptions ==
  ASSUME OptionsInv, ProfileValueInvalid
  PROVE  OptionsInv'
  <1>1. pc' = "failed" /\ UNCHANGED <<scenario, profile>>
    BY DEF ProfileValueInvalid, Fail
  <1>2. PICK new :
          args' = [args EXCEPT !.driver = ProfileDriver,
                               !.options = TryEmplace(args.options, new)]
    BY DEF ProfileValueInvalid
  <1>3. /\ DOMAIN args' = ArgsFields
        /\ UNCHANGED args.number_options
        /\ args'.options = TryEmplace(args.options, new)
    BY <1>2 DEF OptionsInv, ArgsFields
  <1>4. \A key \in DOMAIN args.options :
          key \in DOMAIN args'.options /\ args'.options[key] = args.options[key]
    BY <1>3 DEF TryEmplace
  <1>5. ExplicitKept'
    BY <1>1, <1>3, <1>4 DEF OptionsInv, ExplicitKept
  <1> QED
    BY <1>1, <1>3, <1>5 DEF OptionsInv, BeforeProfile

\* The profile adds its options to those that were set.
LEMMA ApplyProfileOptions ==
  ASSUME OptionsInv, InternalInitializeProfile
  PROVE  OptionsInv'
  <1>1. pc = "apply" /\ pc' = "driver" /\ UNCHANGED <<scenario, profile>>
    BY DEF InternalInitializeProfile, Goto
  <1> DEFINE strings == StringOptions(Processable)
  <1>2. args' = [args EXCEPT !.driver = ProfileDriver,
                             !.options = TryEmplace(args.options, strings),
                             !.number_options =
                                TryEmplace(args.number_options, NumberOptions)]
    BY DEF InternalInitializeProfile
  <1>3. /\ DOMAIN strings = OfType(fs[profile].options, StringTypes)
        /\ \A key \in DOMAIN strings :
             strings[key] = ProcessProfileValue(fs[profile].options[key].value)
    BY DEF InternalInitializeProfile, StringOptions
  <1> HIDE DEF strings
  <1>4. /\ DOMAIN args' = ArgsFields
        /\ args'.options = TryEmplace(args.options, strings)
        /\ args'.number_options = TryEmplace(args.number_options, NumberOptions)
    BY <1>2 DEF OptionsInv, ArgsFields
  <1>5. /\ DOMAIN args'.options = DOMAIN args.options \union DOMAIN strings
        /\ \A key \in DOMAIN args.options : args'.options[key] = args.options[key]
        /\ \A key \in DOMAIN strings \ DOMAIN args.options :
             args'.options[key] = strings[key]
    BY <1>4 DEF TryEmplace
  <1>6. /\ DOMAIN args'.number_options
             = DOMAIN args.number_options \union DOMAIN NumberOptions
        /\ \A key \in DOMAIN args.number_options :
             args'.number_options[key] = args.number_options[key]
        /\ \A key \in DOMAIN NumberOptions \ DOMAIN args.number_options :
             args'.number_options[key] = NumberOptions[key]
    BY <1>4 DEF TryEmplace
  <1>7. ExplicitKept'
    BY <1>1, <1>5, <1>6 DEF OptionsInv, ExplicitKept
  <1>8. ProfileApplied'
    <2>1. /\ UNCHANGED <<NumberOptions, OfType(fs[profile].options, StringTypes)>>
          /\ UNCHANGED fs
      BY <1>1, ProfileOptions
    <2>2. /\ DOMAIN args.options \subseteq DOMAIN scenario.args.options
          /\ DOMAIN args.number_options \subseteq DOMAIN scenario.args.number_options
      BY <1>1 DEF OptionsInv, BeforeProfile
    <2>3. ASSUME NEW key \in OfType(fs[profile].options, StringTypes)' \ {"uri"}
          PROVE  \/ key \in DOMAIN scenario'.args.options
                 \/ /\ key \in DOMAIN args'.options
                    /\ args'.options[key]
                         = ProcessProfileValue(fs[profile].options[key].value)'
      <3> DEFINE value == fs[profile].options[key].value
      <3>1. value' = value
        BY <1>1, <2>1
      <3>2. ProcessProfileValue(value)' = ProcessProfileValue(value)
        <4>1. \A v : ProcessProfileValue(v)' = ProcessProfileValue(v)
          BY <1>1, ProfileValues
        <4> QED
          BY <3>1, <4>1
      <3>3. key \in DOMAIN strings /\ strings[key] = ProcessProfileValue(value)
        BY <1>3, <2>1, <2>3
      <3> HIDE DEF value
      <3>4. \/ key \in DOMAIN scenario'.args.options
            \/ /\ key \in DOMAIN args'.options
               /\ args'.options[key] = ProcessProfileValue(value)'
        BY <1>1, <1>5, <2>2, <3>2, <3>3
      <3> QED
        BY <3>4 DEF value
    <2>4. \A key \in DOMAIN NumberOptions' :
            \/ key \in DOMAIN scenario'.args.number_options
            \/ /\ key \in DOMAIN args'.number_options
               /\ args'.number_options[key] = NumberOptions'[key]
      BY <1>1, <1>6, <2>1, <2>2
    <2>5. TypesKnown'
      BY <1>1, <2>1 DEF OptionsInv, TypesKnown, OfType
    <2>6. DOMAIN args'.number_options
            \subseteq DOMAIN scenario'.args.number_options \union DOMAIN NumberOptions'
      BY <1>1, <1>6, <2>1, <2>2
    <2> QED
      BY <2>3, <2>4, <2>5, <2>6 DEF ProfileApplied
  <1> QED
    BY <1>1, <1>4, <1>7, <1>8 DEF OptionsInv, BeforeProfile

\* The driver is taken out of a string: only the URI changes.
LEMMA ParseOptions ==
  ASSUME OptionsInv, ParseDriver \/ ParseUri
  PROVE  OptionsInv'
  <1>1. /\ pc \in {"driver", "uri"} /\ pc' \in {"failed", "uri", "locate"}
        /\ UNCHANGED <<scenario, profile>>
    BY DEF ParseDriver, ParseUri, Goto, Fail
  <1>2. \/ args' = args
        \/ \E value : args' = [args EXCEPT !.driver = value]
        \/ \E parsed : SetDriverAndUri(parsed)
    BY DEF ParseDriver, ParseUri
  <1>3. /\ DOMAIN args' = ArgsFields
        /\ UNCHANGED args.number_options
        /\ \/ UNCHANGED args.options
           \/ \E value :
                args'.options = Overwrite(args.options, [key \in {"uri"} |-> value])
    BY <1>2 DEF OptionsInv, ArgsFields, SetDriverAndUri
  <1>4. \A key \in DOMAIN args.options \ {"uri"} :
          key \in DOMAIN args'.options /\ args'.options[key] = args.options[key]
    BY <1>3 DEF Overwrite
  <1>5. ExplicitKept'
    BY <1>1, <1>3, <1>4 DEF OptionsInv, ExplicitKept
  <1>6. ProfileApplied => ProfileApplied'
    BY <1>1, <1>3, <1>4, AppliedKept
  <1> QED
    BY <1>1, <1>3, <1>5, <1>6 DEF OptionsInv, BeforeProfile

\* Every step of AdbcDatabaseInit keeps OptionsInv.
LEMMA OptionsStep == OptionsInv /\ [Next]_vars => OptionsInv'
  <1> SUFFICES ASSUME OptionsInv, [Next]_vars PROVE OptionsInv'
    OBVIOUS
  <1>1. CASE UseInitFunc \/ MultipleProfiles \/ DriverMismatch
    BY <1>1, SameArgs
       DEF UseInitFunc, MultipleProfiles, DriverMismatch, Goto, Fail, BeforeProfile,
           OptionsInv
  <1>2. CASE DriverIsKnown \/ LoadPath \/ LoadAbsolute \/ FindDriver \/ Lookup
    <2>1. /\ UNCHANGED <<scenario, args, profile>>
          /\ pc \in {"uri", "locate", "entrypoint"}
          /\ pc' \in {"locate", "entrypoint", "search", "loaded", "failed"}
      BY <1>2
         DEF DriverIsKnown, LoadPath, LoadAbsolute, FindDriver, Lookup, LoadOrFail, Goto,
             Fail
    <2> QED
      BY <2>1, SameArgs DEF BeforeProfile
  <1>3. CASE ListEnds \/ ManifestHere \/ LibraryHere \/ LoadByName
    <2>1. /\ UNCHANGED <<scenario, args, profile>>
          /\ pc = "search" /\ pc' \in {"search", "entrypoint", "failed"}
      BY <1>3
         DEF ListEnds, ManifestHere, LibraryHere, LoadByName, SearchOn, LoadOrFail, Goto,
             Fail
    <2> QED
      BY <2>1, SameArgs DEF BeforeProfile
  <1>4. CASE Ended \/ UNCHANGED vars
    <2>1. UNCHANGED <<scenario, args, profile, pc>>
      BY <1>4 DEF Ended, vars
    <2> QED
      BY <2>1, SameArgs
  <1> QED
    BY <1>1, <1>2, <1>3, <1>4, ChooseProfileOptions, FindProfileOptions,
       ValueInvalidOptions, ApplyProfileOptions, ParseOptions
       DEF Next

----------------------------------------------------------------------------
(***************************************************************************)
(* The URI                                                                 *)
(***************************************************************************)
UriKept ==
  /\ "uri" \in DOMAIN args.options
  /\ args.options["uri"] = scenario.args.options["uri"]

ProfileHasDriver == profile # <<>> /\ fs[profile].driver # <<>>

CallHasNoDriver ==
  \/ scenario.args.driver = <<>>
  \/ InternalAdbcParseDriverUri(scenario.args.driver).form = "profile"

\* The driver as the call has named it, without the name of a profile.
DriverOfCall ==
  \/ args.driver = scenario.args.driver
  \/ args.driver = <<>> /\ CallHasNoDriver

\* A driver string has replaced the URI.
UriReplaced ==
  OverriddenByDriver \/ InternalAdbcParseDriverUri(scenario.args.driver).form = "uri"

\* The URI has named the driver.
UriSplit ==
  LET uri == InternalAdbcParseDriverUri(scenario.args.options["uri"]) IN
  /\ uri.form = "uri" /\ ~ProfileHasDriver /\ CallHasNoDriver
  /\ "uri" \in DOMAIN args.options /\ args.options["uri"] = uri.rest

UriInv ==
  /\ pc = "options" => args.driver = scenario.args.driver
  /\ pc \in {"profile", "apply"} => DriverOfCall
  /\ pc = "driver" => IF ProfileHasDriver THEN args.driver = fs[profile].driver
                                          ELSE DriverOfCall
  /\ pc = "uri" /\ args.driver = <<>> =>
       UriReplaced \/ (~ProfileHasDriver /\ CallHasNoDriver)
  /\ "uri" \in DOMAIN scenario.args.options /\ pc # "failed" =>
       \/ UriKept
       \/ InternalAdbcParseDriverUri(scenario.args.options["uri"]).form = "profile"
       \/ pc \notin BeforeProfile \union {"driver"} /\ UriReplaced
       \/ pc \notin BeforeProfile \union {"driver", "uri"} /\ UriSplit

\* At first driver and URI are those of the call.
LEMMA UriInit == Init => UriInv
  BY DEF Init, UriInv, UriKept

\* Steps that change neither.
LEMMA SameUri ==
  ASSUME UriInv, UNCHANGED <<scenario, args, profile>>,
         \/ pc' \in {"failed", pc}
         \/ pc = "options" /\ pc' = "loaded"
         \/ /\ pc \notin BeforeProfile \union {"driver", "failed"}
            /\ pc' \notin BeforeProfile \union {"driver", "uri"}
  PROVE  UriInv'
  <1>1. UNCHANGED fs
    BY DEF fs
  <1>2. UNCHANGED <<UriKept, ProfileHasDriver, CallHasNoDriver, OverriddenByDriver>>
    BY <1>1 DEF UriKept, ProfileHasDriver, CallHasNoDriver, OverriddenByDriver
  <1>3. UNCHANGED <<DriverOfCall, UriReplaced, UriSplit>>
    BY <1>1, <1>2 DEF DriverOfCall, UriReplaced, UriSplit
  <1> QED
    BY <1>1, <1>2, <1>3 DEF UriInv, BeforeProfile

\* The URI is taken out only if it names a profile.
LEMMA ChooseProfileUri ==
  ASSUME OptionsInv, UriInv, ChooseProfile
  PROVE  UriInv'
  <1>1. /\ pc = "options" /\ UNCHANGED scenario /\ profile = <<>>
        /\ pc' = IF profile' = <<>> THEN "driver" ELSE "profile"
    BY DEF ChooseProfile, Goto, OptionsInv
  <1>2. /\ args.driver = scenario.args.driver
        /\ DOMAIN args = ArgsFields
    BY <1>1 DEF UriInv, OptionsInv
  <1>3. \/ /\ UNCHANGED <<args.driver, args.options>>
        \/ /\ UNCHANGED args.driver /\ args'.options = Erased("profile")
        \/ /\ UNCHANGED args.driver /\ args'.options = Erased("uri")
           /\ InternalAdbcParseDriverUri(Option("uri")).form = "profile"
        \/ /\ args'.driver = <<>> /\ UNCHANGED args.options
           /\ InternalAdbcParseDriverUri(args.driver).form = "profile"
    BY <1>2 DEF ChooseProfile, ArgsFields, ProfileSources
  <1>4. DriverOfCall'
    BY <1>1, <1>2, <1>3 DEF DriverOfCall, CallHasNoDriver
  <1>5. pc' = "driver" => ~ProfileHasDriver'
    BY <1>1 DEF ProfileHasDriver
  <1>6. ASSUME "uri" \in DOMAIN scenario'.args.options
        PROVE  \/ UriKept'
               \/ InternalAdbcParseDriverUri(scenario'.args.options["uri"]).form = "profile"
    <2>1. CASE ~UriKept
      <3>1. InternalAdbcParseDriverUri(scenario.args.options["uri"]).form = "profile"
        BY <1>1, <1>6, <2>1 DEF UriInv, BeforeProfile
      <3> QED
        BY <1>1, <3>1
    <2>2. CASE UriKept
      BY <1>1, <1>3, <2>2 DEF UriKept, Erased, Restrict, Option
    <2> QED
      BY <2>1, <2>2
  <1> QED
    BY <1>1, <1>4, <1>5, <1>6 DEF UriInv, BeforeProfile

\* The file of the profile is found: nothing has been made of it yet.
LEMMA FindProfileUri ==
  ASSUME UriInv, FindProfile
  PROVE  UriInv'
  <1>1. pc = "profile" /\ pc' \in {"failed", "apply"} /\ UNCHANGED <<scenario, args>>
    BY DEF FindProfile, Goto, Fail
  <1>2. UNCHANGED <<UriKept, DriverOfCall>>
    BY <1>1 DEF UriKept, DriverOfCall, CallHasNoDriver
  <1> QED
    BY <1>1, <1>2 DEF UriInv, BeforeProfile

\* The profile may name the driver, and a URI if there is none.
LEMMA ApplyProfileUri ==
  ASSUME OptionsInv, UriInv, InternalInitializeProfile
  PROVE  UriInv'
  <1>1. /\ pc = "apply" /\ pc' = "driver" /\ UNCHANGED <<scenario, profile>>
        /\ profile # <<>>
    BY DEF InternalInitializeProfile, Goto, OptionsInv
  <1>2. /\ args'.driver = ProfileDriver
        /\ args'.options = TryEmplace(args.options, StringOptions(Processable))
    BY DEF InternalInitializeProfile, OptionsInv, ArgsFields
  <1>3. UriKept => UriKept'
    BY <1>1, <1>2 DEF UriKept, TryEmplace
  <1>4. UNCHANGED <<fs, ProfileHasDriver, CallHasNoDriver>>
    BY <1>1 DEF fs, ProfileHasDriver, CallHasNoDriver
  <1>5. DriverOfCall
    BY <1>1 DEF UriInv
  <1>6. IF ProfileHasDriver' THEN args'.driver = fs'[profile'].driver ELSE DriverOfCall'
    BY <1>1, <1>2, <1>4, <1>5 DEF DriverOfCall, ProfileDriver, ProfileHasDriver
  <1> QED
    BY <1>1, <1>3, <1>6 DEF UriInv, BeforeProfile

\* An empty string names neither driver nor URI.
LEMMA EmptyString == InternalAdbcParseDriverUri(<<>>).form = "none"
  <1>1. SelectInSeq(<<>>, LAMBDA t : t = ":") = 0
    BY DEF SelectInSeq
  <1> QED
    BY <1>1 DEF InternalAdbcParseDriverUri

\* A URI in the driver replaces the one that was set.
LEMMA ParseDriverUri ==
  ASSUME OptionsInv, UriInv, ParseDriver
  PROVE  UriInv'
  <1> DEFINE parsed == InternalAdbcParseDriverUri(args.driver)
  <1>1. /\ pc = "driver" /\ pc' \in {"failed", "uri"} /\ UNCHANGED <<scenario, profile>>
        /\ UNCHANGED fs
    BY DEF ParseDriver, Goto, Fail, fs
  <1>2. UNCHANGED <<ProfileHasDriver, CallHasNoDriver, UriReplaced>>
    BY <1>1 DEF ProfileHasDriver, CallHasNoDriver, UriReplaced, OverriddenByDriver
  <1>3. CASE parsed.form = "uri"
    <2>1. UriReplaced
      BY <1>1, <1>3, EmptyString
         DEF UriInv, DriverOfCall, ProfileHasDriver, UriReplaced, OverriddenByDriver
    <2> QED
      BY <1>1, <1>2, <2>1 DEF UriInv, BeforeProfile
  <1>4. CASE UNCHANGED args
    <2>1. UriKept => UriKept'
      BY <1>1, <1>4 DEF UriKept
    <2>2. args.driver = <<>> => ~ProfileHasDriver /\ CallHasNoDriver
      BY <1>1 DEF UriInv, DriverOfCall, ProfileHasDriver, CallHasNoDriver
    <2> QED
      BY <1>1, <1>2, <1>4, <2>1, <2>2 DEF UriInv, BeforeProfile
  <1> QED
    BY <1>3, <1>4 DEF ParseDriver

\* Without a driver the URI names it.
LEMMA ParseUriUri ==
  ASSUME OptionsInv, UriInv, ParseUri
  PROVE  UriInv'
  <1> DEFINE parsed == InternalAdbcParseDriverUri(Option("uri"))
             uri == InternalAdbcParseDriverUri(scenario.args.options["uri"])
  <1>1. /\ pc = "uri" /\ pc' \in {"failed", "locate"} /\ UNCHANGED <<scenario, profile>>
        /\ UNCHANGED fs /\ args.driver = <<>> /\ DOMAIN args = ArgsFields
    BY DEF ParseUri, Goto, Fail, fs, OptionsInv
  <1>2. UNCHANGED <<ProfileHasDriver, CallHasNoDriver, UriReplaced, uri>>
    BY <1>1 DEF ProfileHasDriver, CallHasNoDriver, UriReplaced, OverriddenByDriver
  <1>3. UriReplaced \/ (~ProfileHasDriver /\ CallHasNoDriver)
    BY <1>1 DEF UriInv
  <1>4. "uri" \in DOMAIN scenario.args.options =>
          UriKept \/ uri.form = "profile" \/ UriReplaced
    BY <1>1 DEF UriInv
  <1>5. CASE parsed.form = "uri" /\ SetDriverAndUri(parsed)
    <2>1. args'.options = Overwrite(args.options, [key \in {"uri"} |-> parsed.rest])
      BY <1>1, <1>5 DEF SetDriverAndUri, ArgsFields
    <2>2. "uri" \in DOMAIN args'.options /\ args'.options["uri"] = parsed.rest
      BY <2>1 DEF Overwrite
    <2>3. UriKept => parsed = uri
      BY DEF UriKept, Option
    <2>4. UriKept /\ ~UriReplaced => UriSplit'
      BY <1>1, <1>2, <1>3, <1>5, <2>2, <2>3 DEF UriSplit
    <2> QED
      BY <1>1, <1>2, <1>4, <2>4 DEF UriInv, BeforeProfile
  <1>6. CASE UNCHANGED args.options
    <2>1. UriKept => UriKept'
      BY <1>1, <1>6 DEF UriKept
    <2> QED
      BY <1>1, <1>2, <1>4, <2>1 DEF UriInv, BeforeProfile
  <1> QED
    BY <1>1, <1>5, <1>6 DEF ParseUri, ArgsFields

\* Every step of AdbcDatabaseInit keeps UriInv.
LEMMA UriStep == OptionsInv /\ UriInv /\ [Next]_vars => UriInv'
  <1> SUFFICES ASSUME OptionsInv, UriInv, [Next]_vars PROVE UriInv'
    OBVIOUS
  <1>1. CASE UseInitFunc \/ MultipleProfiles \/ DriverMismatch
    BY <1>1, SameUri DEF UseInitFunc, MultipleProfiles, DriverMismatch, Goto, Fail
  <1>2. CASE DriverIsKnown \/ LoadPath \/ LoadAbsolute \/ FindDriver \/ Lookup
    <2>1. /\ UNCHANGED <<scenario, args, profile>>
          /\ pc \in {"uri", "locate", "entrypoint"}
          /\ pc' \in {"locate", "entrypoint", "search", "loaded", "failed"}
      BY <1>2
         DEF DriverIsKnown, LoadPath, LoadAbsolute, FindDriver, Lookup, LoadOrFail, Goto,
             Fail
    <2> QED
      BY <2>1, SameUri DEF BeforeProfile
  <1>3. CASE ListEnds \/ ManifestHere \/ LibraryHere \/ LoadByName
    <2>1. /\ UNCHANGED <<scenario, args, profile>>
          /\ pc = "search" /\ pc' \in {"search", "entrypoint", "failed"}
      BY <1>3
         DEF ListEnds, ManifestHere, LibraryHere, LoadByName, SearchOn, LoadOrFail, Goto,
             Fail
    <2> QED
      BY <2>1, SameUri DEF BeforeProfile
  <1>4. CASE Ended \/ UNCHANGED vars
    <2>1. UNCHANGED <<scenario, args, profile, pc>>
      BY <1>4 DEF Ended, vars
    <2> QED
      BY <2>1, SameUri
  <1>5. CASE ProfileValueInvalid
    <2>1. pc' = "failed"
      BY <1>5 DEF ProfileValueInvalid, Fail
    <2> QED
      BY <2>1 DEF UriInv
  <1> QED
    BY <1>1, <1>2, <1>3, <1>4, <1>5, ChooseProfileUri, FindProfileUri, ApplyProfileUri,
       ParseDriverUri, ParseUriUri
       DEF Next

----------------------------------------------------------------------------
\* The kinds of LastGiven, in the order in which the driver is given them.
LEMMA LastGivenIs ==
  ASSUME NEW a, NEW key
  PROVE  /\ <<"float", key>> \in DOMAIN a.number_options =>
              LastGiven(a, key) = <<"float", a.number_options[<<"float", key>>]>>
         /\ /\ <<"float", key>> \notin DOMAIN a.number_options
            /\ <<"integer", key>> \in DOMAIN a.number_options
            => LastGiven(a, key) = <<"integer", a.number_options[<<"integer", key>>]>>
         /\ /\ <<"float", key>> \notin DOMAIN a.number_options
            /\ <<"integer", key>> \notin DOMAIN a.number_options
            /\ key \in DOMAIN a.options
            => LastGiven(a, key) = <<"string", a.options[key]>>
  BY DEF LastGiven

\* A key of the profile has one type.
LEMMA NumberOptionsAre ==
  ASSUME NEW type, NEW key
  PROVE  /\ <<type, key>> \in DOMAIN NumberOptions <=>
              /\ key \in OfType(fs[profile].options, NumberTypes)
              /\ type = fs[profile].options[key].type
         /\ <<type, key>> \in DOMAIN NumberOptions =>
              NumberOptions[<<type, key>>] = fs[profile].options[key].value
  BY DEF NumberOptions

\* The numbers the driver is given are the application's and the profile's.
LEMMA NumbersGiven ==
  ASSUME OptionsInv, pc = "loaded", NEW type, NEW key,
         <<type, key>> \in DOMAIN args.number_options,
         <<type, key>> \notin DOMAIN scenario.args.number_options
  PROVE  /\ profile # <<>> /\ key \in OfType(fs[profile].options, NumberTypes)
         /\ type = fs[profile].options[key].type
  <1>1. profile # <<>> /\ <<type, key>> \in DOMAIN NumberOptions
    BY DEF OptionsInv, BeforeProfile, ProfileApplied
  <1> QED
    BY <1>1, NumberOptionsAre

\* What the application has set is what the driver has at the end.
LEMMA ExplicitGiven ==
  ASSUME OptionsInv, UriInv, pc = "loaded", NEW key \in ExplicitKeys,
         ~OverriddenByNumber(key), ~(key = "uri" /\ (OverriddenByDriver \/ UriIsUsed))
  PROVE  LastGiven(args, key) = LastGiven(scenario.args, key)
  <1> DEFINE explicit == scenario.args.number_options
             numbers == args.number_options
             f == <<"float", key>>
             i == <<"integer", key>>
  <1>1. \A k \in DOMAIN explicit : k \in DOMAIN numbers /\ numbers[k] = explicit[k]
    BY DEF OptionsInv, ExplicitKept
  <1>2. CASE f \in DOMAIN explicit
    <2>1. /\ LastGiven(args, key) = <<"float", numbers[f]>>
          /\ LastGiven(scenario.args, key) = <<"float", explicit[f]>>
      BY <1>1, <1>2, LastGivenIs
    <2>2. numbers[f] = explicit[f]
      BY <1>1, <1>2
    <2> HIDE DEF numbers, explicit
    <2> QED
      BY <2>1, <2>2
  <1>3. CASE f \notin DOMAIN explicit
    <2>1. f \notin DOMAIN numbers
      BY <1>3, NumbersGiven DEF OverriddenByNumber
    <2>2. CASE i \in DOMAIN explicit
      <3>1. i \in DOMAIN numbers /\ numbers[i] = explicit[i]
        BY <1>1, <2>2
      <3>2. /\ LastGiven(args, key) = <<"integer", numbers[i]>>
            /\ LastGiven(scenario.args, key) = <<"integer", explicit[i]>>
        BY <1>3, <2>1, <2>2, <3>1, LastGivenIs
      <3> HIDE DEF numbers, explicit
      <3> QED
        BY <3>1, <3>2
    <2>3. CASE i \notin DOMAIN explicit
      <3>1. i \notin DOMAIN numbers
        BY <1>3, <2>3, NumbersGiven DEF OverriddenByNumber
      <3>2. CASE key \in DOMAIN scenario.args.options \ {"profile", "uri"}
        <4>1. key \in DOMAIN args.options /\ args.options[key] = scenario.args.options[key]
          BY <3>2 DEF OptionsInv, ExplicitKept
        <4> QED
          BY <1>3, <2>1, <2>3, <3>1, <3>2, <4>1, LastGivenIs
      <3>3. CASE key = "uri" /\ "uri" \in DOMAIN scenario.args.options
        <4>1. CASE UriKept
          BY <1>3, <2>1, <2>3, <3>1, <3>3, <4>1, LastGivenIs DEF UriKept
        <4>2. CASE UriReplaced
          BY <3>3, <4>2 DEF UriReplaced, UriIsUsed
        <4>3. CASE UriSplit
          <5>1. LastGiven(args, "uri") = <<"string", args.options["uri"]>>
            BY <2>1, <3>1, <3>3, <4>3, LastGivenIs DEF UriSplit
          <5> QED
            BY <3>3, <4>3, <5>1 DEF UriSplit, UriIsUsed, ProfileHasDriver, CallHasNoDriver
        <4>4. CASE InternalAdbcParseDriverUri(scenario.args.options["uri"]).form = "profile"
          BY <3>3, <4>4 DEF UriIsUsed
        <4> QED
          BY <3>3, <4>1, <4>2, <4>3, <4>4 DEF UriInv
      <3>4. CASE key \in ExplicitNumbers
        <4>1. PICK k \in DOMAIN explicit : key = k[2]
          BY <3>4 DEF ExplicitNumbers
        <4>2. k \in {"integer", "float"} \X STRING
          BY <4>1, ScenariosAssumption DEF OptionsInv
        <4>3. k = f \/ k = i
          BY <4>1, <4>2
        <4> QED
          BY <1>3, <2>3, <4>1, <4>3
      <3> QED
        BY <3>2, <3>3, <3>4 DEF ExplicitKeys
    <2> QED
      BY <2>2, <2>3
  <1> QED
    BY <1>2, <1>3

\* What only the profile sets is what the driver has at the end.
LEMMA ProfileGiven ==
  ASSUME OptionsInv, pc = "loaded", profile # <<>>,
         NEW key \in DOMAIN fs[profile].options \ (ExplicitKeys \union {"profile", "uri"})
  PROVE  LET option == fs[profile].options[key] IN
         LastGiven(args, key) =
           IF option.type \in NumberTypes THEN <<option.type, option.value>>
           ELSE <<"string", ProcessProfileValue(option.value)>>
  <1> DEFINE option == fs[profile].options[key]
             explicit == scenario.args.number_options
             numbers == args.number_options
  <1>1. ProfileApplied
    BY DEF OptionsInv, BeforeProfile
  <1>2. \A type : <<type, key>> \notin DOMAIN explicit
    <2>1. \A type : <<type, key>>[2] = key
      OBVIOUS
    <2> QED
      BY <2>1 DEF ExplicitKeys, ExplicitNumbers
  <1>3. key \notin DOMAIN scenario.args.options
    BY DEF ExplicitKeys
  <1>4. \A type : <<type, key>> \in DOMAIN numbers =>
                    type = option.type /\ option.type \in NumberTypes
    BY <1>2, NumbersGiven DEF OfType
  <1>5. CASE option.type \in NumberTypes
    <2>1. <<option.type, key>> \in DOMAIN NumberOptions
      BY <1>5, NumberOptionsAre DEF OfType
    <2>2. /\ <<option.type, key>> \in DOMAIN numbers
          /\ numbers[<<option.type, key>>] = option.value
      BY <1>1, <1>2, <2>1, NumberOptionsAre DEF ProfileApplied
    <2>3. option.type \in {"integer", "float"}
      BY <1>5 DEF NumberTypes
    <2>4. option.type = "integer" => <<"float", key>> \notin DOMAIN numbers
      BY <1>4
    <2> HIDE DEF option, numbers
    <2>5. LastGiven(args, key) = <<option.type, numbers[<<option.type, key>>]>>
      <3>1. CASE option.type = "integer"
        BY <2>2, <2>4, <3>1, LastGivenIs DEF numbers
      <3>2. CASE option.type = "float"
        <4>1. <<"float", key>> \in DOMAIN args.number_options
          BY <2>2, <3>2 DEF numbers
        <4>2. LastGiven(args, key) = <<"float", args.number_options[<<"float", key>>]>>
          BY <4>1, LastGivenIs
        <4> QED
          BY <3>2, <4>2 DEF numbers
      <3> QED
        BY <2>3, <3>1, <3>2
    <2>6. LastGiven(args, key) = <<option.type, option.value>>
      BY <2>2, <2>5
    <2> QED
      BY <1>5, <2>6 DEF option
  <1>6. CASE option.type \notin NumberTypes
    <2>1. key \in OfType(fs[profile].options, StringTypes) \ {"uri"}
      BY <1>1, <1>6 DEF ProfileApplied, TypesKnown, OfType
    <2>2. /\ key \in DOMAIN args.options
          /\ args.options[key] = ProcessProfileValue(option.value)
      BY <1>1, <1>3, <2>1 DEF ProfileApplied
    <2>3. \A type : <<type, key>> \notin DOMAIN numbers
      BY <1>4, <1>6
    <2>4. LastGiven(args, key) = <<"string", args.options[key]>>
      BY <2>2, <2>3, LastGivenIs
    <2> QED
      BY <1>6, <2>2, <2>4
  <1> QED
    BY <1>5, <1>6

\* For every call, profile and environment: the value the driver has at the end
\* of a key that the application has set is the application's, except where a
\* number of the profile or a URI in its driver replaces it; that of another
\* key of the profile is the profile's.
THEOREM OptionsReachDriver == Spec => []ExplicitOptionsWin
  <1>1. OptionsInv /\ UriInv => ExplicitOptionsWin
    BY ExplicitGiven, ProfileGiven DEF ExplicitOptionsWin
  <1>2. Init => OptionsInv /\ UriInv
    BY OptionsInit, UriInit
  <1>3. OptionsInv /\ UriInv /\ [Next]_vars => (OptionsInv /\ UriInv)'
    BY OptionsStep, UriStep
  <1> QED
    BY <1>1, <1>2, <1>3, PTL DEF Spec

----------------------------------------------------------------------------
(***************************************************************************)
(* The search                                                              *)
(***************************************************************************)
Elements(q) == {q[i] : i \in DOMAIN q}

IsSequence(q) == q \in Seq(Elements(q))

\* What is left of dirs after its first n elements.
IsRest(rest, dirs, n) ==
  /\ rest \in Seq(Elements(dirs))
  /\ Len(rest) = Len(dirs) - n
  /\ \A i \in 1 .. Len(rest) : rest[i] = dirs[n + i]

\* A directory at which the search ends: it has a manifest of this platform,
\* be it malformed, whose library can be loaded, or a library that can be.
Decides(dir) ==
  IF Exists(ManifestIn(dir)) /\ ManifestStatus(ManifestIn(dir)) # "NOT_FOUND"
  THEN ManifestStatus(ManifestIn(dir)) = "OK" => CanLoad(fs[ManifestIn(dir)].shared)
  ELSE CanLoad(Join(dir, args.driver))

\* The search of a list is at the directory after the n-th, and none before it
\* had a driver.
SearchingIn(dirs) ==
  \E n \in 0 .. Len(dirs) :
    IsRest(paths, dirs, n) /\ \A i \in 1 .. n : ~Decides(dirs[i])

\* Whatever the search of a list has gone past was hidden.
Excused(dirs) ==
  \A i \in 1 .. Len(dirs) :
    Decides(dirs[i]) => \E k \in 1 .. i - 1 : Dangles(dirs[k])

SearchEnded == {"entrypoint", "loaded", "failed"}

SearchInv ==
  /\ scenario \in Scenarios
  /\ args.additional_manifest_search_path_list \in Seq(STRING)
  /\ list \in {"none", "first", "second", "name"}
  /\ pc \notin {"search"} \union SearchEnded => list = "none"
  /\ pc = "search" => list # "none"
  /\ list = "first" => SearchingIn(FirstDirectories)
  /\ list = "second" => Excused(FirstDirectories) /\ SearchingIn(SecondDirectories)
  /\ list = "name" =>
       paths = <<>> /\ Excused(FirstDirectories) /\ Excused(SecondDirectories)
  /\ list \in {"first", "second"} /\ pc \in SearchEnded =>
       paths # <<>> /\ TakenFrom(Head(paths))

----------------------------------------------------------------------------
\* A sequence over some set is one over its own elements.
LEMMA ElementsSuffice ==
  ASSUME NEW S, NEW q \in Seq(S)
  PROVE  IsSequence(q)
  <1>1. Len(q) \in Nat /\ q \in [1 .. Len(q) -> S] /\ DOMAIN q = 1 .. Len(q)
    BY LenProperties
  <1>2. q \in [1 .. Len(q) -> Elements(q)]
    BY <1>1 DEF Elements
  <1> QED
    BY <1>1, <1>2, SeqDef DEF IsSequence

\* Where the elements of a concatenation are.
LEMMA Concatenation ==
  ASSUME NEW a, NEW b, IsSequence(a), IsSequence(b)
  PROVE  /\ IsSequence(a \o b)
         /\ Len(a) \in Nat /\ Len(b) \in Nat
         /\ Len(a \o b) = Len(a) + Len(b)
         /\ DOMAIN (a \o b) = 1 .. Len(a) + Len(b)
         /\ \A i \in 1 .. Len(a) : (a \o b)[i] = a[i]
         /\ \A i \in 1 .. Len(b) : (a \o b)[Len(a) + i] = b[i]
  <1> DEFINE S == Elements(a) \union Elements(b)
  <1>1. a \in Seq(S) /\ b \in Seq(S)
    BY SeqMonotonic DEF IsSequence
  <1> HIDE DEF S
  <1>2. /\ a \o b \in Seq(S)
        /\ Len(a \o b) = Len(a) + Len(b)
        /\ Len(a) \in Nat /\ Len(b) \in Nat
        /\ \A i \in 1 .. Len(a) + Len(b) :
             (a \o b)[i] = IF i <= Len(a) THEN a[i] ELSE b[i - Len(a)]
    BY <1>1, ConcatProperties, LenProperties
  <1>3. DOMAIN (a \o b) = 1 .. Len(a) + Len(b)
    BY <1>2, LenProperties
  <1>4. \A i \in 1 .. Len(a) : (a \o b)[i] = a[i]
    BY <1>2
  <1>5. ASSUME NEW i \in 1 .. Len(b) PROVE (a \o b)[Len(a) + i] = b[i]
    <2>1. Len(a) + i \in 1 .. Len(a) + Len(b) /\ ~(Len(a) + i <= Len(a))
      BY <1>2
    <2>2. Len(a) + i - Len(a) = i
      BY <1>2
    <2> QED
      BY <1>2, <2>1, <2>2
  <1> QED
    BY <1>2, <1>3, <1>4, <1>5, ElementsSuffice

\* InternalAdbcParsePath returns a list of directories.
LEMMA ParsedPath ==
  ASSUME NEW s \in Seq(STRING)
  PROVE  IsSequence(InternalAdbcParsePath(s))
  <1> DEFINE inside == {i \in DOMAIN s : s[i] # ":"}
             first == {i \in inside : i - 1 \notin inside}
             last == {i \in inside : i + 1 \notin inside}
             path(k) == SubSeq(s, Nth(first, k), Nth(last, k))
             n == Cardinality(first)
             parsed == [k \in 1 .. n |-> path(k)]
  <1>1. InternalAdbcParsePath(s) = parsed
    BY DEF InternalAdbcParsePath
  <1>2. IsFiniteSet(1 .. Len(s)) /\ DOMAIN s = 1 .. Len(s)
    BY FS_Interval, LenProperties
  <1>3. n \in Nat
    BY <1>2, FS_Subset, FS_CardinalityType
  <1>4. parsed \in [1 .. n -> Elements(parsed)]
    BY Zenon DEF Elements
  <1> HIDE DEF n, parsed
  <1> QED
    BY <1>1, <1>3, <1>4, SeqDef DEF IsSequence

\* The two lists of FindDriver.
LEMMA Directories ==
  ASSUME SearchInv
  PROVE  /\ IsSequence(FirstDirectories)
         /\ IsSequence(SecondDirectories)
         /\ SearchPaths(args.load_flags \intersect {"env"}) \o AdditionalPaths
              = FirstDirectories
         /\ SearchPaths(args.load_flags \ {"env"}) = SecondDirectories
  <1> DEFINE e == IF "env" \in args.load_flags
                  THEN GetEnvPaths("ADBC_DRIVER_PATH") ELSE <<>>
             u == IF "user" \in args.load_flags
                  THEN <<Join(InternalAdbcUserConfigDir, <<"drivers">>)>> ELSE <<>>
             y == IF "system" \in args.load_flags
                  THEN <<InternalAdbcSystemConfigDir>> ELSE <<>>
  <1>1. IsSequence(<<>>) /\ \A x : IsSequence(<<x>>)
    BY ElementsSuffice, EmptySeq DEF IsSequence, Elements
  <1>2. IsSequence(e)
    <2>1. \A name \in DOMAIN env : env[name] \in Seq(STRING)
      BY ScenariosAssumption DEF SearchInv, env
    <2>2. Getenv("ADBC_DRIVER_PATH") \in Seq(STRING)
      BY <2>1, EmptySeq DEF Getenv
    <2> QED
      BY <1>1, <2>2, ParsedPath DEF GetEnvPaths
  <1>3. IsSequence(u) /\ IsSequence(y)
    BY <1>1
  <1>4. IsSequence(AdditionalPaths)
    BY ParsedPath DEF SearchInv, AdditionalPaths
  <1>5. /\ FirstDirectories = e \o AdditionalPaths
        /\ SecondDirectories = u \o y
    BY DEF FirstDirectories, SecondDirectories
  <1>6. /\ SearchPaths(args.load_flags \intersect {"env"}) = e \o <<>> \o <<>>
        /\ SearchPaths(args.load_flags \ {"env"}) = <<>> \o u \o y
    BY DEF SearchPaths
  <1> HIDE DEF e, u, y
  <1>7. e \o <<>> = e /\ <<>> \o u = u
    BY <1>2, <1>3, ConcatEmptySeq DEF IsSequence
  <1> QED
    BY <1>2, <1>3, <1>4, <1>5, <1>6, <1>7, Concatenation

\* Walking along a list.
LEMMA Rests ==
  ASSUME NEW dirs, IsSequence(dirs), NEW n \in 0 .. Len(dirs), NEW rest,
         IsRest(rest, dirs, n)
  PROVE  /\ rest = <<>> => n = Len(dirs)
         /\ rest # <<>> =>
              /\ n + 1 \in 1 .. Len(dirs)
              /\ Head(rest) = dirs[n + 1]
              /\ IsRest(Tail(rest), dirs, n + 1)
  <1>1. Len(dirs) \in Nat /\ Len(rest) \in Nat
    BY LenProperties DEF IsSequence, IsRest
  <1>2. rest = <<>> => n = Len(dirs)
    BY <1>1, EmptySeq DEF IsRest
  <1>3. ASSUME rest # <<>>
        PROVE  /\ n + 1 \in 1 .. Len(dirs)
               /\ Head(rest) = dirs[n + 1]
               /\ IsRest(Tail(rest), dirs, n + 1)
    <2>1. Len(rest) \in Nat \ {0}
      BY <1>3, EmptySeq DEF IsRest
    <2>2. /\ Tail(rest) \in Seq(Elements(dirs))
          /\ Len(Tail(rest)) = Len(rest) - 1
          /\ \A i \in 1 .. Len(Tail(rest)) : Tail(rest)[i] = rest[i + 1]
      BY <1>3, HeadTailProperties DEF IsRest
    <2>3. Head(rest) = rest[1]
      BY <1>3 DEF IsRest
    <2>4. n + 1 \in 1 .. Len(dirs) /\ rest[1] = dirs[n + 1]
      BY <1>1, <2>1 DEF IsRest
    <2>5. ASSUME NEW i \in 1 .. Len(Tail(rest))
          PROVE  Tail(rest)[i] = dirs[n + 1 + i]
      <3>1. i + 1 \in 1 .. Len(rest)
        BY <2>1, <2>2
      <3>2. rest[i + 1] = dirs[n + (i + 1)]
        BY <3>1 DEF IsRest
      <3>3. n + (i + 1) = n + 1 + i
        BY <1>1, <2>1, <2>2
      <3> QED
        BY <2>2, <3>2, <3>3
    <2>6. Len(Tail(rest)) = Len(dirs) - (n + 1)
      BY <1>1, <2>2 DEF IsRest
    <2> QED
      BY <2>2, <2>3, <2>4, <2>5, <2>6 DEF IsRest
  <1> QED
    BY <1>2, <1>3

\* A manifest that points nowhere does not end the search.
LEMMA DanglingDoesNotDecide ==
  ASSUME NEW dir, Dangles(dir)
  PROVE  ~Decides(dir)
  BY DEF Dangles, Decides

\* The list ends.
LEMMA ListExhausted ==
  ASSUME NEW dirs, IsSequence(dirs), SearchingIn(dirs), paths = <<>>
  PROVE  Excused(dirs)
  <1>1. PICK n \in 0 .. Len(dirs) :
          IsRest(paths, dirs, n) /\ \A i \in 1 .. n : ~Decides(dirs[i])
    BY DEF SearchingIn
  <1>2. n = Len(dirs)
    BY <1>1, Rests
  <1> QED
    BY <1>1, <1>2 DEF Excused

\* A manifest that points nowhere ends the list.
LEMMA ListHidden ==
  ASSUME NEW dirs, IsSequence(dirs), SearchingIn(dirs), paths # <<>>,
         Dangles(Head(paths))
  PROVE  Excused(dirs)
  <1>1. PICK n \in 0 .. Len(dirs) :
          IsRest(paths, dirs, n) /\ \A i \in 1 .. n : ~Decides(dirs[i])
    BY DEF SearchingIn
  <1>2. n + 1 \in 1 .. Len(dirs) /\ Head(paths) = dirs[n + 1]
    BY <1>1, Rests
  <1>3. Dangles(dirs[n + 1]) /\ ~Decides(dirs[n + 1])
    BY <1>2, DanglingDoesNotDecide
  <1>4. Len(dirs) \in Nat
    BY LenProperties DEF IsSequence
  <1>5. ASSUME NEW i \in 1 .. Len(dirs), Decides(dirs[i])
        PROVE  \E k \in 1 .. i - 1 : Dangles(dirs[k])
    <2>1. ~(i <= n) /\ i # n + 1
      BY <1>1, <1>3, <1>4, <1>5
    <2>2. n + 1 \in 1 .. i - 1
      BY <1>4, <2>1
    <2> QED
      BY <1>3, <2>2
  <1> QED
    BY <1>5 DEF Excused

\* A directory the search goes past although it holds something.
LEMMA PassedOver ==
  ASSUME NEW dir, ~Decides(dir), HoldsDriver(dir)
  PROVE  MissesLibrary(dir) \/ OtherPlatform(dir) \/ Dangles(dir)
  <1>1. CASE Exists(ManifestIn(dir)) /\ ManifestStatus(ManifestIn(dir)) # "NOT_FOUND"
    BY <1>1 DEF Decides, Dangles
  <1>2. CASE ~(Exists(ManifestIn(dir)) /\ ManifestStatus(ManifestIn(dir)) # "NOT_FOUND")
    <2>1. ~CanLoad(Join(dir, args.driver))
      BY <1>2 DEF Decides
    <2>2. NoLibrary(dir)
      BY <2>1 DEF CanLoad, NoLibrary
    <2> QED
      BY <1>2, <2>2 DEF MissesLibrary, OtherPlatform
  <1> QED
    BY <1>1, <1>2

\* What a directory holds does not change during the search.
LEMMA SameDirectories ==
  ASSUME UNCHANGED <<scenario, args>>
  PROVE  /\ UNCHANGED <<FirstDirectories, SecondDirectories>>
         /\ \A dir : Decides(dir)' = Decides(dir)
         /\ \A dir : Dangles(dir)' = Dangles(dir)
  <1>1. UNCHANGED <<fs, env>>
    BY DEF fs, env
  <1>2. UNCHANGED FirstDirectories
    BY <1>1 DEF FirstDirectories, AdditionalPaths, GetEnvPaths, Getenv
  <1>3. UNCHANGED SecondDirectories
    BY <1>1 DEF SecondDirectories, InternalAdbcUserConfigDir
  <1>4. \A p : Exists(p)' = Exists(p) /\ CanLoad(p)' = CanLoad(p)
    BY <1>1 DEF Exists, CanLoad, Dlopen
  <1>5. \A p : ManifestStatus(p)' = ManifestStatus(p)
    BY <1>1, Zenon DEF ManifestStatus, Exists
  <1>6. \A dir : ManifestIn(dir)' = ManifestIn(dir)
    BY DEF ManifestIn
  <1>7. \A dir : Decides(dir)' = Decides(dir)
    BY <1>1, <1>4, <1>5, <1>6 DEF Decides
  <1>8. \A dir : Dangles(dir)' = Dangles(dir)
    BY <1>1, <1>4, <1>5, <1>6 DEF Dangles
  <1> QED
    BY <1>2, <1>3, <1>7, <1>8

\* What the paths and files of a directory are does not change.
LEMMA SamePaths ==
  ASSUME UNCHANGED <<scenario, args, paths>>
  PROVE  /\ UNCHANGED <<fs, Head(paths), ManifestIn(Head(paths))>>
         /\ \A p : /\ Exists(p)' = Exists(p) /\ Dlopen(p)' = Dlopen(p)
                   /\ ManifestStatus(p)' = ManifestStatus(p)
  <1>1. UNCHANGED fs
    BY DEF fs
  <1>2. \A p : Exists(p)' = Exists(p) /\ Dlopen(p)' = Dlopen(p)
    BY <1>1 DEF Exists, Dlopen
  <1>3. \A p : ManifestStatus(p)' = ManifestStatus(p)
    BY <1>1, Zenon DEF ManifestStatus, Exists
  <1> QED
    BY <1>1, <1>2, <1>3 DEF ManifestIn

\* Nor where the driver was taken from.
LEMMA SameTaken ==
  ASSUME UNCHANGED <<scenario, args, paths, library>>, TakenFrom(Head(paths)),
         pc = "failed" => UNCHANGED <<pc, status>>
  PROVE  TakenFrom(Head(paths))'
  BY SamePaths DEF TakenFrom

\* What was gone past is still excused while call and options stay.
LEMMA SameExcused ==
  ASSUME UNCHANGED <<scenario, args>>
  PROVE  \A dirs : Excused(dirs) => Excused(dirs)'
  <1>1. /\ \A dir : Decides(dir)' = Decides(dir)
        /\ \A dir : Dangles(dir)' = Dangles(dir)
    BY SameDirectories
  <1> QED
    BY <1>1 DEF Excused

----------------------------------------------------------------------------
\* The search has not begun.
LEMMA SearchInit == Init => SearchInv
  BY ScenariosAssumption DEF Init, SearchInv, SearchEnded

\* Steps before the search.
LEMMA BeforeSearch ==
  ASSUME SearchInv, UNCHANGED <<scenario, list>>, list = "none", pc' # "search",
         UNCHANGED args.additional_manifest_search_path_list
  PROVE  SearchInv'
  BY DEF SearchInv

\* Steps that end the search, and those after it.
LEMMA SearchKept ==
  ASSUME SearchInv, UNCHANGED <<scenario, args, paths, list>>,
         pc \in {"search"} \union SearchEnded, pc' \in SearchEnded,
         pc = "search" => (paths # <<>> /\ TakenFrom(Head(paths))') \/ list = "name",
         pc # "search" => UNCHANGED library /\ (pc = "failed" => UNCHANGED <<pc, status>>)
  PROVE  SearchInv'
  <1>1. /\ UNCHANGED <<FirstDirectories, SecondDirectories>>
        /\ \A dir : Decides(dir)' = Decides(dir)
        /\ \A dirs : Excused(dirs) => Excused(dirs)'
    BY SameDirectories, SameExcused
  <1>2. \A dirs : SearchingIn(dirs) => SearchingIn(dirs)'
    BY <1>1 DEF SearchingIn
  <1>3. list \in {"first", "second"} => paths' # <<>> /\ TakenFrom(Head(paths))'
    <2> SUFFICES ASSUME list \in {"first", "second"}
                 PROVE  paths' # <<>> /\ TakenFrom(Head(paths))'
      OBVIOUS
    <2>1. CASE pc = "search"
      BY <2>1
    <2>2. CASE pc # "search"
      <3>1. paths # <<>> /\ TakenFrom(Head(paths))
        BY <2>2 DEF SearchInv
      <3>2. TakenFrom(Head(paths))'
        BY <2>2, <3>1, SameTaken
      <3> QED
        BY <3>1, <3>2
    <2> QED
      BY <2>1, <2>2
  <1> QED
    BY <1>1, <1>2, <1>3 DEF SearchInv, SearchEnded

\* FindDriver begins with the first list.
LEMMA FindDriverSearches ==
  ASSUME SearchInv, FindDriver
  PROVE  SearchInv'
  <1>1. UNCHANGED <<scenario, args>> /\ list' = "first" /\ pc' = "search"
    BY DEF FindDriver, Goto
  <1>2. UNCHANGED <<FirstDirectories, SecondDirectories>>
    BY <1>1, SameDirectories
  <1>3. paths' = FirstDirectories /\ IsSequence(FirstDirectories)
    BY Directories DEF FindDriver
  <1>4. /\ IsRest(paths', FirstDirectories, 0)
        /\ 0 \in 0 .. Len(FirstDirectories)
    BY <1>3, LenProperties DEF IsRest, IsSequence
  <1>5. SearchingIn(FirstDirectories)'
    BY <1>2, <1>4 DEF SearchingIn
  <1> QED
    BY <1>1, <1>5 DEF SearchInv, SearchEnded

\* On to the next list, when this one is done with.
LEMMA SearchOnKeeps ==
  ASSUME SearchInv, NEW entrypoint, SearchOn(entrypoint), UNCHANGED <<scenario, args>>,
         list \in {"first", "second"},
         \A dirs : IsSequence(dirs) /\ SearchingIn(dirs) => Excused(dirs)
  PROVE  SearchInv'
  <1>1. /\ UNCHANGED <<FirstDirectories, SecondDirectories>>
        /\ \A dirs : Excused(dirs) => Excused(dirs)'
    BY SameDirectories, SameExcused
  <1>2. IsSequence(FirstDirectories) /\ IsSequence(SecondDirectories)
    BY Directories
  <1>3. pc' = "search"
    BY DEF SearchOn, Goto
  <1>4. CASE list = "first"
    <2>1. list' = "second" /\ paths' = SecondDirectories
      BY <1>4, Directories DEF SearchOn
    <2>2. Excused(FirstDirectories)'
      BY <1>1, <1>2, <1>4 DEF SearchInv
    <2>3. /\ IsRest(paths', SecondDirectories, 0)
          /\ 0 \in 0 .. Len(SecondDirectories)
      BY <1>2, <2>1, LenProperties DEF IsRest, IsSequence
    <2>4. SearchingIn(SecondDirectories)'
      BY <1>1, <2>3 DEF SearchingIn
    <2> QED
      BY <1>3, <2>1, <2>2, <2>4 DEF SearchInv, SearchEnded
  <1>5. CASE list = "second"
    <2>1. list' = "name" /\ paths' = <<>>
      BY <1>5 DEF SearchOn
    <2>2. Excused(FirstDirectories)' /\ Excused(SecondDirectories)'
      BY <1>1, <1>2, <1>5 DEF SearchInv
    <2> QED
      BY <1>3, <2>1, <2>2 DEF SearchInv, SearchEnded
  <1> QED
    BY <1>4, <1>5

\* The end of a list: nothing in it has decided.
LEMMA ListEndsKeeps ==
  ASSUME SearchInv, ListEnds
  PROVE  SearchInv'
  <1>1. list \in {"first", "second"} /\ paths = <<>> /\ UNCHANGED <<scenario, args>>
    BY DEF ListEnds, SearchInv
  <1>2. SearchOn(info.entrypoint)
    BY DEF ListEnds
  <1>3. \A dirs : IsSequence(dirs) /\ SearchingIn(dirs) => Excused(dirs)
    BY <1>1, ListExhausted
  <1> QED
    BY <1>1, <1>2, <1>3, SearchOnKeeps

Loaded(p) == library' \in {p, FullDriverName(p)} /\ Dlopen(library')

\* A library that can be loaded is.
LEMMA LoadOrFailLoads ==
  ASSUME NEW p, NEW entrypoint, CanLoad(p), LoadOrFail(p, entrypoint)
  PROVE  pc' = "entrypoint" /\ Loaded(p)
  BY DEF LoadOrFail, CanLoad, LoadLibrary, Loaded, Goto

\* A manifest ends the search, or hides the rest of its list.
LEMMA ManifestHereKeeps ==
  ASSUME SearchInv, ManifestHere
  PROVE  SearchInv'
  <1> DEFINE manifest == ManifestIn(Head(paths))
  <1>1. /\ list \in {"first", "second"} /\ paths # <<>> /\ pc = "search"
        /\ UNCHANGED <<scenario, args>>
    BY DEF ManifestHere, SearchInv
  <1>2. CASE /\ ManifestStatus(manifest) = "OK" /\ CanLoad(fs[manifest].shared)
             /\ LoadOrFail(fs[manifest].shared, fs[manifest].entrypoint)
             /\ UNCHANGED <<paths, list>>
    <2>1. pc' = "entrypoint" /\ Loaded(fs[manifest].shared)
      BY <1>2, LoadOrFailLoads
    <2>2. TakenFrom(Head(paths))'
      BY <1>1, <1>2, <2>1, SamePaths DEF ManifestHere, TakenFrom, Loaded
    <2> QED
      BY <1>1, <1>2, <2>1, <2>2, SearchKept DEF SearchEnded
  <1>4. CASE /\ ManifestStatus(manifest) = "INVALID_ARGUMENT" /\ Fail("INVALID_ARGUMENT")
             /\ UNCHANGED <<paths, list>>
    <2>1. TakenFrom(Head(paths))'
      BY <1>1, <1>4, SamePaths DEF ManifestHere, TakenFrom, Fail
    <2> QED
      BY <1>1, <1>4, <2>1, SearchKept DEF SearchEnded, Fail
  <1>3. CASE SearchOn(fs[manifest].entrypoint) /\ Dangles(Head(paths))
    <2>1. \A dirs : IsSequence(dirs) /\ SearchingIn(dirs) => Excused(dirs)
      BY <1>1, <1>3, ListHidden
    <2> QED
      BY <1>1, <1>3, <2>1, SearchOnKeeps
  <1> QED
    BY <1>2, <1>3, <1>4 DEF ManifestHere, Dangles

\* A library ends the search; without one it goes to the next directory.
LEMMA LibraryHereKeeps ==
  ASSUME SearchInv, LibraryHere
  PROVE  SearchInv'
  <1> DEFINE path == Join(Head(paths), args.driver)
             manifest == ManifestIn(Head(paths))
  <1>1. /\ list \in {"first", "second"} /\ paths # <<>> /\ pc = "search"
        /\ UNCHANGED <<scenario, args, list>>
        /\ Exists(manifest) => ManifestStatus(manifest) = "NOT_FOUND"
    BY DEF LibraryHere, SearchInv
  <1>2. CASE /\ CanLoad(path) /\ UNCHANGED paths
             /\ \E entrypoint : LoadOrFail(path, entrypoint)
    <2>1. pc' = "entrypoint" /\ Loaded(path)
      BY <1>2, LoadOrFailLoads
    <2>2. TakenFrom(Head(paths))'
      BY <1>1, <1>2, <2>1, SamePaths DEF TakenFrom, Loaded
    <2> QED
      BY <1>1, <1>2, <2>1, <2>2, SearchKept DEF SearchEnded
  <1>3. CASE ~CanLoad(path) /\ paths' = Tail(paths) /\ pc' = "search"
    <2>1. ~Decides(Head(paths))
      BY <1>1, <1>3 DEF Decides
    <2>2. /\ UNCHANGED <<FirstDirectories, SecondDirectories>>
          /\ \A dir : Decides(dir)' = Decides(dir)
          /\ \A dirs : Excused(dirs) => Excused(dirs)'
      BY <1>1, SameDirectories, SameExcused
    <2>3. ASSUME NEW dirs, IsSequence(dirs), SearchingIn(dirs)
          PROVE  SearchingIn(dirs)'
      <3>1. PICK n \in 0 .. Len(dirs) :
              IsRest(paths, dirs, n) /\ \A i \in 1 .. n : ~Decides(dirs[i])
        BY <2>3 DEF SearchingIn
      <3>2. /\ n + 1 \in 1 .. Len(dirs)
            /\ Head(paths) = dirs[n + 1]
            /\ IsRest(paths', dirs, n + 1)
        BY <1>1, <1>3, <2>3, <3>1, Rests
      <3>3. \A i \in 1 .. n + 1 : ~Decides(dirs[i])
        BY <2>1, <3>1, <3>2
      <3>4. n + 1 \in 0 .. Len(dirs)
        BY <3>2
      <3> QED
        BY <2>2, <3>2, <3>3, <3>4 DEF SearchingIn
    <2>4. IsSequence(FirstDirectories) /\ IsSequence(SecondDirectories)
      BY Directories
    <2> QED
      BY <1>1, <1>3, <2>2, <2>3, <2>4 DEF SearchInv, SearchEnded
  <1> QED
    BY <1>2, <1>3 DEF LibraryHere, Goto

\* Every step of AdbcDatabaseInit keeps SearchInv.
LEMMA SearchStep == OptionsInv /\ SearchInv /\ [Next]_vars => SearchInv'
  <1> SUFFICES ASSUME OptionsInv, SearchInv, [Next]_vars PROVE SearchInv'
    OBVIOUS
  <1>1. CASE UseInitFunc \/ MultipleProfiles \/ FindProfile \/ DriverMismatch
             \/ DriverIsKnown \/ LoadPath \/ LoadAbsolute
    <2>1. /\ UNCHANGED <<scenario, args, list>> /\ pc' # "search"
          /\ pc \in {"options", "profile", "apply", "uri", "locate"}
      BY <1>1
         DEF UseInitFunc, MultipleProfiles, FindProfile, DriverMismatch, DriverIsKnown,
             LoadPath, LoadAbsolute, LoadOrFail, Goto, Fail
    <2>2. list = "none"
      BY <2>1 DEF SearchInv, SearchEnded
    <2> QED
      BY <2>1, <2>2, BeforeSearch
  <1>2. CASE ChooseProfile \/ ProfileValueInvalid \/ InternalInitializeProfile
             \/ ParseDriver \/ ParseUri
    <2>1. /\ UNCHANGED <<scenario, list>> /\ pc' # "search"
          /\ pc \in {"options", "apply", "driver", "uri"}
      BY <1>2
         DEF ChooseProfile, ProfileValueInvalid, InternalInitializeProfile, ParseDriver,
             ParseUri, Goto, Fail
    <2>2. \/ args' = args
          \/ \E d, o, m : args' = [args EXCEPT !.driver = d, !.options = o,
                                               !.number_options = m]
          \/ \E d, o : args' = [args EXCEPT !.driver = d, !.options = o]
          \/ \E d : args' = [args EXCEPT !.driver = d]
          \/ \E o : args' = [args EXCEPT !.options = o]
      BY <1>2
         DEF ChooseProfile, ProfileValueInvalid, InternalInitializeProfile, ParseDriver,
             ParseUri, SetDriverAndUri
    <2>3. UNCHANGED args.additional_manifest_search_path_list
      BY <2>2 DEF OptionsInv, ArgsFields
    <2>4. list = "none"
      BY <2>1 DEF SearchInv, SearchEnded
    <2> QED
      BY <2>1, <2>3, <2>4, BeforeSearch
  <1>3. CASE LoadByName \/ Lookup \/ Ended
    <2>1. /\ UNCHANGED <<scenario, args, paths, list>>
          /\ pc \in {"search"} \union SearchEnded /\ pc' \in SearchEnded
          /\ pc = "search" => list = "name"
          /\ pc # "search" => UNCHANGED library
          /\ pc = "failed" => UNCHANGED <<pc, status>>
      BY <1>3
         DEF LoadByName, Lookup, Ended, vars, LoadOrFail, Goto, Fail, SearchEnded
    <2> QED
      BY <2>1, SearchKept
  <1>4. CASE UNCHANGED vars
    <2>1. UNCHANGED <<scenario, args, paths, list, library, pc, status>>
      BY <1>4 DEF vars
    <2>2. /\ UNCHANGED <<FirstDirectories, SecondDirectories>>
          /\ \A dir : Decides(dir)' = Decides(dir)
          /\ TakenFrom(Head(paths)) => TakenFrom(Head(paths))'
          /\ \A dirs : Excused(dirs) => Excused(dirs)'
      BY <2>1, SameDirectories, SameTaken, SameExcused
    <2>3. \A dirs : SearchingIn(dirs) => SearchingIn(dirs)'
      BY <2>1, <2>2 DEF SearchingIn
    <2> QED
      BY <2>1, <2>2, <2>3 DEF SearchInv, SearchEnded
  <1> QED
    BY <1>1, <1>2, <1>3, <1>4, FindDriverSearches, ListEndsKeeps, ManifestHereKeeps,
       LibraryHereKeeps
       DEF Next

\* Positions in one of the two lists and in the documented order.
LEMMA DocumentedPositions ==
  ASSUME SearchInv
  PROVE  /\ Len(FirstDirectories) \in Nat /\ Len(SecondDirectories) \in Nat
         /\ DOMAIN DocumentedOrder = 1 .. Len(FirstDirectories) + Len(SecondDirectories)
         /\ Len(DocumentedOrder) = Len(FirstDirectories) + Len(SecondDirectories)
         /\ \A i \in 1 .. Len(FirstDirectories) : DocumentedOrder[i] = FirstDirectories[i]
         /\ \A i \in 1 .. Len(SecondDirectories) :
              DocumentedOrder[Len(FirstDirectories) + i] = SecondDirectories[i]
  <1>1. IsSequence(FirstDirectories) /\ IsSequence(SecondDirectories)
    BY Directories
  <1> QED
    BY <1>1, Concatenation DEF DocumentedOrder

\* What one list excuses is hidden in the documented order.
LEMMA ExcusedIsHidden ==
  ASSUME SearchInv
  PROVE  /\ Excused(FirstDirectories) =>
              \A i \in 1 .. Len(FirstDirectories) :
                Decides(DocumentedOrder[i]) => IsHidden(i)
         /\ Excused(SecondDirectories) =>
              \A i \in 1 .. Len(SecondDirectories) :
                Decides(DocumentedOrder[Len(FirstDirectories) + i])
                  => IsHidden(Len(FirstDirectories) + i)
  <1> DEFINE f == Len(FirstDirectories)
             s == Len(SecondDirectories)
  <1>1. /\ f \in Nat /\ s \in Nat
        /\ \A i \in 1 .. f : DocumentedOrder[i] = FirstDirectories[i]
        /\ \A i \in 1 .. s : DocumentedOrder[f + i] = SecondDirectories[i]
    BY DocumentedPositions
  <1> HIDE DEF f, s
  <1>2. ASSUME Excused(FirstDirectories), NEW i \in 1 .. f, Decides(DocumentedOrder[i])
        PROVE  IsHidden(i)
    <2>1. PICK k \in 1 .. i - 1 : Dangles(FirstDirectories[k])
      BY <1>1, <1>2 DEF Excused, f
    <2>2. k \in 1 .. f /\ k <= f /\ i <= f
      BY <1>1
    <2>3. Dangles(DocumentedOrder[k])
      BY <1>1, <2>1, <2>2
    <2> QED
      BY <2>2, <2>3 DEF IsHidden, f
  <1>3. ASSUME Excused(SecondDirectories), NEW i \in 1 .. s,
               Decides(DocumentedOrder[f + i])
        PROVE  IsHidden(f + i)
    <2>1. PICK k \in 1 .. i - 1 : Dangles(SecondDirectories[k])
      BY <1>1, <1>3 DEF Excused, s
    <2>2. /\ k \in 1 .. s /\ f + k \in 1 .. f + i - 1
          /\ ~(f + k <= f) /\ ~(f + i <= f)
      BY <1>1
    <2>3. Dangles(DocumentedOrder[f + k])
      BY <1>1, <2>1, <2>2
    <2> QED
      BY <2>2, <2>3 DEF IsHidden, f
  <1> QED
    BY <1>2, <1>3 DEF f, s

\* FindsFirst follows from the invariant, list by list.
LEMMA SearchInvFindsFirst == SearchInv => FindsFirst
  <1> SUFFICES ASSUME SearchInv, list # "none", pc \in {"entrypoint", "loaded", "failed"}
               PROVE  \E n \in 1 .. Len(DocumentedOrder) + 1 :
                        /\ StopsAt(n)
                        /\ \A i \in 1 .. n - 1 :
                             Decides(DocumentedOrder[i]) => IsHidden(i)
    BY PassedOver DEF FindsFirst
  <1> DEFINE f == Len(FirstDirectories)
             s == Len(SecondDirectories)
  <1>1. /\ f \in Nat /\ s \in Nat
        /\ DOMAIN DocumentedOrder = 1 .. f + s
        /\ Len(DocumentedOrder) = f + s
        /\ \A i \in 1 .. f : DocumentedOrder[i] = FirstDirectories[i]
        /\ \A i \in 1 .. s : DocumentedOrder[f + i] = SecondDirectories[i]
    BY DocumentedPositions
  <1>2. IsSequence(FirstDirectories) /\ IsSequence(SecondDirectories)
    BY Directories
  <1>3. /\ Excused(FirstDirectories) =>
             \A i \in 1 .. f : Decides(DocumentedOrder[i]) => IsHidden(i)
        /\ Excused(SecondDirectories) =>
             \A i \in 1 .. s : Decides(DocumentedOrder[f + i]) => IsHidden(f + i)
    BY ExcusedIsHidden
  <1>4. CASE list = "first"
    <2>1. PICK n \in 0 .. f :
            /\ IsRest(paths, FirstDirectories, n)
            /\ \A i \in 1 .. n : ~Decides(FirstDirectories[i])
      BY <1>4 DEF SearchInv, SearchingIn
    <2>2. paths # <<>> /\ TakenFrom(Head(paths))
      BY <1>4 DEF SearchInv, SearchEnded
    <2>3. n + 1 \in 1 .. f /\ Head(paths) = FirstDirectories[n + 1]
      BY <1>2, <2>1, <2>2, Rests
    <2> HIDE DEF f, s
    <2>4. n + 1 \in 1 .. f + s /\ DocumentedOrder[n + 1] = Head(paths)
      BY <1>1, <2>3
    <2>5. StopsAt(n + 1)
      BY <1>1, <2>2, <2>4 DEF StopsAt
    <2>6. \A i \in 1 .. n + 1 - 1 : ~Decides(DocumentedOrder[i])
      BY <1>1, <2>1
    <2>7. n + 1 \in 1 .. Len(DocumentedOrder) + 1
      BY <1>1, <2>4
    <2> QED
      BY <2>5, <2>6, <2>7
  <1>5. CASE list = "second"
    <2>1. PICK n \in 0 .. s :
            /\ IsRest(paths, SecondDirectories, n)
            /\ \A i \in 1 .. n : ~Decides(SecondDirectories[i])
      BY <1>5 DEF SearchInv, SearchingIn
    <2>2. paths # <<>> /\ TakenFrom(Head(paths)) /\ Excused(FirstDirectories)
      BY <1>5 DEF SearchInv, SearchEnded
    <2>3. n + 1 \in 1 .. s /\ Head(paths) = SecondDirectories[n + 1]
      BY <1>2, <2>1, <2>2, Rests
    <2> HIDE DEF f, s
    <2> DEFINE stop == f + (n + 1)
    <2>4. stop \in 1 .. f + s /\ DocumentedOrder[stop] = Head(paths)
      BY <1>1, <2>3
    <2>5. StopsAt(stop)
      BY <1>1, <2>2, <2>4 DEF StopsAt
    <2>6. ASSUME NEW i \in 1 .. stop - 1, Decides(DocumentedOrder[i])
          PROVE  IsHidden(i)
      <3>1. CASE i <= f
        <4>1. i \in 1 .. f
          BY <1>1, <3>1
        <4> QED
          BY <1>3, <2>2, <2>6, <4>1
      <3>2. CASE ~(i <= f)
        <4>1. i - f \in 1 .. n /\ i - f \in 1 .. s /\ f + (i - f) = i
          BY <1>1, <3>2
        <4>2. DocumentedOrder[i] = SecondDirectories[i - f]
          BY <1>1, <4>1
        <4> QED
          BY <2>1, <2>6, <4>1, <4>2
      <3> QED
        BY <3>1, <3>2
    <2>7. stop \in 1 .. Len(DocumentedOrder) + 1
      BY <1>1, <2>4
    <2> HIDE DEF stop
    <2> QED
      BY <2>5, <2>6, <2>7
  <1>6. CASE list = "name"
    <2>1. paths = <<>> /\ Excused(FirstDirectories) /\ Excused(SecondDirectories)
      BY <1>6 DEF SearchInv
    <2> HIDE DEF f, s
    <2> DEFINE stop == f + s + 1
    <2>2. StopsAt(stop)
      BY <1>1, <2>1 DEF StopsAt
    <2>3. ASSUME NEW i \in 1 .. stop - 1, Decides(DocumentedOrder[i])
          PROVE  IsHidden(i)
      <3>1. CASE i <= f
        <4>1. i \in 1 .. f
          BY <1>1, <3>1
        <4> QED
          BY <1>3, <2>1, <2>3, <4>1
      <3>2. CASE ~(i <= f)
        <4>1. i - f \in 1 .. s /\ f + (i - f) = i
          BY <1>1, <3>2
        <4> QED
          BY <1>3, <2>1, <2>3, <4>1
      <3> QED
        BY <3>1, <3>2
    <2>4. stop \in 1 .. Len(DocumentedOrder) + 1
      BY <1>1
    <2> HIDE DEF stop
    <2> QED
      BY <2>2, <2>3, <2>4
  <1> QED
    BY <1>4, <1>5, <1>6 DEF SearchInv

\* Whatever the directories hold and however many there are, the driver is
\* taken from the first one, in the documented order, that holds one; past a
\* manifest or a library the search goes only where the code and the header
\* disagree: a library <dir>/<name>.so, a manifest of another platform, and a
\* manifest whose library cannot be loaded, with what comes after it in its list.
THEOREM SearchFindsFirst == Spec => []FindsFirst
  <1>1. Init => OptionsInv /\ SearchInv
    BY OptionsInit, SearchInit
  <1>2. OptionsInv /\ SearchInv /\ [Next]_vars => (OptionsInv /\ SearchInv)'
    BY OptionsStep, SearchStep
  <1> QED
    BY <1>1, <1>2, SearchInvFindsFirst, PTL DEF Spec
============================================================================
