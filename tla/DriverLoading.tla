--------------------------- MODULE DriverLoading ---------------------------
(***************************************************************************)
(* How AdbcDatabaseInit finds the driver and the options to start it with: *)
(* InternalAdbcParseOptions, connection profiles, the search for a driver  *)
(* manifest or library, and the choice of its init function, on Linux      *)
(* without conda.  DriverManager models what happens to the driver then.   *)
(*                                                                         *)
(* One call of AdbcDatabaseInit is one behavior.  The steps are the        *)
(* decisions of the code, in its order.  Strings and paths are sequences   *)
(* of the parts the code tells apart: ":" and "/", extensions, "lib", and  *)
(* names.  A directory that does not exist is one that holds nothing.      *)
(***************************************************************************)
EXTENDS SequencesExt

\* The calls to look at: [args, env, fs].  args is the TempDatabase, env the
\* environment variables, fs the files that can be opened, by path.
CONSTANT Scenarios

\* The fields of a TempDatabase, strings where the code has strings, and no file
\* without a name.
ASSUME ScenariosAssumption ==
  \A call \in Scenarios :
    /\ DOMAIN call.args = {"driver", "options", "number_options", "entrypoint",
                           "init_func", "load_flags",
                           "additional_manifest_search_path_list",
                           "additional_profile_search_path_list"}
    /\ call.args.additional_manifest_search_path_list \in Seq(STRING)
    /\ \A name \in DOMAIN call.env : call.env[name] \in Seq(STRING)
    /\ \A k \in DOMAIN call.args.number_options : k \in {"integer", "float"} \X STRING
    /\ <<>> \notin DOMAIN call.fs

VARIABLES scenario,   \* the call as it was made
          args,       \* TempDatabase: what the call makes of the options
          profile,    \* name of the profile to use, then the path of its file
          info,       \* DriverInfo: [lib_path, entrypoint]
          paths,      \* the directories that are still to be searched
          list,       \* ... "first": env and additional; "second": user and
                      \* system; "name": neither, the name alone
          library,    \* the shared library that is open
          pc, status

vars == <<scenario, args, profile, info, paths, list, library, pc, status>>

fs == scenario.fs
env == scenario.env

Exists(p) == p \in DOMAIN fs

Getenv(name) == IF name \in DOMAIN env THEN env[name] ELSE <<>>

----------------------------------------------------------------------------
(***************************************************************************)
(* Paths and URIs                                                          *)
(***************************************************************************)
IsAbsolute(p) == p # <<>> /\ Head(p) = "/"

HasExtension(p, extension) == p # <<>> /\ Last(p) = extension

HasSomeExtension(p) == HasExtension(p, ".toml") \/ HasExtension(p, ".so")

WithExtension(p, extension) ==
  (IF HasSomeExtension(p) THEN Front(p) ELSE p) \o extension

\* dir / file
Join(dir, file) == IF dir = <<>> THEN file ELSE dir \o <<"/">> \o file

Stem(p) ==
  LET slash == SelectLastInSeq(p, LAMBDA t : t = "/") IN
  WithExtension(SubSeq(p, slash + 1, Len(p)), <<>>)

\* The k-th smallest of a set of positions.
Nth(positions, k) ==
  CHOOSE i \in positions : Cardinality({j \in positions : j <= i}) = k

\* A list of paths separated by colons, without the empty ones: the k-th is the
\* k-th stretch between colons, from its first to its last position.
InternalAdbcParsePath(s) ==
  LET inside == {i \in DOMAIN s : s[i] # ":"}
      first == {i \in inside : i - 1 \notin inside}
      last == {i \in inside : i + 1 \notin inside}
  IN  [k \in 1 .. Cardinality(first) |-> SubSeq(s, Nth(first, k), Nth(last, k))]

GetEnvPaths(name) == InternalAdbcParsePath(Getenv(name))

\* XDG_CONFIG_HOME counts if it is set, even to nothing.
InternalAdbcUserConfigDir ==
  LET config == CASE "XDG_CONFIG_HOME" \in DOMAIN env -> env["XDG_CONFIG_HOME"]
                  [] "XDG_CONFIG_HOME" \notin DOMAIN env /\ "HOME" \in DOMAIN env
                       -> Join(env["HOME"], <<".config">>)
                  [] OTHER -> <<>>
  IN  IF config = <<>> THEN <<>> ELSE Join(config, <<"adbc">>)

InternalAdbcSystemConfigDir == <<"/", "etc", "/", "adbc", "/", "drivers">>

\* driver:rest, scheme://rest or profile://name
InternalAdbcParseDriverUri(s) ==
  LET pos == SelectInSeq(s, LAMBDA t : t = ":")
      before == SubSeq(s, 1, pos - 1)
      isScheme == pos > 0 /\ pos < Len(s) /\ s[pos + 1] = "/"
      isProfile == isScheme /\ before = <<"profile">> /\ Len(s) > pos + 1
      Result(form, driver, rest) == [form |-> form, driver |-> driver, rest |-> rest]
  IN  CASE pos = 0 -> Result("none", <<>>, <<>>)
        [] pos > 0 /\ pos = Len(s) -> Result("driver", before, <<>>)
        [] isProfile -> Result("profile", <<>>, SubSeq(s, pos + 3, Len(s)))
        [] isScheme /\ ~isProfile -> Result("uri", before, s)
        [] OTHER -> Result("uri", before, SubSeq(s, pos + 1, Len(s)))

----------------------------------------------------------------------------
(***************************************************************************)
(* Shared libraries                                                        *)
(***************************************************************************)
Dlopen(p) == Exists(p) /\ fs[p].kind = "library"

\* The extension refuses to connect to DuckDB itself.
Refused(p) == Contains(Stem(p), "quack") \/ Contains(Stem(p), "duckdb")

\* The name dlopen is tried with a second time.  The prefix goes in front of
\* the whole path; the suffix is looked for in the wrong place unless the
\* path starts with the prefix.
FullDriverName(p) ==
  CASE Head(p) = "lib" /\ Last(p) = ".so" -> p
    [] Head(p) = "lib" /\ Last(p) # ".so" -> p \o <<".so">>
    [] OTHER -> <<"lib">> \o p \o <<".so">>

CanLoad(p) == ~Refused(p) /\ (Dlopen(p) \/ Dlopen(FullDriverName(p)))

\* ManagedLibrary::Load of a library that can be loaded.
LoadLibrary(p) == library' = IF Dlopen(p) THEN p ELSE FullDriverName(p)

\* The init function of libadbc_driver_x.so is AdbcDriverXInit, of
\* libx.so AdbcXInit.
InternalAdbcDriverManagerDefaultEntrypoint(p) ==
  LET name == IF Head(Stem(p)) = "lib" THEN Tail(Stem(p)) ELSE Stem(p)
      prefix == IF Head(name) = "adbc" THEN <<>> ELSE <<"adbc">>
  IN  prefix \o name \o <<"Init">>

kDefaultEntrypoint == <<"adbc", "driver", "Init">>

----------------------------------------------------------------------------
Init ==
  /\ scenario \in Scenarios
  /\ args = scenario.args
  /\ profile = <<>>
  /\ info = [lib_path |-> <<>>, entrypoint |-> <<>>]
  /\ paths = <<>> /\ list = "none"
  /\ library = <<>>
  /\ pc = "options" /\ status = "OK"

Goto(place) == pc' = place /\ UNCHANGED status

Fail(code) == pc' = "failed" /\ status' = code

----------------------------------------------------------------------------
(***************************************************************************)
(* InternalAdbcParseOptions: which profile?                                *)
(***************************************************************************)
Option(key) == IF key \in DOMAIN args.options THEN args.options[key] ELSE <<>>

Erased(key) == Restrict(args.options, DOMAIN args.options \ {key})

\* The places that name a profile.
ProfileSources ==
  (IF "profile" \in DOMAIN args.options THEN {"option"} ELSE {})
  \union (IF InternalAdbcParseDriverUri(Option("uri")).form = "profile"
          THEN {"uri"} ELSE {})
  \union (IF InternalAdbcParseDriverUri(args.driver).form = "profile"
          THEN {"driver"} ELSE {})

UseInitFunc ==
  /\ pc = "options" /\ args.init_func
  /\ Goto("loaded")
  /\ UNCHANGED <<scenario, args, profile, info, paths, list, library>>

MultipleProfiles ==
  /\ pc = "options" /\ ~args.init_func
  /\ \E a, b \in ProfileSources : a # b
  /\ Fail("INVALID_ARGUMENT")
  /\ UNCHANGED <<scenario, args, profile, info, paths, list, library>>

\* What named the profile is erased.
ChooseProfile ==
  /\ pc = "options" /\ ~args.init_func
  /\ \/ /\ ProfileSources = {}
        /\ UNCHANGED <<args, profile>>
     \/ /\ ProfileSources = {"option"}
        /\ profile' = args.options["profile"]
        /\ args' = [args EXCEPT !.options = Erased("profile")]
     \/ /\ ProfileSources = {"uri"}
        /\ profile' = InternalAdbcParseDriverUri(Option("uri")).rest
        /\ args' = [args EXCEPT !.options = Erased("uri")]
     \/ /\ ProfileSources = {"driver"}
        /\ profile' = InternalAdbcParseDriverUri(args.driver).rest
        /\ args' = [args EXCEPT !.driver = <<>>]
  /\ Goto(IF profile' = <<>> THEN "driver" ELSE "profile")
  /\ UNCHANGED <<scenario, info, paths, list, library>>

----------------------------------------------------------------------------
(***************************************************************************)
(* Connection profiles                                                     *)
(***************************************************************************)
\* The values of a profile's [Options] are [type, value]; keys of nested
\* tables are joined with dots.  Booleans become strings.
StringTypes == {"string", "boolean"}
NumberTypes == {"integer", "float"}

OfType(options, types) == {key \in DOMAIN options : options[key].type \in types}

\* LoadProfileFile: a file that is not TOML, of another version, without
\* options or with an array among them, is invalid.
ProfileIsValid(p) ==
  /\ Exists(p) /\ fs[p].kind = "profile"
  /\ fs[p].version = 1
  /\ OfType(fs[p].options, StringTypes \union NumberTypes) = DOMAIN fs[p].options

GetProfileSearchPaths ==
  InternalAdbcParsePath(args.additional_profile_search_path_list)
  \o GetEnvPaths("ADBC_PROFILE_PATH")
  \o <<Join(InternalAdbcUserConfigDir, <<"profiles">>)>>

ProfileCandidates ==
  LET file == WithExtension(profile, <<".toml">>) IN
  IF HasExtension(profile, ".toml") \/ IsAbsolute(profile)
  THEN <<file>>
  ELSE [i \in DOMAIN GetProfileSearchPaths |-> Join(GetProfileSearchPaths[i], file)]

\* AdbcProfileProviderFilesystem: the first file that exists is the one.  An
\* absolute path without extension is not checked, only opened.
FindProfile ==
  LET existing == SelectSeq(ProfileCandidates, Exists)
      opened == IsAbsolute(profile) /\ ~HasExtension(profile, ".toml")
  IN
  /\ pc = "profile"
  /\ \/ /\ existing = <<>>
        /\ Fail(IF opened THEN "INVALID_ARGUMENT" ELSE "NOT_FOUND")
        /\ UNCHANGED profile
     \/ /\ existing # <<>>
        /\ ~ProfileIsValid(Head(existing))
        /\ Fail("INVALID_ARGUMENT")
        /\ UNCHANGED profile
     \/ /\ existing # <<>>
        /\ ProfileIsValid(Head(existing))
        /\ profile' = Head(existing)
        /\ Goto("apply")
  /\ UNCHANGED <<scenario, args, info, paths, list, library>>

\* ProcessProfileValue: a value is a sequence of [text] and of
\* [interpolation], of which only env_var(NAME) is known.
IsProcessable(value) ==
  \A i \in DOMAIN value : value[i].type \in {"text", "env_var"}

ProcessProfileValue(value) ==
  FlattenSeq([i \in DOMAIN value |->
                IF value[i].type = "text" THEN <<value[i].is>> ELSE Getenv(value[i].is)])

DriverMatches ==
  fs[profile].driver = <<>> \/ args.driver \in {<<>>, fs[profile].driver}

ProfileDriver == IF fs[profile].driver = <<>> THEN args.driver ELSE fs[profile].driver

\* The string options of the profile under `keys', processed.
StringOptions(keys) ==
  [key \in keys |-> ProcessProfileValue(fs[profile].options[key].value)]

\* int_options and double_options, as one function of <<type, key>>.
NumberOptions ==
  [k \in {<<fs[profile].options[key].type, key>> :
            key \in OfType(fs[profile].options, NumberTypes)}
     |-> fs[profile].options[k[2]].value]

Processable ==
  {key \in OfType(fs[profile].options, StringTypes) :
     IsProcessable(fs[profile].options[key].value)}

\* try_emplace: what is set already stays.
Overwrite(set, new) ==
  [key \in DOMAIN set \union DOMAIN new |-> IF key \in DOMAIN new THEN new[key] ELSE set[key]]
TryEmplace(set, new) ==
  [key \in DOMAIN set \union DOMAIN new |-> IF key \in DOMAIN set THEN set[key] ELSE new[key]]

DriverMismatch ==
  /\ pc = "apply" /\ ~DriverMatches
  /\ Fail("INVALID_ARGUMENT")
  /\ UNCHANGED <<scenario, args, profile, info, paths, list, library>>

\* A value that cannot be processed ends the call; the options are visited in
\* no particular order, and those before it have been set.
ProfileValueInvalid ==
  /\ pc = "apply" /\ DriverMatches
  /\ Processable # OfType(fs[profile].options, StringTypes)
  /\ \E visited \in SUBSET Processable :
       args' = [args EXCEPT !.driver = ProfileDriver,
                            !.options = TryEmplace(@, StringOptions(visited))]
  /\ Fail("INVALID_ARGUMENT")
  /\ UNCHANGED <<scenario, profile, info, paths, list, library>>

InternalInitializeProfile ==
  /\ pc = "apply" /\ DriverMatches
  /\ Processable = OfType(fs[profile].options, StringTypes)
  /\ args' = [args EXCEPT
       !.driver = ProfileDriver,
       !.options = TryEmplace(@, StringOptions(Processable)),
       !.number_options = TryEmplace(@, NumberOptions)]
  /\ Goto("driver")
  /\ UNCHANGED <<scenario, profile, info, paths, list, library>>

----------------------------------------------------------------------------
(***************************************************************************)
(* InternalAdbcParseOptions: which driver?                                 *)
(***************************************************************************)
\* A driver and a URI from a string that holds both; the URI replaces the
\* option.
SetDriverAndUri(parsed) ==
  args' = [args EXCEPT !.driver = parsed.driver,
                       !.options = Overwrite(@, [key \in {"uri"} |-> parsed.rest])]

ParseDriver ==
  LET parsed == InternalAdbcParseDriverUri(args.driver) IN
  /\ pc = "driver"
  /\ \/ parsed.form = "profile" /\ Fail("INVALID_ARGUMENT") /\ UNCHANGED args
     \/ parsed.form = "uri" /\ SetDriverAndUri(parsed) /\ Goto("uri")
     \/ parsed.form \in {"none", "driver"} /\ Goto("uri") /\ UNCHANGED args
  /\ UNCHANGED <<scenario, profile, info, paths, list, library>>

\* Without a driver the URI names it; a URI without a colon is its name.
ParseUri ==
  LET parsed == InternalAdbcParseDriverUri(Option("uri")) IN
  /\ pc = "uri" /\ args.driver = <<>>
  /\ \/ parsed.form = "profile" /\ Fail("INVALID_ARGUMENT") /\ UNCHANGED args
     \/ /\ parsed.form = "uri" /\ SetDriverAndUri(parsed)
        /\ IF parsed.driver = <<>> THEN Fail("INVALID_ARGUMENT") ELSE Goto("locate")
     \/ parsed.form = "driver" /\ Fail("INVALID_ARGUMENT") /\ UNCHANGED args
     \/ /\ parsed.form = "none"
        /\ args' = [args EXCEPT !.driver = Option("uri")]
        /\ IF Option("uri") = <<>> THEN Fail("INVALID_ARGUMENT") ELSE Goto("locate")
  /\ UNCHANGED <<scenario, profile, info, paths, list, library>>

DriverIsKnown ==
  /\ pc = "uri" /\ args.driver # <<>>
  /\ Goto("locate")
  /\ UNCHANGED <<scenario, args, profile, info, paths, list, library>>

----------------------------------------------------------------------------
(***************************************************************************)
(* ManagedLibrary: where is the driver?                                    *)
(***************************************************************************)
\* LoadDriverManifest: NOT_FOUND if the manifest has no library for this
\* platform.
ManifestStatus(p) ==
  CASE ~Exists(p) \/ fs[p].kind # "manifest" -> "INVALID_ARGUMENT"
    [] Exists(p) /\ fs[p].kind = "manifest" /\ ~fs[p].platform -> "NOT_FOUND"
    [] Exists(p) /\ fs[p].kind = "manifest" /\ fs[p].platform
         -> IF fs[p].shared = <<>> THEN "INVALID_ARGUMENT" ELSE "OK"

\* The entrypoint of any manifest that was read, "" if it has none, replaces
\* the one there was.
EntrypointAfter(p, entrypoint) ==
  IF Exists(p) /\ fs[p].kind = "manifest" THEN fs[p].entrypoint ELSE entrypoint

\* Load p, or the call fails.
LoadOrFail(p, entrypoint) ==
  /\ info' = [lib_path |-> p, entrypoint |-> entrypoint]
  /\ IF CanLoad(p) THEN LoadLibrary(p) /\ Goto("entrypoint")
                   ELSE UNCHANGED library /\ Fail("NOT_FOUND")

RelativeAllowed == "relative" \in args.load_flags

\* GetDriverInfo of a path with an extension.
LoadPath ==
  LET path == args.driver IN
  /\ pc = "locate" /\ HasSomeExtension(path)
  /\ \/ /\ ~IsAbsolute(path) /\ ~RelativeAllowed
        /\ Fail("INVALID_ARGUMENT")
        /\ UNCHANGED <<info, library>>
     \/ /\ IsAbsolute(path) \/ RelativeAllowed
        /\ HasExtension(path, ".toml")
        /\ IF ManifestStatus(path) = "OK"
           THEN LoadOrFail(fs[path].shared, fs[path].entrypoint)
           ELSE Fail(ManifestStatus(path)) /\ UNCHANGED <<info, library>>
     \/ /\ IsAbsolute(path) \/ RelativeAllowed
        /\ ~HasExtension(path, ".toml")
        /\ LoadOrFail(path, args.entrypoint)
  /\ UNCHANGED <<scenario, args, profile, paths, list>>

\* ... of an absolute path without one: a manifest beside it comes first.
LoadAbsolute ==
  LET manifest == WithExtension(args.driver, <<".toml">>) IN
  /\ pc = "locate" /\ IsAbsolute(args.driver) /\ ~HasSomeExtension(args.driver)
  /\ \/ /\ Exists(manifest) /\ ManifestStatus(manifest) = "OK"
        /\ LoadOrFail(fs[manifest].shared, fs[manifest].entrypoint)
     \/ /\ ~Exists(manifest) \/ ManifestStatus(manifest) # "OK"
        /\ LoadOrFail(args.driver, EntrypointAfter(manifest, args.entrypoint))
  /\ UNCHANGED <<scenario, args, profile, paths, list>>

\* GetSearchPaths
SearchPaths(flags) ==
  (IF "env" \in flags THEN GetEnvPaths("ADBC_DRIVER_PATH") ELSE <<>>)
  \o (IF "user" \in flags
      THEN <<Join(InternalAdbcUserConfigDir, <<"drivers">>)>> ELSE <<>>)
  \o (IF "system" \in flags THEN <<InternalAdbcSystemConfigDir>> ELSE <<>>)

AdditionalPaths == InternalAdbcParsePath(args.additional_manifest_search_path_list)

\* FindDriver
FindDriverAdditionalFirst ==
  /\ pc = "locate" /\ ~IsAbsolute(args.driver) /\ ~HasSomeExtension(args.driver)
  /\ paths' = AdditionalPaths \o SearchPaths(args.load_flags \intersect {"env"})
  /\ list' = "first"
  /\ info' = [info EXCEPT !.entrypoint = args.entrypoint]
  /\ Goto("search")
  /\ UNCHANGED <<scenario, args, profile, library>>
FindDriver ==
  /\ pc = "locate" /\ ~IsAbsolute(args.driver) /\ ~HasSomeExtension(args.driver)
  /\ paths' = SearchPaths(args.load_flags \intersect {"env"}) \o AdditionalPaths
  /\ list' = "first"
  /\ info' = [info EXCEPT !.entrypoint = args.entrypoint]
  /\ Goto("search")
  /\ UNCHANGED <<scenario, args, profile, library>>

\* Nothing was found in this list.
SearchOn(entrypoint) ==
  /\ info' = [info EXCEPT !.entrypoint = entrypoint]
  /\ list' = IF list = "first" THEN "second" ELSE "name"
  /\ paths' = IF list = "first" THEN SearchPaths(args.load_flags \ {"env"}) ELSE <<>>
  /\ UNCHANGED library
  /\ Goto("search")

ListEnds ==
  /\ pc = "search" /\ list # "name" /\ paths = <<>>
  /\ SearchOn(info.entrypoint)
  /\ UNCHANGED <<scenario, args, profile>>

ManifestIn(dir) == Join(dir, args.driver \o <<".toml">>)

\* SearchPathsForDriver, at the next directory: a manifest comes first.
ManifestHere ==
  LET manifest == ManifestIn(Head(paths)) IN
  /\ pc = "search" /\ paths # <<>>
  /\ Exists(manifest)
  /\ \/ /\ ManifestStatus(manifest) = "OK" /\ CanLoad(fs[manifest].shared)
        /\ LoadOrFail(fs[manifest].shared, fs[manifest].entrypoint)
        /\ UNCHANGED <<paths, list>>
     \* its library cannot be loaded: the other directories of the list are
     \* not searched
     \/ /\ ManifestStatus(manifest) = "OK" /\ ~CanLoad(fs[manifest].shared)
        /\ SearchOn(fs[manifest].entrypoint)
     \/ /\ ManifestStatus(manifest) = "INVALID_ARGUMENT"
        /\ Fail("INVALID_ARGUMENT")
        /\ UNCHANGED <<info, paths, list, library>>
  /\ UNCHANGED <<scenario, args, profile>>

\* No manifest, or one of another platform: a library.
LibraryHere ==
  LET path == Join(Head(paths), args.driver)
      manifest == ManifestIn(Head(paths))
      entrypoint == EntrypointAfter(manifest, info.entrypoint)
  IN
  /\ pc = "search" /\ paths # <<>>
  /\ Exists(manifest) => ManifestStatus(manifest) = "NOT_FOUND"
  /\ \/ /\ CanLoad(path)
        /\ LoadOrFail(path, entrypoint)
        /\ UNCHANGED paths
     \/ /\ ~CanLoad(path)
        /\ info' = [info EXCEPT !.entrypoint = entrypoint]
        /\ paths' = Tail(paths)
        /\ UNCHANGED library /\ Goto("search")
  /\ UNCHANGED <<scenario, args, profile, list>>

\* The default behavior: dlopen finds the name, or nothing does.
LoadByName ==
  /\ pc = "search" /\ list = "name"
  /\ LoadOrFail(args.driver, info.entrypoint)
  /\ UNCHANGED <<scenario, args, profile, paths, list>>

----------------------------------------------------------------------------
\* AdbcFindLoadDriver: the init function, by its given name or by default.
Entrypoints ==
  IF info.entrypoint # <<>> THEN {info.entrypoint}
  ELSE {InternalAdbcDriverManagerDefaultEntrypoint(info.lib_path), kDefaultEntrypoint}

Lookup ==
  /\ pc = "entrypoint"
  /\ IF Entrypoints \intersect fs[library].symbols # {}
     THEN Goto("loaded") ELSE Fail("INTERNAL")
  /\ UNCHANGED <<scenario, args, profile, info, paths, list, library>>

Ended ==
  /\ pc \in {"loaded", "failed"}
  /\ UNCHANGED vars

Next ==
  \/ UseInitFunc
  \/ MultipleProfiles
  \/ ChooseProfile
  \/ FindProfile
  \/ DriverMismatch
  \/ ProfileValueInvalid
  \/ InternalInitializeProfile
  \/ ParseDriver
  \/ ParseUri
  \/ DriverIsKnown
  \/ LoadPath
  \/ LoadAbsolute
  \/ FindDriver
  \/ ListEnds
  \/ ManifestHere
  \/ LibraryHere
  \/ LoadByName
  \/ Lookup
  \/ Ended

Spec == Init /\ [][Next]_vars

----------------------------------------------------------------------------
(***************************************************************************)
(* Properties                                                              *)
(***************************************************************************)
\* What the driver is given last under a key: AdbcDatabaseInit passes on the
\* strings, then the integers, then the floating point numbers.
LastGiven(a, key) ==
  LET IsSet(type) == <<type, key>> \in DOMAIN a.number_options
      Given(type) == <<type, a.number_options[<<type, key>>]>>
  IN  CASE IsSet("float") -> Given("float")
        [] IsSet("integer") /\ ~IsSet("float") -> Given("integer")
        [] key \in DOMAIN a.options /\ ~IsSet("integer") /\ ~IsSet("float")
             -> <<"string", a.options[key]>>
        [] OTHER -> <<"none">>

\* The keys the application has set.  The option "profile" is used up.
ExplicitNumbers == {k[2] : k \in DOMAIN scenario.args.number_options}
ExplicitKeys == (DOMAIN scenario.args.options \ {"profile"}) \union ExplicitNumbers

\* The code against the header, (1): there is one map of options for each
\* kind.  A number of the profile is kept beside a string, or an integer, that
\* the application has set under the same key, and reaches the driver after it.
OverriddenByNumber(key) ==
  /\ profile # <<>> /\ key \in OfType(fs[profile].options, NumberTypes)
  /\ <<"float", key>> \notin DOMAIN scenario.args.number_options
  /\ fs[profile].options[key].type = "integer" =>
       <<"integer", key>> \notin DOMAIN scenario.args.number_options

\* (2): a URI in the profile's driver replaces the one that was set ("maybe only
\* do this if URI is unset?").
OverriddenByDriver ==
  profile # <<>> /\ InternalAdbcParseDriverUri(fs[profile].driver).form = "uri"

\* The application itself has said what to do with its URI: it names the
\* profile; or the driver brings one of its own; or it names the driver, since
\* nothing else does, and the rest of it is the URI.
UriIsUsed ==
  LET uri == InternalAdbcParseDriverUri(scenario.args.options["uri"])
      driver == InternalAdbcParseDriverUri(scenario.args.driver)
  IN  \/ uri.form = "profile"
      \/ driver.form = "uri"
      \/ /\ uri.form = "uri" /\ LastGiven(args, "uri") = <<"string", uri.rest>>
         /\ scenario.args.driver = <<>> \/ driver.form = "profile"
         /\ profile # <<>> => fs[profile].driver = <<>>

\* The header on profiles: their options "will be applied but will not override
\* options that have already been set using DatabaseSetOption".  The value the
\* driver has at the end of a key the application has set is the application's,
\* but for the two cases above, in which the code does override it; under each
\* other key of the profile it is the profile's, its variables filled in.  (A
\* "uri" of the profile may name the driver.)
ExplicitOptionsWin ==
  pc = "loaded" =>
    /\ \A key \in ExplicitKeys :
         \/ LastGiven(args, key) = LastGiven(scenario.args, key)
         \/ OverriddenByNumber(key)
         \/ key = "uri" /\ (OverriddenByDriver \/ UriIsUsed)
    /\ profile # <<>> =>
         \A key \in DOMAIN fs[profile].options
                      \ (ExplicitKeys \union {"profile", "uri"}) :
           LET option == fs[profile].options[key] IN
           LastGiven(args, key) =
             IF option.type \in NumberTypes THEN <<option.type, option.value>>
             ELSE <<"string", ProcessProfileValue(option.value)>>

\* The directories in the order of FindDriver's comments and the header: the
\* environment variable and the application's paths; the user and the system.
FirstDirectories ==
  (IF "env" \in args.load_flags THEN GetEnvPaths("ADBC_DRIVER_PATH") ELSE <<>>)
  \o AdditionalPaths

SecondDirectories ==
  (IF "user" \in args.load_flags
   THEN <<Join(InternalAdbcUserConfigDir, <<"drivers">>)>> ELSE <<>>)
  \o (IF "system" \in args.load_flags THEN <<InternalAdbcSystemConfigDir>> ELSE <<>>)

DocumentedOrder == FirstDirectories \o SecondDirectories

\* What a directory may hold for the driver: <dir>/<name>.toml, <dir>/<name>.so
\* and, which the header does not mention, a library <dir>/<name>.
LibraryIn(dir) == Join(dir, args.driver \o <<".so">>)
HoldsDriver(dir) ==
  Exists(ManifestIn(dir)) \/ Dlopen(LibraryIn(dir)) \/ Dlopen(Join(dir, args.driver))

\* The code against the header, (1): the library that is asked for is not
\* <dir>/<name>.so but <dir>/<name>, and then lib<dir>/<name>.so, which is
\* another file unless <dir> starts with "lib".  (The names the extension
\* refuses are its own addition.)
NoLibrary(dir) ==
  LET path == Join(dir, args.driver) IN
  \/ Refused(path)
  \/ ~Dlopen(path) /\ (FullDriverName(path) = LibraryIn(dir) => ~Dlopen(LibraryIn(dir)))

MissesLibrary(dir) == ~Exists(ManifestIn(dir)) /\ NoLibrary(dir)

\* (2): a manifest without a library for this platform is not an error; a
\* library is looked for instead.
OtherPlatform(dir) ==
  /\ Exists(ManifestIn(dir)) /\ ManifestStatus(ManifestIn(dir)) = "NOT_FOUND"
  /\ NoLibrary(dir)

\* (3): a manifest whose library cannot be loaded is not an error either, but
\* ends the list it is in, and hides what the rest of it holds.
Dangles(dir) ==
  /\ Exists(ManifestIn(dir)) /\ ManifestStatus(ManifestIn(dir)) = "OK"
  /\ ~CanLoad(fs[ManifestIn(dir)].shared)

IsHidden(i) ==
  \E k \in 1 .. i - 1 :
    /\ Dangles(DocumentedOrder[k])
    /\ k <= Len(FirstDirectories) <=> i <= Len(FirstDirectories)

\* The library that was loaded is the one the manifest of dir names or, without
\* a manifest for this platform, the one in dir; a manifest that cannot be
\* parsed is an error.
TakenFrom(dir) ==
  LET manifest == ManifestIn(dir)
      path == IF Exists(manifest) /\ ManifestStatus(manifest) = "OK"
              THEN fs[manifest].shared ELSE Join(dir, args.driver)
  IN  IF Exists(manifest) /\ ManifestStatus(manifest) = "INVALID_ARGUMENT"
      THEN pc = "failed" /\ status = "INVALID_ARGUMENT"
      ELSE library \in {path, FullDriverName(path)} /\ Dlopen(library)

\* The search stops at directory n with what it holds, or goes past all.
StopsAt(n) ==
  IF paths = <<>> THEN n = Len(DocumentedOrder) + 1
  ELSE /\ n \in DOMAIN DocumentedOrder /\ DocumentedOrder[n] = Head(paths)
       /\ TakenFrom(DocumentedOrder[n])

\* The header on the search: each directory in turn, its manifest first, "erroring
\* if this fails", otherwise its library; and then the next directory.  The
\* search takes its driver from the first directory, in the documented order,
\* that holds one, whatever the others hold; where it goes past a manifest or
\* a library it is for one of the three reasons above, in which the code does
\* not do what the header says.
FindsFirst ==
  list # "none" /\ pc \in {"entrypoint", "loaded", "failed"} =>
    \E n \in 1 .. Len(DocumentedOrder) + 1 :
      /\ StopsAt(n)
      /\ \A i \in 1 .. n - 1 :
           HoldsDriver(DocumentedOrder[i]) =>
             \/ MissesLibrary(DocumentedOrder[i])
             \/ OtherPlatform(DocumentedOrder[i])
             \/ Dangles(DocumentedOrder[i])
             \/ IsHidden(i)
============================================================================
