-------------------------- MODULE MCDriverLoading --------------------------
(***************************************************************************)
(* DriverLoading for one driver, "x": every combination of what four       *)
(* directories may hold for it, the forms in which an application may name *)
(* the driver, and profiles of all kinds.                                  *)
(***************************************************************************)
EXTENDS DriverLoading

Name == <<"x">>
Library(symbol) == [kind |-> "library", symbols |-> {symbol}]
XInit == <<"adbc", "x", "Init">>
MyInit == <<"my", "Init">>

Manifest(shared, platform, entrypoint) ==
  [kind |-> "manifest", shared |-> shared, platform |-> platform,
   entrypoint |-> entrypoint]

Opt == <<"/", "opt", "/", "x">>
Gone == <<"/", "gone", "/", "x">>
Malformed == [kind |-> "malformed"]

\* What a directory may hold for the driver: functions from the extension.
Nothing == [ext \in {} |-> Malformed]
Contents ==
  {Nothing,
   <<>> :> Library(XInit),
   <<".so">> :> Library(XInit),
   <<".toml">> :> Manifest(Opt, TRUE, MyInit),
   <<".toml">> :> Manifest(Gone, TRUE, <<>>),
   <<".toml">> :> Malformed,
   <<".toml">> :> Manifest(<<>>, FALSE, MyInit),
   (<<".toml">> :> Manifest(<<>>, FALSE, MyInit)) @@ (<<>> :> Library(XInit))}

Directories ==
  <<<<"/", "env">>, <<"/", "more">>, <<"/", "home", "/", ".config", "/", "adbc", "/", "drivers">>,
    <<"/", "etc", "/", "adbc", "/", "drivers">>>>

InDirectory(dir, content) ==
  [p \in {Join(dir, Name) \o ext : ext \in DOMAIN content} |->
     content[IF HasSomeExtension(p) THEN <<Last(p)>> ELSE <<>>]]

OptLibrary == Opt :> [kind |-> "library", symbols |-> {MyInit, kDefaultEntrypoint}]

AllContents(contents) ==
  {InDirectory(Directories[1], c[1]) @@ InDirectory(Directories[2], c[2])
     @@ InDirectory(Directories[3], c[3]) @@ InDirectory(Directories[4], c[4])
     @@ OptLibrary : c \in [1 .. 4 -> contents]}

Environment ==
  [v \in {"HOME", "ADBC_DRIVER_PATH", "SECRET"} |->
     CASE v = "HOME" -> <<"/", "home">>
       [] v = "ADBC_DRIVER_PATH" -> <<":", "/", "env", ":">>
       [] v = "SECRET" -> <<"s3">>]

Default == {"env", "user", "system", "relative"}
NoOptions == [key \in {} |-> <<>>]

Args(driver, options, flags) ==
  [driver |-> driver, options |-> options, number_options |-> [key \in {} |-> 0],
   entrypoint |-> <<>>, init_func |-> FALSE, load_flags |-> flags,
   additional_manifest_search_path_list |-> <<"/", "more">>,
   additional_profile_search_path_list |-> <<"/", "more">>]

In(args0, env0, fs0) == [args |-> args0, env |-> env0, fs |-> fs0]

\* The search, with the default flags, without the environment, and with an
\* entrypoint.
Searches ==
  {In(a, Environment, f) :
     a \in {Args(Name, NoOptions, Default), Args(Name, NoOptions, {"user"})},
     f \in AllContents(Contents)}
  \union {In([Args(Name, NoOptions, Default) EXCEPT !.entrypoint = XInit], e, f) :
            e \in {Environment, "XDG_CONFIG_HOME" :> <<>>},
            f \in AllContents({Nothing, <<".toml">> :> Manifest(Opt, TRUE, MyInit)})}
  \union {In([Args(Name, NoOptions, Default)
               EXCEPT !.additional_manifest_search_path_list = <<"lib", ":", "/", "more">>],
             Environment, f @@ InDirectory(<<"lib">>, c)) :
            f \in AllContents({Nothing, <<>> :> Library(XInit)}), c \in Contents}

\* The forms of a driver and a URI.
Uri(driver, rest) == driver \o <<":">> \o rest
Strings ==
  {<<>>, Name, Uri(Name, <<>>), Uri(<<>>, Name), Uri(Name, <<"file">>), Uri(Name, <<"/", "/", "host">>),
   <<"duckdb">>, Opt, Opt \o <<".toml">>, Opt \o <<".so">>, <<"x", ".so">>, <<"x", ".toml">>,
   <<"profile", ":", "/">>, <<"profile", ":", "/", "/">>}

Files ==
  {OptLibrary @@ (<<"lib", "x", ".so">> :> Library(XInit)),
   OptLibrary @@ ((Opt \o <<".toml">>) :> Manifest(Opt, TRUE, XInit)),
   OptLibrary @@ ((Opt \o <<".toml">>) :> Manifest(<<>>, TRUE, XInit)),
   <<"x", ".so">> :> Library(XInit)}

Forms ==
  {In(Args(driver, options, flags), Environment, f) :
     driver \in Strings, options \in {NoOptions} \union {"uri" :> s : s \in Strings},
     flags \in {Default, {}}, f \in Files}
  \union {In([Args(Name, NoOptions, Default) EXCEPT !.init_func = TRUE], Environment, f) :
            f \in Files}

\* Profiles
Texts(s) == [i \in DOMAIN s |-> [type |-> "text", is |-> s[i]]]
Text(string) == Texts(<<string>>)
EnvVar(name) == <<[type |-> "text", is |-> "key-"], [type |-> "env_var", is |-> name]>>
Unknown == <<[type |-> "interpolation", is |-> "?"]>>

ProfileOptions ==
  {"user" :> [type |-> "string", value |-> value] : value \in {Text("profile"), EnvVar("SECRET"), Unknown}}
  \union {"uri" :> [type |-> "string", value |-> Texts(value)] :
            value \in {Uri(Name, <<"file">>), <<"profile", ":", "/", "/", "p">>}}
ProfileFile(driver, options, version) ==
  [kind |-> "profile", driver |-> driver, options |-> options, version |-> version]
Port == "port" :> [type |-> "integer", value |-> 2]
Tls == "tls" :> [type |-> "boolean", value |-> Text("true")]

ProfileFiles ==
  {ProfileFile(driver, options @@ Port @@ Tls, 1) :
     driver \in {<<>>, Name, Uri(Name, <<"file">>), <<"y">>, <<"profile", ":", "/", "/", "p">>},
     options \in ProfileOptions}
  \union {ProfileFile(Name, Port, 2), Malformed,
          ProfileFile(Name, "list" :> [type |-> "array", value |-> <<>>], 1)}

ProfileNames == {<<"p">>, <<"/", "p">>, <<"p", ".toml">>, <<"/", "p", ".toml">>}
ProfilePlaces ==
  {<<"/", "more", "/", "p", ".toml">>, <<"/", "p", ".toml">>, <<"p", ".toml">>,
   <<"/", "home", "/", ".config", "/", "adbc", "/", "profiles", "/", "p", ".toml">>}

Named(name) ==
  {[driver |-> <<>>, options |-> "profile" :> name],
   [driver |-> Name, options |-> "profile" :> name],
   [driver |-> <<>>, options |-> "uri" :> Uri(<<"profile">>, <<"/", "/">> \o name)],
   [driver |-> Uri(<<"profile">>, <<"/", "/">> \o name), options |-> NoOptions],
   [driver |-> Uri(<<"profile">>, <<"/", "/">> \o name), options |-> "profile" :> name]}

\* What the application has set besides: nothing the profile has, the same, or
\* a port as a string or a floating point number where the profile has an integer.
Mine(key) == key :> <<"mine">>
NoNumbers == [key \in {} |-> 0]
ExplicitOptions ==
  {[strings |-> strings, numbers |-> NoNumbers] :
     strings \in {NoOptions, Mine("port"), Mine("uri"), "uri" :> Uri(Name, <<"mine">>)}}
  \union {[strings |-> Mine("user"), numbers |-> <<type, "port">> :> 1] : type \in NumberTypes}

WithProfile ==
  {In([Args(n.driver, n.options @@ set.strings, Default) EXCEPT !.number_options = set.numbers],
      Environment, (place :> file) @@ (<<"lib", "x", ".so">> :> Library(XInit))) :
     n \in UNION {Named(name) : name \in ProfileNames},
     set \in ExplicitOptions,
     place \in ProfilePlaces, file \in ProfileFiles}

MCScenarios == Searches \union Forms \union WithProfile
============================================================================
