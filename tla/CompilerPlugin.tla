---------------------------- MODULE CompilerPlugin ----------------------------
(***************************************************************************)
(* A compiler plugin and the MetaFFI compiler that drives it across a C     *)
(* border: the plugin library is found and loaded (utils/plugin_loader.hpp),*)
(* registers its handlers, is asked to parse a source into an IDL           *)
(* definition in JSON, and to compile that for a guest or for a host        *)
(* (compiler/go/*.go).                                                      *)
(*                                                                         *)
(* The compiler is not in this repository.  All it learns is out_err, which *)
(* the plugin only ever sets; it may or may not clear it between calls, and *)
(* uses a definition if out_err was not set after it was parsed.            *)
(***************************************************************************)
EXTENDS Integers, Sequences, FiniteSets, TextPieces

CONSTANTS Sources,   \* what may be parsed
          Paths,     \* output paths asked for, as pieces; ":" separates a list
          Options,   \* options meant: functions from keys to texts
          MaxCopies  \* bound: files of the plugin's name under METAFFI_HOME

ASSUME CompilerPluginAssumption ==
  /\ MaxCopies \in Nat
  /\ Sources # {} /\ ":" \notin Sources
  /\ \A p \in Paths : p \in Seq(STRING)
  /\ \A o \in Options : /\ IsFiniteSet(DOMAIN o) /\ DOMAIN o \cap {",", "="} = {}
                         /\ \A k \in DOMAIN o : k \in STRING /\ o[k] \in Seq(STRING)

Null == "null"
NoHandler == {Null}
Sides == {"guest", "host"}

VARIABLES
  home,     \* is METAFFI_HOME set?
  copies,   \* files under it that could be the plugin
  plugin,   \* is the library loaded?
  lang,     \* languagePluginInterfaceHandler: the compilers behind it
  idl,      \* is idlPluginInterfaceHandler set?
  asked,    \* the source whose definition the compiler believes it has
  json,     \* out_idl_def_json: whose definition it is
  out_err,  \* is out_err set?
  asleep,   \* the arguments of a compile_from_host in its initial sleep
  output,   \* the file the last call wrote
  last,     \* ghost: the last call that returned, and whether it did its work
  died      \* a panic left the plugin: the compiler is gone

pluginVars == <<home, copies, plugin, lang, idl, asked, json, out_err, asleep, output, last, died>>
registered == <<home, copies, plugin, lang, idl>>

NoCall == [idl |-> Null, path |-> << >>, opts |-> << >>]
NoOutput == [call |-> NoCall, kind |-> Null, dir |-> << >>, file |-> << >>, options |-> << >>]

PluginInit ==
  /\ home \in BOOLEAN /\ copies \in 0 .. MaxCopies
  /\ plugin = FALSE /\ lang = NoHandler /\ idl = FALSE
  /\ asked = Null /\ json = Null /\ out_err = FALSE
  /\ asleep = NoCall /\ output = NoOutput
  /\ last = [call |-> Null, did |-> FALSE] /\ died = FALSE

\* Somebody sets METAFFI_HOME, installs the plugin, or installs it again.
Install ==
  /\ home' = TRUE /\ copies' \in {n \in copies .. copies + 1 : n <= MaxCopies}
  /\ UNCHANGED <<plugin, lang, idl, asked, json, out_err, asleep, output, last, died>>

\* load_plugin throws without METAFFI_HOME, and unless exactly one file matches.
LoadPlugin ==
  /\ home /\ copies = 1 /\ plugin' = TRUE
  /\ UNCHANGED <<home, copies, lang, idl, asked, json, out_err, asleep, output, last, died>>

\* The plugin's init: NewLanguagePluginMain with the compilers it has, and
\* CreateIDLPluginInterfaceHandler.  A second registration replaces the first.
Register ==
  /\ plugin
  /\ \/ lang' \in SUBSET Sides /\ UNCHANGED idl
     \/ idl' = TRUE /\ UNCHANGED lang
  /\ UNCHANGED <<home, copies, plugin, asked, json, out_err, asleep, output, last, died>>

Returns(call, did, file) == last' = [call |-> call, did |-> did] /\ output' = file
Ends(call, did) == Returns(call, did, NoOutput)

\* The compiler clears out_err.
Clear ==
  /\ out_err' = FALSE /\ Ends(Null, FALSE)
  /\ UNCHANGED <<registered, asked, json, asleep, died>>

\* parse_idl: a missing handler and a parser that panics end the process; the
\* definition is written on success only, and out_err on failure only.
ParseIDL_Silent ==    \* mutant: the parser's error is not reported
  /\ plugin
  /\ \E s \in Sources :
       /\ IF idl THEN \E ok \in BOOLEAN : Ends("parse", ok) /\ json' = IF ok THEN s ELSE json
                 ELSE Ends("parse", FALSE) /\ UNCHANGED json
       /\ asked' = IF out_err THEN Null ELSE s
  /\ died' \in {~idl, TRUE}
  /\ UNCHANGED <<registered, out_err, asleep>>
ParseIDL ==
  /\ plugin
  /\ \/ \E s \in Sources :
          /\ idl
          /\ \/ json' = s /\ Ends("parse", TRUE) /\ UNCHANGED out_err
             \/ out_err' = TRUE /\ Ends("parse", FALSE) /\ UNCHANGED json
          /\ asked' = IF out_err' THEN Null ELSE s
          /\ UNCHANGED died
     \/ died' = TRUE /\ Ends("parse", FALSE) /\ UNCHANGED <<asked, json, out_err>>
  /\ UNCHANGED <<registered, asleep>>
------------------------------------------------------------------------------
\* What os.Stat says of a path: a directory, a file, nothing there, or neither
\* of these ("not a directory", "permission denied").
Kinds(p) == IF p = << >> THEN {"missing"} ELSE {"dir", "file", "missing", "unreadable"}

\* "if outPath doesn't exist OR is a file, split outPath and filename": what
\* splits is filepath.SplitList, made for lists of paths.
AsDirectory_NotMissing(kind) == kind # "file"    \* mutant
AsDirectory(kind) == kind \in {"dir", "unreadable"}
SplitList(p) == IF p = << >> THEN << >> ELSE Split(p, ":")
PathRefused(p, kind) == ~AsDirectory(kind) /\ Len(SplitList(p)) < 2

\* All but the last two parts, joined by filepath.Join.
OutDir(p, kind) ==
  IF AsDirectory(kind) THEN p
  ELSE Join(SubSeq(SplitList(p), 1, Len(SplitList(p)) - 2), "/")
OutFile(p, kind, def) ==
  IF AsDirectory(kind) \/ Last(SplitList(p)) = << >> THEN <<def>> ELSE Last(SplitList(p))

\* Options are split at "," and each at "=", into two; none at all is fine.
KeyVals(text) == IF text = << >> THEN << >>
                 ELSE [i \in 1 .. Len(Split(text, ",")) |-> Split(Split(text, ",")[i], "=")]
OptionsRefused_FewOnly(text) == \E i \in DOMAIN KeyVals(text) : Len(KeyVals(text)[i]) < 2   \* mutant
OptionsRefused(text) == \E i \in DOMAIN KeyVals(text) : Len(KeyVals(text)[i]) # 2
OptionsMap(text) ==
  LET kv == KeyVals(text)
  IN [k \in {kv[i][1] : i \in DOMAIN kv} |-> kv[LastWith(kv, k)][2]]

\* compile_to_guest and compile_from_host of the handler, and LanguagePluginMain:
\* any refusal, an error of the compiler behind them and a panic anywhere (it is
\* recovered) set out_err; a compiler that succeeds has written its file.
Refused(side, call, kind) ==
  \/ side \notin lang
  \/ PathRefused(call.path, kind)
  \/ OptionsRefused(Pairs(call.opts))
FileWritten(call, kind) ==
  [call |-> call, kind |-> kind, dir |-> OutDir(call.path, kind),
   file |-> OutFile(call.path, kind, call.idl), options |-> OptionsMap(Pairs(call.opts))]
Compile(side, call) ==
  \E kind \in Kinds(call.path) :
    \/ out_err' = TRUE /\ Ends("compile", FALSE) /\ UNCHANGED died
    \/ /\ ~Refused(side, call, kind)
       /\ Returns("compile", TRUE, FileWritten(call, kind))
       /\ UNCHANGED <<out_err, died>>

\* The compiler compiles what it believes it has parsed.
Calls == [idl : {json}, path : Paths, opts : Options]
Ready == plugin /\ asked # Null
CompileToGuest ==
  /\ Ready
  /\ \E call \in Calls : Compile("guest", call)
  /\ UNCHANGED <<registered, asked, json, asleep>>

\* compile_from_host sleeps ten seconds before it looks for its handler.
CompileFromHost ==
  /\ Ready /\ asleep = NoCall /\ asleep' \in Calls
  /\ Ends(Null, FALSE)
  /\ UNCHANGED <<registered, asked, json, out_err, died>>
WakeUp ==
  /\ asleep # NoCall /\ asleep' = NoCall
  /\ Compile("host", asleep)
  /\ UNCHANGED <<registered, asked, json>>

\* While one call sleeps the compiler waits for it.
PluginNext ==
  /\ ~died
  /\ \/ Install \/ LoadPlugin \/ Register \/ WakeUp
     \/ /\ asleep = NoCall
        /\ Clear \/ ParseIDL \/ CompileToGuest \/ CompileFromHost

PluginSpec == PluginInit /\ [][PluginNext]_pluginVars
------------------------------------------------------------------------------
(***************************************************************************)
(* A call that leaves out_err unset has done its work, so a compiler that   *)
(* looks at nothing else compiles the definition of the source it asked     *)
(* for, and believes in no file that was not written.                       *)
(***************************************************************************)
SilenceIsSuccess ==
  /\ ~out_err /\ ~died /\ last.call # Null => last.did
  /\ asked # Null => json = asked

(***************************************************************************)
(* What is written is where it was asked for: in the path, under the name   *)
(* of the source, if the path is a directory when the call looks (after its *)
(* sleep, if it is for a host); and for a path without a ":", if it is a    *)
(* file or nothing is there, as the path itself (as the code is, by         *)
(* refusing to write), and in either of the two places if os.Stat could not *)
(* tell.  Nothing is said of where the parts of a path with a ":" go.       *)
(***************************************************************************)
WritesWhereAsked ==
  output # NoOutput =>
    LET wanted == output.call.path
        at == IF output.dir = << >> THEN output.file ELSE output.dir \o <<"/">> \o output.file
        inside == wanted \o <<"/", output.call.idl>> IN
    /\ output.kind = "dir" => at = inside
    /\ (\A i \in 1 .. Len(wanted) : wanted[i] # ":") =>
         /\ at \in {wanted, inside}
         /\ output.kind \in {"file", "missing"} => at = wanted

\* What the compiler behind the plugin is given is the options that were meant
\* - each key with its value, and no other - as long as no value has a "," in
\* it: such a value comes apart, silently if what follows looks like an option.
OptionsArrive ==
  output # NoOutput /\ (\A k \in DOMAIN output.call.opts : "," \notin ToSet(output.call.opts[k])) =>
    output.options = [p \in {<<k>> : k \in DOMAIN output.call.opts} |-> output.call.opts[p[1]]]
==============================================================================
