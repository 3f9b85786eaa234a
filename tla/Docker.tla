------------------------------- MODULE Docker -------------------------------
(***************************************************************************)
(* deploy and verify without --no-verify: the command prints its own flags,*)
(* splits them at spaces, makes sure there is an image for the project's   *)
(* toolchain, and runs itself in a container of it.  Several commands use  *)
(* one Docker daemon, which may stop and may lose images meanwhile.        *)
(*                                                                         *)
(* A value is the sequence of the words between its spaces; a word of the  *)
(* command line is a flag with its text, or a bare text.                   *)
(***************************************************************************)
EXTENDS SequencesExt

CONSTANTS
  Commands,      \* runs of the tool
  Configs,       \* what they are started with
  Atoms,         \* texts without a space; "" and the names of switches too,
                 \* but nothing else that starts with a dash
  Channels,      \* toolchain channels of rust-toolchain.toml
  Generic,       \* "stable", "nightly", "beta" or none at all
  WeiPerEther,
  NoImage, NoRequest

Switches == {"--verbose", "--estimate-gas", "--no-activate"}

\* Options with one value, in the order they are printed in by deploy; the
\* other command prints those it has.
DeployOptions ==
  <<"endpoint", "max-fee-per-gas-gwei", "features", "data-fee-bump-percent",
    "wasm-file", "contract-address", "private-key-path", "private-key",
    "keystore-path", "keystore-password-path", "cargo-stylus-version",
    "deployer-address", "deployer-salt">>
VerifyOptions ==
  <<"endpoint", "max-fee-per-gas-gwei", "features", "deployment-tx",
    "cargo-stylus-version">>
OptionNames == ToSet(DeployOptions) \cup ToSet(VerifyOptions)

\* AuthOpts; its group "key" takes exactly one of the three keys.
KeyOptions == {"private-key-path", "private-key", "keystore-path"}
AuthOptions == KeyOptions \cup {"keystore-password-path"}

\* One of these is required, and only one is taken.
Required(kind) == IF kind = "deploy" THEN KeyOptions ELSE {"deployment-tx"}

SwitchesOf(kind) == IF kind = "deploy" THEN Switches ELSE {"--verbose"}
OptionsOf(kind) == ToSet(IF kind = "deploy" THEN DeployOptions ELSE VerifyOptions)

\* A value has a word, the empty text an empty one.
Text == Seq(Atoms) \ {<<>>}

\* The flags of a command: `local` is --no-verify, `host` a host that can run
\* containers; the value of the constructor is in wei, as parse_ether left it.
IsConfig(x) ==
  /\ x.kind \in {"deploy", "verify"}
  /\ x.local \in BOOLEAN /\ x.host \in BOOLEAN
  /\ x.channel \in Channels \cup Generic
  /\ DOMAIN x.options \subseteq OptionsOf(x.kind)
  /\ \A n \in DOMAIN x.options : x.options[n] \in Text
  /\ \E n \in Required(x.kind) : DOMAIN x.options \cap Required(x.kind) = {n}
  /\ x.switches \subseteq SwitchesOf(x.kind)
  /\ x.sources \in Seq(Atoms)
  /\ x.value \in Nat
  /\ x.signature \in Seq(Atoms)
  /\ x.args \in Seq(Text)
  /\ x.kind = "verify" => x.value = 0 /\ x.signature = <<>> /\ x.args = <<>>

ASSUME DockerAssumption == (\A x \in Configs : IsConfig(x)) /\ WeiPerEther \in Nat

\* What a command is asked to do: the options and values it has parsed.
Request == [switches : SUBSET Switches, options : SUBSET (OptionNames \X Seq(Atoms)),
            sources : Seq(Seq(Atoms)), value : Nat, signature : Seq(Seq(Atoms)),
            quoted : BOOLEAN, args : Seq(Seq(Atoms))]

VARIABLES
  daemon,    \* the Docker daemon answers
  images,    \* its images: pairs of a cargo-stylus version and a toolchain
  cfg,       \* each command's flags
  pc,        \* its next step
  image,     \* the image its container runs in
  request,   \* what the command in the container (or this one) has parsed
  inner,     \* how that command ended: "none", "runs", "ok" or "failed"
  exit       \* how this one did: "none", "ok" or "error"

vars == <<daemon, images, cfg, pc, image, request, inner, exit>>

Version(x) == IF "cargo-stylus-version" \in DOMAIN x.options
                THEN x.options["cargo-stylus-version"] ELSE <<"own">>

\* image_name
ImageOf(x) == <<Version(x), x.channel>>

-----------------------------------------------------------------------------
(* The flags, printed (the Display impls) and parsed (clap).               *)

Word(flag, text) == [flag |-> flag, text |-> text, quoted |-> FALSE, number |-> 0]
Bare(a) == Word("", <<a>>)

\* The flag is glued to the first word of its value.
Words(flag, value) ==
  <<Word(flag, <<value[1]>>)>> \o [i \in 1 .. Len(value) - 1 |-> Bare(value[i + 1])]

Option(x, n) == IF n \in DOMAIN x.options THEN Words(n, x.options[n]) ELSE <<>>
Switch(x, s) == IF s \in x.switches THEN <<Bare(s)>> ELSE <<>>

\* The patterns are joined with commas into one word.
Sources(x) ==
  IF x.sources = <<>> THEN <<>>
                      ELSE <<Word("source-files-for-project-hash", x.sources)>>

\* The value is printed in wei.
Value(x) == <<[Word("constructor-value", <<>>) EXCEPT !.number = x.value]>>

\* Quotes are put around the signature, for a shell that is not there.
Signature(x) ==
  IF x.signature = <<>> THEN <<>>
  ELSE LET w == Words("constructor-signature", x.signature)
       IN  [i \in DOMAIN w |-> [w[i] EXCEPT !.quoted = i \in {1, Len(w)}]]

\* constructor args must be last
Args(x) ==
  IF x.args = <<>> THEN <<>>
  ELSE <<Bare("--constructor-args")>>
         \o FlattenSeq([i \in DOMAIN x.args |->
              [j \in DOMAIN x.args[i] |-> Bare(x.args[i][j])]])

\* Mutant: an option was added to the command and forgotten in its Display.
CommonLessFeatures(x) ==
  Option(x, "endpoint") \o Switch(x, "--verbose") \o Sources(x)
    \o Option(x, "max-fee-per-gas-gwei")

Common(x) ==
  Option(x, "endpoint") \o Switch(x, "--verbose") \o Sources(x)
    \o Option(x, "max-fee-per-gas-gwei") \o Option(x, "features")

AuthFlags(x) ==
  Option(x, "private-key-path") \o Option(x, "private-key")
    \o Option(x, "keystore-path") \o Option(x, "keystore-password-path")

DeployFlags(x) ==
  Option(x, "data-fee-bump-percent") \o Option(x, "wasm-file")
    \o Option(x, "contract-address") \o AuthFlags(x)
    \o Switch(x, "--estimate-gas") \o Option(x, "cargo-stylus-version")
    \o Switch(x, "--no-activate") \o Option(x, "deployer-address")
    \o Option(x, "deployer-salt") \o Value(x) \o Signature(x)

VerifyFlags(x) == Option(x, "deployment-tx") \o Option(x, "cargo-stylus-version")

\* Mutant: the arguments are printed before the switches.
ArgsTooEarly(x) ==
  Common(x) \o (IF x.kind = "deploy"
                  THEN AuthFlags(x) \o Args(x)
                         \o Switch(x, "--estimate-gas") \o Switch(x, "--no-activate")
                  ELSE VerifyFlags(x))

\* to_string
Printed(x) ==
  Common(x) \o (IF x.kind = "deploy" THEN DeployFlags(x) \o Args(x)
                                     ELSE VerifyFlags(x))

\* split(' ') and the filter of what is empty.
Kept(word) == IF word = Bare("") THEN <<>> ELSE <<word>>
Split(words) == FlattenSeq([i \in DOMAIN words |-> Kept(words[i])])

\* The place of --constructor-args, which takes all that follows.
ArgsAt(words) ==
  LET at == {i \in DOMAIN words : words[i] = Bare("--constructor-args")}
  IN  IF at = {} THEN Len(words) + 1 ELSE CHOOSE i \in at : \A j \in at : i <= j

\* Mutant: unexpected words are let through.
ParsesAnything(kind, words) ==
  \E i \in 1 .. ArgsAt(words) - 1 : words[i].flag \in Required(kind)

\* clap refuses an unexpected word, a flag or switch that is given twice, a
\* command without a key or a transaction, and a second key; verify has no
\* --constructor-args.
Parses(kind, words) ==
  LET flags == 1 .. ArgsAt(words) - 1 IN
  /\ kind = "verify" => flags = DOMAIN words
  /\ \E i \in flags : /\ words[i].flag \in Required(kind)
                     /\ \A j \in flags \ {i} : words[j].flag \notin Required(kind)
  /\ \A i \in flags : words[i].flag = "" => words[i].text[1] \in SwitchesOf(kind)
  /\ \A i, j \in flags :
       i # j => \/ words[i].flag # words[j].flag
                \/ words[i].flag = "" /\ words[i].text # words[j].text

\* What clap makes of the words; the value of the constructor is in ether.
Parsed(words) ==
  LET flags == {words[i] : i \in 1 .. ArgsAt(words) - 1}
      of(flag) == {w \in flags : w.flag = flag}
      list(flag) == SetToSeq({w.text : w \in of(flag)})
  IN [switches  |-> {w.text[1] : w \in of("")},
      options   |-> {<<n, w.text>> : n \in OptionNames, w \in flags}
                      \cap {<<w.flag, w.text>> : w \in flags},
      sources   |-> list("source-files-for-project-hash"),
      value     |-> LET v == {w.number : w \in of("constructor-value")}
                    IN  WeiPerEther * (IF v = {} THEN 0 ELSE CHOOSE n \in v : TRUE),
      signature |-> list("constructor-signature"),
      quoted    |-> \E w \in of("constructor-signature") : w.quoted,
      args      |-> [i \in 1 .. Len(words) - ArgsAt(words) |->
                       words[ArgsAt(words) + i].text]]

\* What the user has asked for.
Asked(x) ==
  [switches  |-> x.switches,
   options   |-> {<<n, x.options[n]>> : n \in DOMAIN x.options},
   sources   |-> [i \in DOMAIN x.sources |-> <<x.sources[i]>>],
   value     |-> x.value,
   signature |-> IF x.signature = <<>> THEN <<>> ELSE <<x.signature>>,
   quoted    |-> FALSE,
   args      |-> x.args]

-----------------------------------------------------------------------------
Init ==
  /\ daemon \in BOOLEAN
  /\ images = {}
  /\ cfg \in [Commands -> Configs]
  /\ pc = [c \in Commands |-> "start"]
  /\ image = [c \in Commands |-> NoImage]
  /\ request = [c \in Commands |-> NoRequest]
  /\ inner = [c \in Commands |-> "none"]
  /\ exit = [c \in Commands |-> "none"]

TypeOK ==
  /\ daemon \in BOOLEAN
  /\ images \subseteq {ImageOf(x) : x \in Configs}
  /\ cfg \in [Commands -> Configs]
  /\ pc \in [Commands -> {"start", "image", "build", "run", "inside", "ended"}]
  /\ image \in [Commands -> {ImageOf(x) : x \in Configs} \cup {NoImage}]
  /\ \A c \in Commands :
       request[c] = NoRequest \/ request[c].switches \subseteq Switches
  /\ inner \in [Commands -> {"none", "runs", "ok", "failed"}]
  /\ exit \in [Commands -> {"none", "ok", "error"}]

Goes(c, step) == pc' = [pc EXCEPT ![c] = step] /\ UNCHANGED exit
Ends(c, how) == /\ pc' = [pc EXCEPT ![c] = "ended"]
                /\ exit' = [exit EXCEPT ![c] = how]

\* main_impl: with --no-verify the command itself does the work; otherwise the
\* host and the toolchain's channel are checked first.
Start(c) ==
  /\ pc[c] = "start"
  /\ IF cfg[c].local
       THEN /\ request' = [request EXCEPT ![c] = Asked(cfg[c])]
            /\ inner' = [inner EXCEPT ![c] = "runs"]
            /\ Goes(c, "inside")
       ELSE /\ IF cfg[c].host /\ cfg[c].channel \notin Generic
                 THEN Goes(c, "image") ELSE Ends(c, "error")
            /\ UNCHANGED <<request, inner>>
  /\ UNCHANGED <<daemon, images, cfg, image>>

ImageExists(x) == ImageOf(x) \in images

\* `docker images <name>`
LookForImage(c) ==
  /\ pc[c] = "image"
  /\ IF ~daemon THEN Ends(c, "error")
                ELSE Goes(c, IF ImageExists(cfg[c]) THEN "run" ELSE "build")
  /\ UNCHANGED <<daemon, images, cfg, image, request, inner>>

\* `docker build` makes the image, or fails, which nobody looks at; it is an
\* error if it cannot be started, written to or waited for.
BuildImage(c) ==
  /\ pc[c] = "build"
  /\ \/ daemon /\ images' = images \cup {ImageOf(cfg[c])}
     \/ UNCHANGED images
  /\ Goes(c, "run") \/ Ends(c, "error")
  /\ UNCHANGED <<daemon, cfg, image, request, inner>>

CommandLine(x) == Split(Printed(x))

\* `docker run` may not start, which is an error.  Without the daemon or the
\* image it fails, and in the container the words may not parse; either way the
\* exit code is dropped.
Run(c) ==
  /\ pc[c] = "run"
  /\ \/ Ends(c, "error") /\ UNCHANGED <<image, request, inner>>
     \/ /\ ~daemon \/ ~ImageExists(cfg[c])
        /\ Ends(c, "ok") /\ UNCHANGED <<image, request, inner>>
     \/ /\ daemon /\ ImageExists(cfg[c])
        /\ image' = [image EXCEPT ![c] = ImageOf(cfg[c])]
        /\ IF Parses(cfg[c].kind, CommandLine(cfg[c]))
             THEN /\ request' = [request EXCEPT ![c] = Parsed(CommandLine(cfg[c]))]
                  /\ inner' = [inner EXCEPT ![c] = "runs"]
                  /\ Goes(c, "inside")
             ELSE Ends(c, "ok") /\ UNCHANGED <<request, inner>>
  /\ UNCHANGED <<daemon, images, cfg>>

\* The command does its work (Deploy, Reproduce), here or in the container,
\* where it also fails if the daemon stops, which is not reported.
Work(c) ==
  /\ pc[c] = "inside"
  /\ \E how \in {"ok", "failed"} :
       /\ how = "ok" => daemon \/ cfg[c].local
       /\ inner' = [inner EXCEPT ![c] = how]
       /\ Ends(c, IF cfg[c].local /\ how = "failed" THEN "error" ELSE "ok")
  /\ UNCHANGED <<daemon, images, cfg, image, request>>

\* The container cannot be waited for: an error, while it works on or after it
\* has ended.
WaitFails(c) ==
  /\ pc[c] = "inside" /\ ~cfg[c].local
  /\ \E how \in {"runs", "ok", "failed"} :
       /\ how = "ok" => daemon
       /\ inner' = [inner EXCEPT ![c] = how]
  /\ Ends(c, "error")
  /\ UNCHANGED <<daemon, images, cfg, image, request>>

Step(c) == \/ Start(c) \/ LookForImage(c) \/ BuildImage(c) \/ Run(c)
           \/ Work(c) \/ WaitFails(c)

\* The daemon stops or starts; somebody removes an image.
DaemonMoves ==
  /\ daemon' = ~daemon
  /\ UNCHANGED <<images, cfg, pc, image, request, inner, exit>>

ImageRemoved ==
  /\ daemon
  /\ \E i \in images : images' = images \ {i}
  /\ UNCHANGED <<daemon, cfg, pc, image, request, inner, exit>>

Next == (\E c \in Commands : Step(c)) \/ DaemonMoves \/ ImageRemoved

Spec == Init /\ [][Next]_vars

-----------------------------------------------------------------------------
\* Options whose value is one word, arguments of one word each, at most one
\* pattern, and neither a signature nor a value for the constructor.
OneWord(value) == Len(value) = 1 /\ value # <<"">>

Plain(x) ==
  /\ \A n \in DOMAIN x.options : OneWord(x.options[n])
  /\ \A i \in DOMAIN x.args : OneWord(x.args[i])
  /\ Len(x.sources) <= 1 /\ x.signature = <<>> /\ x.value = 0

\* Printing, splitting and parsing a plain command line changes nothing of it,
\* even if an argument looks like a flag: the container does what was asked.
PlainSurvives ==
  \A c \in Commands :
    Plain(cfg[c]) /\ request[c] # NoRequest => request[c] = Asked(cfg[c])

\* A command that was told only to estimate, or not to activate, never runs in
\* a container without having been told so, whatever values its other options
\* and its arguments have, spaces and the names of switches included: all but
\* the key, the keystore and its password and the version of cargo stylus,
\* which are of one word each.  (--constructor-args in one of those, before the
\* switches, would take them for arguments.)
SwitchesSurvive ==
  \A c \in Commands :
    /\ request[c] # NoRequest
    /\ \A n \in AuthOptions \cup {"cargo-stylus-version"} :
         n \in DOMAIN cfg[c].options => OneWord(cfg[c].options[n])
    => cfg[c].switches \subseteq request[c].switches
=============================================================================
