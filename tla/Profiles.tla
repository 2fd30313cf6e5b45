-------------------------------- MODULE Profiles --------------------------------
(***************************************************************************)
(* ProfileManager (profiles/profileManager.ts) over its files: config.json *)
(* with the named servers, and one credential file per profile.  Each file *)
(* is replaced or removed in one step, but a command that touches two of   *)
(* them can be cut between the two: by a crash, or by a write that fails.  *)
(*                                                                         *)
(* Commands follow each other, because writers of the config are           *)
(* serialized by whoever runs them (profile-storage.yml); readers are not. *)
(* A credential is told by the server that issued it.  Temporary files     *)
(* have names of their own and are left out.                               *)
(***************************************************************************)
EXTENDS Naturals

CONSTANTS
  Names,        \* profile names
  Servers,      \* server origins
  None,         \* no server, no profile
  MaxCommands   \* bound: commands that change the files

ASSUME ProfilesAssumption ==
  None \notin Names \cup Servers /\ MaxCommands \in Nat

VARIABLES
  config,     \* config.json
  creds,      \* the issuer of the credential stored under each name
  command,    \* the command in progress
  commands,   \* commands begun
  cut         \* history: the names whose files a command left half done

files    == <<config, creds>>
profiles == <<files, command, commands, cut>>

Configs == [servers : [Names -> Servers \cup {None}], current : Names \cup {None}]
Kinds   == {"pair", "switch", "logout"}

\* profileNamed finds the name in the config.
Named(cfg, n) == n \in Names /\ cfg.servers[n] # None

\* loadConfig refuses a config whose current profile is not in it.
Loads(cfg) == cfg.current # None => Named(cfg, cfg.current)

\* loadConfig of a directory that has no config.json.
EmptyConfig == [servers |-> [n \in Names |-> None], current |-> None]

NoCommand ==
  [kind |-> "none", name |-> None, server |-> None, at |-> "idle", config |-> EmptyConfig]

\* A directory no command has touched.
ProfilesInit ==
  /\ config = EmptyConfig
  /\ creds = EmptyConfig.servers
  /\ command = NoCommand
  /\ commands = 0
  /\ cut = {}

-----------------------------------------------------------------------------
\* #register: the first registered profile becomes the current one.
Registered(cfg, n, s) ==
  [servers |-> [cfg.servers EXCEPT ![n] = s],
   current |-> IF cfg.current = None THEN n ELSE cfg.current]

\* Mutants: logout keeps the selection, or moves it to another profile.
Removed_StaysSelected(cfg, n) == [cfg EXCEPT !.servers[n] = None]
\* logout
Removed(cfg, n) ==
  [servers |-> [cfg.servers EXCEPT ![n] = None],
   current |-> IF cfg.current = n THEN None ELSE cfg.current]

\* The profile a command is about; logout without a name is about the current one.
Selected == IF command.name = None THEN config.current ELSE command.name

Begin(kind, n, s) ==
  /\ command.at = "idle" /\ commands < MaxCommands
  /\ (kind = "pair") = (s # None) /\ (n = None => kind = "logout")
  /\ command' = [kind |-> kind, name |-> n, server |-> s, at |-> "load", config |-> EmptyConfig]
  /\ commands' = commands + 1
  /\ UNCHANGED <<files, cut>>

Goes(at, n, cfg) == command' = [command EXCEPT !.at = at, !.name = n, !.config = cfg]
Ends == command' = NoCommand

\* loadConfig; switch and logout refuse a profile that is not there.
Load ==
  /\ command.at = "load"
  /\ IF command.kind = "pair" THEN Goes("authenticate", command.name, config)
     ELSE IF ~Named(config, Selected) THEN Ends
     ELSE IF command.kind = "switch"
     THEN Goes("saveConfig", Selected, [config EXCEPT !.current = command.name])
     ELSE Goes("clear", Selected, config)
  /\ UNCHANGED <<files, commands, cut>>

\* Mutant: the profile is registered before its token is tried.
Authenticate_RegistersFirst ==
  /\ command.at = "authenticate"
  /\ config' = Registered(command.config, command.name, command.server)
  /\ Goes("saveCredential", command.name, command.config)
  /\ UNCHANGED <<creds, commands, cut>>

\* The server exchanges or validates the token.
Authenticate ==
  /\ command.at = "authenticate"
  /\ Goes("saveCredential", command.name, command.config)
  /\ UNCHANGED <<files, commands, cut>>

\* AuthClient saves the credential.
SaveCredential ==
  /\ command.at = "saveCredential"
  /\ creds' = [creds EXCEPT ![command.name] = command.server]
  /\ Goes("saveConfig", command.name, Registered(command.config, command.name, command.server))
  /\ UNCHANGED <<config, commands, cut>>

\* AuthClient clears it.
Clear ==
  /\ command.at = "clear"
  /\ creds' = [creds EXCEPT ![command.name] = None]
  /\ Goes("saveConfig", command.name, Removed(command.config, command.name))
  /\ UNCHANGED <<config, commands, cut>>

SaveConfig ==
  /\ command.at = "saveConfig"
  /\ config' = command.config
  /\ cut' = IF command.kind = "switch" THEN cut ELSE cut \ {command.name}
  /\ Ends
  /\ UNCHANGED <<creds, commands>>

\* A read, a write or the server fails, or the process dies.
Stops ==
  /\ command.at # "idle"
  /\ cut' = IF command.at = "saveConfig" /\ command.kind # "switch"
            THEN cut \cup {command.name} ELSE cut
  /\ UNCHANGED <<files, commands>>
  /\ Ends

Work == Load \/ Authenticate \/ SaveCredential \/ Clear \/ SaveConfig

ProfilesNext ==
  \/ \E kind \in Kinds, n \in Names \cup {None}, s \in Servers \cup {None} : Begin(kind, n, s)
  \/ Work
  \/ Stops

ProfilesSpec == ProfilesInit /\ [][ProfilesNext]_profiles

-----------------------------------------------------------------------------
(* Properties *)

\* Every variable keeps to its type.
ProfilesTypeOK ==
  /\ config \in Configs
  /\ creds \in [Names -> Servers \cup {None}]
  /\ command \in [kind : Kinds \cup {"none"}, name : Names \cup {None},
                  server : Servers \cup {None}, config : Configs,
                  at : {"idle", "load", "authenticate", "saveCredential", "clear", "saveConfig"}]
  /\ commands \in Nat
  /\ cut \subseteq Names

\* The command stands between its two writes about n.
Halfway(n) == command.at = "saveConfig" /\ command.kind # "switch" /\ command.name = n

\* Whatever was cut before, config.json can be loaded, and each profile whose last
\* command was not cut halfway has the credential of its own server, or neither
\* (profileManager.ts:189-229, profile-storage.yml:24-31).
FilesAgree ==
  /\ Loads(config)
  /\ \A n \in Names \ cut : Halfway(n) \/ config.servers[n] = creds[n]

\* A command changes the files of its own profile only, and the selection only by
\* switching, by the first registration or by logging the current one out
\* (profileManager.test.ts:77, 109).
OwnFilesOnly ==
  [][/\ \A n \in Names \ {command.name} :
          config'.servers[n] = config.servers[n] /\ creds'[n] = creds[n]
     /\ config'.current # config.current =>
          \/ command.kind = "switch" /\ config'.current = command.name
          \/ command.kind = "pair"   /\ config.current = None
          \/ command.kind = "logout" /\ config'.current = None /\ config.current = command.name
    ]_profiles
=============================================================================
