---------------------------- MODULE SharedClientProofs ----------------------------
(* Theorems about Profiles and SharedClient, for every set of names, servers and calls. *)
EXTENDS SharedClient, TLAPS

-----------------------------------------------------------------------------
(* The files of the profiles *)

\* What a command has worked out and written so far, by where it stands.  Nobody else writes,
\* so the config it will save is still about the config it loaded.
CommandFits ==
  LET c == command IN
  /\ c.at # "idle" => /\ c.kind \in Kinds
                      /\ c.kind = "pair" <=> c.server # None
                      /\ c.name = None => c.kind = "logout" /\ c.at = "load"
  /\ c.at \in {"authenticate", "saveCredential"} => c.kind = "pair" /\ c.config = config
  /\ c.at = "clear" => c.kind = "logout" /\ c.config = config
  /\ c.at = "saveConfig" =>
       \/ /\ c.kind = "pair" /\ creds[c.name] = c.server
          /\ c.config = Registered(config, c.name, c.server)
       \/ /\ c.kind = "logout" /\ creds[c.name] = None
          /\ c.config = Removed(config, c.name)
       \/ /\ c.kind = "switch" /\ Named(config, c.name)
          /\ c.config = [config EXCEPT !.current = c.name]

FilesInv == ProfilesTypeOK /\ CommandFits /\ FilesAgree

LEMMA EmptyType == ASSUME ProfilesAssumption PROVE EmptyConfig \in Configs /\ NoCommand.at = "idle"
BY DEF EmptyConfig, Configs, NoCommand

LEMMA NoCommandType ==
  ASSUME ProfilesAssumption
  PROVE  NoCommand \in [kind : Kinds \cup {"none"}, name : Names \cup {None},
                        server : Servers \cup {None}, config : Configs,
                        at : {"idle", "load", "authenticate", "saveCredential", "clear", "saveConfig"}]
BY EmptyType DEF NoCommand

LEMMA FilesInit == ASSUME ProfilesAssumption PROVE ProfilesInit => FilesInv
<1> SUFFICES ASSUME ProfilesInit PROVE FilesInv
  OBVIOUS
<1>1. command.at = "idle"
  BY EmptyType DEF ProfilesInit
<1>2. ProfilesTypeOK
  BY EmptyType, NoCommandType DEF ProfilesInit, ProfilesTypeOK, EmptyConfig, Configs
<1>3. CommandFits
  BY <1>1 DEF CommandFits
<1>4. FilesAgree
  BY <1>1 DEF ProfilesInit, FilesAgree, Loads, EmptyConfig, Halfway
<1>5. QED
  BY <1>2, <1>3, <1>4 DEF FilesInv

\* The configs a command may save can be loaded again.
LEMMA ConfigTypes ==
  ASSUME NEW cfg \in Configs, NEW n \in Names, ProfilesAssumption
  PROVE  /\ Removed(cfg, n) \in Configs
         /\ Loads(cfg) => Loads(Removed(cfg, n))
         /\ \A s \in Servers : /\ Registered(cfg, n, s) \in Configs
                               /\ Loads(cfg) => Loads(Registered(cfg, n, s))
BY DEF Configs, Removed, Registered, Loads, Named, ProfilesAssumption

\* A step that only moves the command keeps the files as they were.
LEMMA FilesStep == ASSUME ProfilesAssumption PROVE FilesInv /\ [ProfilesNext]_profiles => FilesInv'
<1> SUFFICES ASSUME FilesInv, [ProfilesNext]_profiles PROVE FilesInv'
  OBVIOUS
<1> USE NoCommandType, EmptyType DEF FilesInv, files
<1>1. ASSUME NEW kind \in Kinds, NEW n \in Names \cup {None}, NEW s \in Servers \cup {None},
             Begin(kind, n, s)
      PROVE  FilesInv'
  <2>1. ProfilesTypeOK'
    BY <1>1 DEF Begin, ProfilesTypeOK
  <2>2. CommandFits'
    BY <1>1 DEF Begin, CommandFits
  <2>3. FilesAgree'
    BY <1>1 DEF Begin, FilesAgree, Halfway
  <2>4. QED
    BY <2>1, <2>2, <2>3
<1>2. CASE Load
  <2>1. CASE command.kind = "pair"
    <3>1. command' = [command EXCEPT !.at = "authenticate", !.name = command.name, !.config = config]
      BY <1>2, <2>1 DEF Load, Goes
    <3>2. QED
      BY <1>2, <2>1, <3>1 DEF Load, ProfilesTypeOK, CommandFits, FilesAgree, Halfway
  <2>2. CASE command.kind # "pair" /\ ~Named(config, Selected)
    BY <1>2, <2>2 DEF Load, Ends, ProfilesTypeOK, CommandFits, FilesAgree, Halfway
  <2>3. CASE command.kind = "switch" /\ Named(config, Selected)
    <3>1. command.name \in Names /\ Selected = command.name /\ command.at = "load"
      BY <1>2, <2>3 DEF Load, CommandFits, Selected, ProfilesTypeOK
    <3>2. [config EXCEPT !.current = command.name] \in Configs
      BY <3>1 DEF ProfilesTypeOK, Configs
    <3>3. command' = [command EXCEPT !.at = "saveConfig", !.name = command.name,
                                     !.config = [config EXCEPT !.current = command.name]]
      BY <1>2, <2>3, <3>1 DEF Load, Goes
    <3>4. QED
      BY <1>2, <2>3, <3>1, <3>2, <3>3
      DEF Load, ProfilesTypeOK, CommandFits, FilesAgree, Halfway
  <2>4. CASE command.kind \notin {"pair", "switch"} /\ Named(config, Selected)
    <3>1. command' = [command EXCEPT !.at = "clear", !.name = Selected, !.config = config]
      BY <1>2, <2>4 DEF Load, Goes
    <3>2. Selected \in Names /\ command.kind = "logout"
      BY <1>2, <2>4 DEF Load, Named, CommandFits, Kinds
    <3>3. QED
      BY <1>2, <2>4, <3>1, <3>2
      DEF Load, ProfilesTypeOK, CommandFits, FilesAgree, Halfway, ProfilesAssumption
  <2>5. QED
    BY <2>1, <2>2, <2>3, <2>4
<1>3. CASE Authenticate
  <2>1. command' = [command EXCEPT !.at = "saveCredential", !.name = command.name,
                                   !.config = command.config]
    BY <1>3 DEF Authenticate, Goes
  <2>2. QED
    BY <1>3, <2>1 DEF Authenticate, ProfilesTypeOK, CommandFits, FilesAgree, Halfway
<1>4. CASE SaveCredential
  <2>1. /\ command.at = "saveCredential" /\ command.kind = "pair" /\ command.config = config
        /\ command.name \in Names /\ command.server \in Servers
    BY <1>4 DEF SaveCredential, CommandFits, ProfilesTypeOK
  <2>2. command' = [command EXCEPT !.at = "saveConfig", !.name = command.name,
                                   !.config = Registered(config, command.name, command.server)]
    BY <1>4, <2>1 DEF SaveCredential, Goes
  <2>3. Registered(config, command.name, command.server) \in Configs
    BY <2>1, ConfigTypes DEF ProfilesTypeOK
  <2>4. creds' = [creds EXCEPT ![command.name] = command.server] /\ config' = config /\ cut' = cut
    BY <1>4 DEF SaveCredential
  <2>5. QED
    BY <1>4, <2>1, <2>2, <2>3, <2>4
    DEF SaveCredential, ProfilesTypeOK, CommandFits, FilesAgree, Halfway
<1>5. CASE Clear
  <2>1. /\ command.at = "clear" /\ command.kind = "logout" /\ command.config = config
        /\ command.name \in Names
    BY <1>5 DEF Clear, CommandFits, ProfilesTypeOK
  <2>2. command' = [command EXCEPT !.at = "saveConfig", !.name = command.name,
                                   !.config = Removed(config, command.name)]
    BY <1>5, <2>1 DEF Clear, Goes
  <2>3. creds' = [creds EXCEPT ![command.name] = None] /\ config' = config /\ cut' = cut
    BY <1>5 DEF Clear
  <2>4. Removed(config, command.name) \in Configs
    BY <2>1, ConfigTypes DEF ProfilesTypeOK
  <2>5. QED
    BY <1>5, <2>1, <2>2, <2>3, <2>4
    DEF Clear, ProfilesTypeOK, CommandFits, FilesAgree, Halfway
<1>6. CASE SaveConfig
  <2>1. /\ command.at = "saveConfig" /\ command.name \in Names /\ config' = command.config
        /\ creds' = creds /\ command' = NoCommand /\ commands' = commands
    BY <1>6 DEF SaveConfig, Ends, CommandFits, ProfilesTypeOK
  <2>2. cut' = IF command.kind = "switch" THEN cut ELSE cut \ {command.name}
    BY <1>6 DEF SaveConfig
  <2>3. ProfilesTypeOK' /\ CommandFits'
    BY <2>1, <2>2 DEF ProfilesTypeOK, CommandFits
  <2>4. CASE command.kind = "pair"
    <3>1. /\ command.server \in Servers /\ creds[command.name] = command.server
          /\ config' = Registered(config, command.name, command.server)
      BY <2>1, <2>4 DEF CommandFits, ProfilesTypeOK
    <3>2. Loads(config')
      BY <2>1, <3>1, ConfigTypes DEF FilesAgree, ProfilesTypeOK
    <3>3. \A n \in Names : config'.servers[n] = IF n = command.name THEN creds[n] ELSE config.servers[n]
      BY <2>1, <3>1 DEF Registered, ProfilesTypeOK, Configs
    <3>4. QED
      BY <2>1, <2>2, <2>3, <2>4, <3>2, <3>3 DEF FilesAgree, Halfway
  <2>5. CASE command.kind = "logout"
    <3>1. creds[command.name] = None /\ config' = Removed(config, command.name)
      BY <2>1, <2>5 DEF CommandFits
    <3>2. Loads(config')
      BY <2>1, <3>1, ConfigTypes DEF FilesAgree, ProfilesTypeOK
    <3>3. \A n \in Names : config'.servers[n] = IF n = command.name THEN creds[n] ELSE config.servers[n]
      BY <2>1, <3>1 DEF Removed, ProfilesTypeOK, Configs
    <3>4. QED
      BY <2>1, <2>2, <2>3, <2>5, <3>2, <3>3 DEF FilesAgree, Halfway
  <2>6. CASE command.kind = "switch"
    <3>1. Named(config, command.name) /\ config' = [config EXCEPT !.current = command.name]
      BY <2>1, <2>6 DEF CommandFits
    <3>2. config'.servers = config.servers /\ config'.current = command.name
      BY <3>1 DEF ProfilesTypeOK, Configs
    <3>3. QED
      BY <2>1, <2>2, <2>3, <2>6, <3>1, <3>2 DEF FilesAgree, Halfway, Loads, Named
  <2>7. QED
    BY <2>1, <2>4, <2>5, <2>6 DEF CommandFits
<1>7. CASE Stops
  <2>1. /\ command' = NoCommand /\ config' = config /\ creds' = creds /\ commands' = commands
        /\ cut' = IF command.at = "saveConfig" /\ command.kind # "switch"
                  THEN cut \cup {command.name} ELSE cut
    BY <1>7 DEF Stops, Ends
  <2>2. command.at = "saveConfig" => command.name \in Names
    BY DEF CommandFits, ProfilesTypeOK
  <2>3. QED
    BY <2>1, <2>2 DEF ProfilesTypeOK, CommandFits, FilesAgree, Halfway
<1>8. CASE UNCHANGED profiles
  BY <1>8 DEF profiles, ProfilesTypeOK, CommandFits, FilesAgree, Halfway
<1>9. QED
  BY <1>1, <1>2, <1>3, <1>4, <1>5, <1>6, <1>7, <1>8 DEF ProfilesNext, Work

\* Each step of the MCP connection is a step of the files or leaves them alone.
LEMMA StepOfFiles == Next => [ProfilesNext]_profiles
BY DEF Next, Files, Host, Initialize, Get, Abort, Close, ReadConfig, Create, Discard, CloseClient,
       Breaks, Fails

\* What a step may do to the files of other profiles and to the selection.
OwnFiles ==
  /\ \A n \in Names \ {command.name} :
        config'.servers[n] = config.servers[n] /\ creds'[n] = creds[n]
  /\ config'.current # config.current =>
        \/ command.kind = "switch" /\ config'.current = command.name
        \/ command.kind = "pair"   /\ config.current = None
        \/ command.kind = "logout" /\ config'.current = None /\ config.current = command.name

LEMMA StepOwnsFiles == ASSUME ProfilesAssumption, FilesInv, ProfilesNext PROVE OwnFiles
<1> USE DEF FilesInv, files
<1>1. CASE files' = files
  BY <1>1 DEF OwnFiles
<1>2. CASE SaveCredential \/ Clear
  <2>1. config' = config /\ \A n \in Names \ {command.name} : creds'[n] = creds[n]
    BY <1>2 DEF SaveCredential, Clear, ProfilesTypeOK
  <2>2. QED
    BY <2>1 DEF OwnFiles
<1>3. CASE SaveConfig
  <2>1. /\ command.at = "saveConfig" /\ command.name \in Names
        /\ config' = command.config /\ creds' = creds
    BY <1>3 DEF SaveConfig, CommandFits, ProfilesTypeOK
  <2>2. CASE command.kind = "pair"
    <3>1. config' = Registered(config, command.name, command.server)
      BY <2>1, <2>2 DEF CommandFits
    <3>2. \A n \in Names \ {command.name} : config'.servers[n] = config.servers[n]
      BY <2>1, <3>1 DEF Registered, ProfilesTypeOK, Configs
    <3>3. config'.current # config.current => config.current = None
      BY <3>1 DEF Registered
    <3>4. QED
      BY <2>1, <2>2, <3>2, <3>3 DEF OwnFiles
  <2>3. CASE command.kind = "logout"
    <3>1. config' = Removed(config, command.name)
      BY <2>1, <2>3 DEF CommandFits
    <3>2. \A n \in Names \ {command.name} : config'.servers[n] = config.servers[n]
      BY <2>1, <3>1 DEF Removed, ProfilesTypeOK, Configs
    <3>3. config'.current # config.current => config'.current = None /\ config.current = command.name
      BY <3>1 DEF Removed
    <3>4. QED
      BY <2>1, <2>3, <3>2, <3>3 DEF OwnFiles
  <2>4. CASE command.kind = "switch"
    <3>1. config' = [config EXCEPT !.current = command.name]
      BY <2>1, <2>4 DEF CommandFits
    <3>2. config'.servers = config.servers /\ config'.current = command.name
      BY <3>1 DEF ProfilesTypeOK, Configs
    <3>3. QED
      BY <2>1, <2>4, <3>2 DEF OwnFiles
  <2>5. QED
    BY <2>1, <2>2, <2>3, <2>4 DEF CommandFits
<1>4. QED
  BY <1>1, <1>2, <1>3 DEF ProfilesNext, Begin, Work, Load, Authenticate, Stops

LEMMA FilesAlways == ASSUME ProfilesAssumption PROVE Spec => []FilesInv
<1>1. Init => FilesInv
  BY FilesInit DEF Init
<1>2. FilesInv /\ [Next]_vars => FilesInv'
  BY FilesStep, StepOfFiles DEF vars
<1>3. QED
  BY <1>1, <1>2, PTL DEF Spec

\* Whatever commands were cut, the config can be loaded, and every profile that was not cut
\* halfway has the credential of its own server or neither (profileManager.ts:189-229).
THEOREM FilesAgreeCorrect == Spec => []FilesAgree
<1>1. FilesInv => FilesAgree
  BY DEF FilesInv
<1>2. QED
  BY <1>1, FilesAlways, ProfilesAssumption, PTL

\* A command changes the files of its own profile only, and the selection only for the three
\* reasons the profile tests name.
THEOREM OwnFilesOnlyCorrect == Spec => OwnFilesOnly
<1>1. FilesInv /\ [Next]_vars => [OwnFiles]_profiles
  BY StepOwnsFiles, StepOfFiles, ProfilesAssumption DEF vars
<1>2. QED
  BY <1>1, FilesAlways, ProfilesAssumption, PTL DEF Spec, OwnFilesOnly, OwnFiles

-----------------------------------------------------------------------------
(* The client of an MCP connection *)

\* How many clients an attempt has made.  Nothing starts an attempt once the connection is
\* closed, so the one that is being discarded is the first and the last.
AttemptFits ==
  /\ attempt \in {"ready", "discarding"} => clients.made = 1
  /\ attempt \in {"reading", "creating"} \/ (attempt = "none" /\ ~Closed) => clients.made = 0
  /\ attempt = "discarding" => Closed

SharedInv ==
  /\ attempt \in {"none", "ready"} \cup InFlight
  /\ closing \in {"no", "waiting", "done"}
  /\ clients \in [made : Nat, closed : Nat]
  /\ AttemptFits
  /\ OneClient

LEMMA SharedInit == Init => SharedInv
BY DEF Init, SharedInv, AttemptFits, OneClient, InFlight, Closed

LEMMA SharedStep == SharedInv /\ [Next]_vars => SharedInv'
<1> SUFFICES ASSUME SharedInv, [Next]_vars PROVE SharedInv'
  OBVIOUS
<1> USE DEF SharedInv, AttemptFits, OneClient, InFlight, Closed
<1>1. ASSUME NEW c \in Calls, Get(c) PROVE SharedInv'
  BY <1>1 DEF Get, NextAttempt
<1>2. ASSUME NEW c \in Calls, Abort(c) PROVE SharedInv'
  BY <1>2 DEF Abort
<1>3. CASE ReadConfig
  BY <1>3 DEF ReadConfig, Fails, Forgets
<1>4. CASE Breaks
  BY <1>4 DEF Breaks, Fails, Forgets
<1>5. CASE Create
  BY <1>5 DEF Create
<1>6. CASE Discard
  BY <1>6 DEF Discard, Fails, Forgets
<1>7. CASE Close
  BY <1>7 DEF Close
<1>8. CASE CloseClient
  BY <1>8 DEF CloseClient
<1>9. CASE Files \/ UNCHANGED vars
  BY <1>9 DEF Files, vars, shared
<1>10. QED
  BY <1>1, <1>2, <1>3, <1>4, <1>5, <1>6, <1>7, <1>8, <1>9 DEF Next, Host, Initialize

\* However calls, signals, failed attempts and the closing interleave, the connection makes at
\* most one client at a time, and closes it once (clients.ts:29, 82-97).
THEOREM OneClientCorrect == Spec => []OneClient
<1>1. SharedInv => OneClient
  BY DEF SharedInv
<1>2. QED
  BY <1>1, SharedInit, SharedStep, PTL DEF Spec

CallsType ==
  /\ selection \in [by : {"current", "server", "profile"}, name : Names \cup {None}]
  /\ calls \in [Calls -> {"idle", "waiting", "served", "failed"}]
  /\ fair \subseteq Calls

LEMMA CallsStep == CallsType /\ [Next]_vars => CallsType'
<1> SUFFICES ASSUME CallsType, [Next]_vars PROVE CallsType'
  OBVIOUS
<1> USE DEF CallsType
<1>1. ASSUME NEW c \in Calls, Get(c) PROVE CallsType'
  <2>1. Waits \in {"idle", "waiting", "served", "failed"}
    BY DEF Waits
  <2>2. QED
    BY <1>1, <2>1 DEF Get
<1>2. ASSUME NEW c \in Calls, Abort(c) PROVE CallsType'
  BY <1>2 DEF Abort
<1>3. CASE ReadConfig \/ Breaks \/ Discard
  BY <1>3 DEF ReadConfig, Breaks, Discard, Fails, Settle
<1>4. CASE Create
  BY <1>4 DEF Create, Settle
<1>5. CASE Close \/ CloseClient \/ Files \/ UNCHANGED vars
  BY <1>5 DEF Close, CloseClient, Files, vars, shared
<1>6. QED
  BY <1>1, <1>2, <1>3, <1>4, <1>5 DEF Next, Host, Initialize

\* Every variable of the files and of the connection keeps to its type.
THEOREM TypeCorrect == Spec => []TypeOK
<1>1. Init => CallsType
  BY ProfilesAssumption DEF Init, CallsType
<1>2. FilesInv /\ SharedInv /\ CallsType => TypeOK
  BY DEF FilesInv, SharedInv, CallsType, TypeOK
<1>3. QED
  BY <1>1, <1>2, CallsStep, FilesAlways, SharedInit, SharedStep, ProfilesAssumption, PTL DEF Spec
-----------------------------------------------------------------------------
(* Why a call fails *)

\* A call that could have been served all along finds the selected profile still, and the
\* attempt it waits for is one that may yet be ready.
FreshInv ==
  /\ CallsType /\ SharedInv
  /\ fair # {} => Resolvable(config)
  /\ FailureIsFresh

LEMMA FreshStep == FreshInv /\ [Next]_vars => FreshInv'
<1> SUFFICES ASSUME FreshInv, [Next]_vars PROVE FreshInv'
  OBVIOUS
<1>0. CallsType' /\ SharedInv'
  BY CallsStep, SharedStep DEF FreshInv
<1> DEFINE Finds == (fair # {} => Resolvable(config)) /\ FailureIsFresh
<1> SUFFICES Finds'
  BY <1>0 DEF FreshInv
<1> USE DEF FreshInv, CallsType, FailureIsFresh, Closed, Resolvable, Named
\* A step that leaves the files, the selection and the connection's state alone.
<1>a. ASSUME UNCHANGED <<config, selection>>, fair' \subseteq fair, Closed => Closed',
             \A c \in fair' : calls'[c] = "failed" => calls[c] = "failed"
      PROVE  Finds'
  BY <1>a
<1>1. ASSUME NEW c \in Calls, Get(c) PROVE Finds'
  <2>1. UNCHANGED <<config, selection, closing>> /\ \A d \in Calls \ {c} : calls'[d] = calls[d]
    BY <1>1 DEF Get, profiles, files
  <2>2. CASE c \in fair'
    <3>1. ~Closed /\ attempt \notin InFlight \cup {"ready"} /\ Resolvable(config)
      BY <1>1, <2>2 DEF Get
    <3>2. attempt = "none"
      BY <3>1 DEF SharedInv
    <3>3. calls'[c] = "waiting"
      BY <1>1, <3>1, <3>2 DEF Get, Waits, NextAttempt
    <3>4. fair' \subseteq fair \cup {c}
      BY <1>1 DEF Get
    <3>5. QED
      BY <2>1, <3>1, <3>3, <3>4
  <2>3. CASE c \notin fair'
    <3>1. fair' \subseteq fair \ {c}
      BY <1>1, <2>3 DEF Get
    <3>2. QED
      BY <2>1, <3>1, <1>a
  <2>4. QED
    BY <2>2, <2>3
<1>2. ASSUME NEW c \in Calls, Abort(c) PROVE Finds'
  BY <1>2, <1>a DEF Abort, profiles, files
<1>3. CASE ReadConfig
  <2>1. CASE Resolvable(config)
    <3>1. UNCHANGED <<config, selection, closing, calls, fair>>
      BY <1>3, <2>1 DEF ReadConfig, profiles, files
    <3>2. QED
      BY <3>1, <1>a
  <2>2. CASE ~Resolvable(config)
    BY <1>3, <2>2 DEF ReadConfig
  <2>3. QED
    BY <2>1, <2>2
<1>4. CASE Breaks \/ Create
  BY <1>4 DEF Breaks, Create
\* Only an attempt of a closed connection is discarded.
<1>5. CASE Discard
  <2>1. Closed /\ UNCHANGED <<config, selection, closing, fair>>
    BY <1>5 DEF Discard, Fails, SharedInv, AttemptFits, profiles, files
  <2>2. QED
    BY <2>1
<1>6. CASE Close \/ CloseClient
  <2>1. UNCHANGED <<config, selection, calls, fair>> /\ Closed'
    BY <1>6 DEF Close, CloseClient, profiles, files
  <2>2. QED
    BY <2>1
<1>7. CASE Files
  BY <1>7 DEF Files
<1>8. CASE UNCHANGED vars
  BY <1>8, <1>a DEF vars, shared, profiles, files
<1>9. QED
  BY <1>1, <1>2, <1>3, <1>4, <1>5, <1>6, <1>7, <1>8 DEF Next, Host, Initialize

\* A call that began with no attempt in flight, and found the selected profile from then on,
\* fails only with the connection: never for an attempt of somebody else before it
\* (clients.ts:63-65).
THEOREM FailureIsFreshCorrect == Spec => []FailureIsFresh
<1>1. Init => CallsType /\ fair = {}
  BY ProfilesAssumption DEF Init, CallsType
<1>2. Init => FreshInv
  BY <1>1, SharedInit DEF FreshInv, FailureIsFresh
<1>3. FreshInv => FailureIsFresh
  BY DEF FreshInv
<1>4. QED
  BY <1>2, <1>3, FreshStep, PTL DEF Spec
=============================================================================
