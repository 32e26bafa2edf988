----------------------------- MODULE ServerProofs ----------------------------
(***************************************************************************)
(* Proofs about the server, for every set of worlds and every number of      *)
(* create_image calls: its four safety invariants.  The inductive invariant   *)
(* Inv says where the start is, what the policy let through, what the guards  *)
(* admitted, what QEMU was launched with in terms of the options of this      *)
(* start, and what became of the files; that its parts imply the properties   *)
(* - which are about the environment, not the Config - is what the lemmas on  *)
(* the parsers, on the names of the stores and on the argument vector are for. *)
(***************************************************************************)
EXTENDS Server, FiniteSetTheorems, WellFoundedInduction, TLAPS

-----------------------------------------------------------------------------
(* The Command Policy.                                                      *)

\* A command of the hard denylist is refused whatever the policy says and however
\* the name is spelled; no override can lift it (decide_command).
THEOREM HardDenialIsFinal ==
  ASSUME NEW rules, NEW raw, NormalizeCommandName(raw) \in HardDenylist
  PROVE  DecideCommand(rules, raw) = Denied(NormalizeCommandName(raw), TRUE)
<1> DEFINE name == NormalizeCommandName(raw)
<1>1. IsHardDenied(name) BY DEF IsHardDenied
<1> QED BY <1>1 DEF DecideCommand

\* The deny lists of the environment and of the policy file beat both allow lists
\* and the default allowlist, in whatever spelling the operator or the caller
\* wrote the name (resolve_policy and decide_command together).
THEOREM DenyBeatsAllow ==
  ASSUME NEW allow, NEW deny, NEW file, NEW entry, NEW raw,
         entry \in deny \cup LoadPolicyFile(file).deny,
         NormalizeCommandName(entry) = NormalizeCommandName(raw),
         NormalizeCommandName(raw) # ""
  PROVE  ~DecideCommand(ResolvePolicy(allow, deny, file), raw).allowed
<1> DEFINE name == NormalizeCommandName(raw)
           rules == ResolvePolicy(allow, deny, file)
<1>1. name \in rules.deny
  <2>1. rules.deny = Names(deny \cup LoadPolicyFile(file).deny)
    BY DEF ResolvePolicy, BuildPolicy, PolicyOverrides
  <2> QED BY <2>1 DEF Names
<1> HIDE DEF rules
<1>2. CASE IsHardDenied(name)
  <2>1. DecideCommand(rules, raw).allowed = FALSE BY <1>2 DEF DecideCommand, Denied
  <2> QED BY <2>1 DEF rules
<1>3. CASE ~IsHardDenied(name)
  <2>1. DecideCommand(rules, raw).allowed = FALSE
    BY <1>1, <1>3 DEF DecideCommand, Denied
  <2> QED BY <2>1 DEF rules
<1> QED BY <1>2, <1>3

-----------------------------------------------------------------------------
(* The Config, field by field.                                              *)

\* A Config has every field through its parser.
LEMMA LoadedConfig ==
    ASSUME NEW env, NEW c \in LoadConfig(env), NEW k \in DOMAIN Fields(env)
    PROVE  c[k] \in Fields(env)[k]
BY DEF LoadConfig

\* Whom the Config lets in.
LEMMA LoadedAccess ==
    ASSUME NEW env, NEW c \in LoadConfig(env)
    PROVE  /\ c.transport \in ParseEnum(Get(env, "QMP_MCP_TRANSPORT"), TransportMode, "stdio")
           /\ c.authMode \in ParseEnum(Get(env, "QMP_MCP_AUTH"), AuthMode, "apikey")
           /\ c.apiKeys \in {ParseList(Get(env, "QMP_MCP_API_KEYS"))}
           /\ c.jwtSecret \in {PresentNonBlank(Get(env, "QMP_MCP_JWT_SECRET"))}
           /\ c.viewerPassword \in {PresentNonBlank(Get(env, "QMP_MCP_VIEWER_PASSWORD"))}
           /\ c.allowedOrigins \in {AllowedOrigins(env, p) :
                                       p \in ParsePort(Get(env, "QMP_MCP_HTTP_PORT"), 8080)}
<1> DEFINE f == Fields(env)
<1>1. {"transport", "authMode", "apiKeys", "jwtSecret", "viewerPassword", "allowedOrigins"}
      \subseteq DOMAIN f
  BY DEF Fields
<1>2. /\ f.transport = ParseEnum(Get(env, "QMP_MCP_TRANSPORT"), TransportMode, "stdio")
      /\ f.authMode = ParseEnum(Get(env, "QMP_MCP_AUTH"), AuthMode, "apikey")
      /\ f.apiKeys = {ParseList(Get(env, "QMP_MCP_API_KEYS"))}
      /\ f.jwtSecret = {PresentNonBlank(Get(env, "QMP_MCP_JWT_SECRET"))}
      /\ f.viewerPassword = {PresentNonBlank(Get(env, "QMP_MCP_VIEWER_PASSWORD"))}
      /\ f.allowedOrigins = {AllowedOrigins(env, p) :
                                p \in ParsePort(Get(env, "QMP_MCP_HTTP_PORT"), 8080)}
  BY DEF Fields
<1> HIDE DEF f
<1>3. /\ c.transport \in f.transport /\ c.authMode \in f.authMode /\ c.apiKeys \in f.apiKeys
      /\ c.jwtSecret \in f.jwtSecret /\ c.viewerPassword \in f.viewerPassword
      /\ c.allowedOrigins \in f.allowedOrigins
  BY <1>1, LoadedConfig DEF f
<1> QED BY <1>2, <1>3

\* What the Config opens.
LEMMA LoadedFlags ==
    ASSUME NEW env, NEW c \in LoadConfig(env)
    PROVE  /\ c.allowInsecure \in ParseBoolean(Get(env, "QMP_MCP_ALLOW_INSECURE"), FALSE)
           /\ c.allowDownload \in ParseBoolean(Get(env, "QMP_MCP_ALLOW_DOWNLOAD"), FALSE)
           /\ c.allowHostNet \in ParseBoolean(Get(env, "QMP_MCP_ALLOW_HOST_NET"), FALSE)
           /\ c.allowShareWrite \in ParseBoolean(Get(env, "QMP_MCP_ALLOW_SHARE_WRITE"), FALSE)
           /\ c.allowRawArgs \in ParseBoolean(Get(env, "QMP_MCP_ALLOW_RAW_ARGS"), FALSE)
<1> DEFINE f == Fields(env)
<1>1. {"allowInsecure", "allowDownload", "allowHostNet", "allowShareWrite", "allowRawArgs"}
      \subseteq DOMAIN f
  BY DEF Fields
<1>2. /\ f.allowInsecure = ParseBoolean(Get(env, "QMP_MCP_ALLOW_INSECURE"), FALSE)
      /\ f.allowDownload = ParseBoolean(Get(env, "QMP_MCP_ALLOW_DOWNLOAD"), FALSE)
      /\ f.allowHostNet = ParseBoolean(Get(env, "QMP_MCP_ALLOW_HOST_NET"), FALSE)
      /\ f.allowShareWrite = ParseBoolean(Get(env, "QMP_MCP_ALLOW_SHARE_WRITE"), FALSE)
      /\ f.allowRawArgs = ParseBoolean(Get(env, "QMP_MCP_ALLOW_RAW_ARGS"), FALSE)
  BY DEF Fields
<1> HIDE DEF f
<1>3. /\ c.allowInsecure \in f.allowInsecure /\ c.allowDownload \in f.allowDownload
      /\ c.allowHostNet \in f.allowHostNet /\ c.allowShareWrite \in f.allowShareWrite
      /\ c.allowRawArgs \in f.allowRawArgs
  BY <1>1, LoadedConfig DEF f
<1> QED BY <1>2, <1>3

\* The limits of the Config.
LEMMA LoadedLimits ==
    ASSUME NEW env, NEW c \in LoadConfig(env)
    PROVE  /\ c.maxDiskGb \in ParsePositiveInt(Get(env, "QMP_MCP_MAX_DISK_GB"), 64)
           /\ c.maxMemoryMb \in ParsePositiveInt(Get(env, "QMP_MCP_MAX_MEMORY_MB"), 4096)
           /\ c.maxVcpus \in ParsePositiveInt(Get(env, "QMP_MCP_MAX_VCPUS"), 2)
           /\ c.hostfwdPortRange \in ParsePortRange(Get(env, "QMP_MCP_HOSTFWD_PORT_RANGE"),
                                                    DefaultHostfwdPortRange)
<1> DEFINE f == Fields(env)
<1>1. {"maxDiskGb", "maxMemoryMb", "maxVcpus", "hostfwdPortRange"} \subseteq DOMAIN f
  BY DEF Fields
<1>2. /\ f.maxDiskGb = ParsePositiveInt(Get(env, "QMP_MCP_MAX_DISK_GB"), 64)
      /\ f.maxMemoryMb = ParsePositiveInt(Get(env, "QMP_MCP_MAX_MEMORY_MB"), 4096)
      /\ f.maxVcpus = ParsePositiveInt(Get(env, "QMP_MCP_MAX_VCPUS"), 2)
      /\ f.hostfwdPortRange = ParsePortRange(Get(env, "QMP_MCP_HOSTFWD_PORT_RANGE"),
                                             DefaultHostfwdPortRange)
  BY DEF Fields
<1> HIDE DEF f
<1>3. /\ c.maxDiskGb \in f.maxDiskGb /\ c.maxMemoryMb \in f.maxMemoryMb
      /\ c.maxVcpus \in f.maxVcpus /\ c.hostfwdPortRange \in f.hostfwdPortRange
  BY <1>1, LoadedConfig DEF f
<1> QED BY <1>2, <1>3

\* The places of the Config.
LEMMA LoadedPlaces ==
    ASSUME NEW env, NEW c \in LoadConfig(env)
    PROVE  /\ c.imageDir \in {ResolveImageDir(env)}
           /\ c.isoDir \in {ResolveIsoDir(env)}
           /\ c.hostShareDir \in ResolveHostShareDir(env)
           /\ c.serialBackend
                \in ParseEnum(Get(env, "QMP_MCP_SERIAL_BACKEND"), SerialBackend, "ringbuf")
<1> DEFINE f == Fields(env)
<1>1. {"imageDir", "isoDir", "hostShareDir", "serialBackend"} \subseteq DOMAIN f
  BY DEF Fields
<1>2. /\ f.imageDir = {ResolveImageDir(env)}
      /\ f.isoDir = {ResolveIsoDir(env)}
      /\ f.hostShareDir = ResolveHostShareDir(env)
      /\ f.serialBackend = ParseEnum(Get(env, "QMP_MCP_SERIAL_BACKEND"), SerialBackend, "ringbuf")
  BY DEF Fields
<1> HIDE DEF f
<1>3. /\ c.imageDir \in f.imageDir /\ c.isoDir \in f.isoDir
      /\ c.hostShareDir \in f.hostShareDir /\ c.serialBackend \in f.serialBackend
  BY <1>1, LoadedConfig DEF f
<1> QED BY <1>2, <1>3

\* What a parser returns is what the operator said.
LEMMA BooleanSaid ==
    ASSUME NEW raw, NEW b \in ParseBoolean(raw, FALSE)
    PROVE  b \in BOOLEAN /\ (b => raw.v = "true")
<1>1. CASE IsNothing(raw) BY <1>1 DEF ParseBoolean
<1>2. CASE ~IsNothing(raw) /\ raw.v = "true" BY <1>2 DEF ParseBoolean
<1>3. CASE ~IsNothing(raw) /\ raw.v = "false" BY <1>3 DEF ParseBoolean
<1>4. CASE ~IsNothing(raw) /\ raw.v # "true" /\ raw.v # "false" BY <1>4 DEF ParseBoolean
<1> QED BY <1>1, <1>2, <1>3, <1>4

LEMMA NumberSaid ==
    ASSUME NEW raw, NEW default, NEW range, NEW n \in ParseNumber(raw, default, range)
    PROVE  n = IF IsBlank(raw) THEN default ELSE raw.n
BY DEF ParseNumber

LEMMA EnumSaid ==
    ASSUME NEW raw, NEW values, NEW default, NEW v \in ParseEnum(raw, values, default)
    PROVE  (v = default /\ raw.v = "") \/ (v \in values /\ raw.v = v)
BY DEF ParseEnum, IsNothing

-----------------------------------------------------------------------------
(* The start.                                                               *)

\* Nothing is done yet.
Pristine ==
    /\ ~bound /\ served = {} /\ instance = {} /\ sent = "" /\ listed = {} /\ fetching = {}
    /\ sizes = <<>> /\ creating = [c \in Creator |-> Idle]

\* What is there at each stage of the start: the Config is the one of this
\* environment, the policy the one of its lists, and nothing is done without.
Started ==
    /\ world \in Worlds
    /\ config \subseteq LoadConfig(world.env)
    /\ policy \subseteq {ResolvePolicy(world.allow, world.deny, world.policyFile)}
    /\ phase = "config" => config = {}
    /\ phase \in {"logging", "policy", "catalog", "serving"} => config # {}
    /\ phase \in {"catalog", "serving"} => policy # {}
    /\ config = {} => Pristine
    /\ bound => ExposesHttp(Cfg.transport)

\* The Config is one that the environment loads to.
LEMMA CfgIsLoaded ==
    ASSUME Started, config # {}
    PROVE  Cfg \in LoadConfig(world.env)
BY DEF Started, Cfg

LEMMA StartedInit == Init => Started
BY DEF Init, Started, Pristine

\* The Config is the same from when there is one.
LEMMA CfgStays ==
    ASSUME Started, [Next]_vars, config # {}
    PROVE  config' = config /\ Cfg' = Cfg /\ world' = world
<1>1. config' = config /\ world' = world
  <2>1. CASE ReadConfig BY <2>1 DEF ReadConfig, Started
  <2>2. CASE ~ReadConfig
    BY <2>2
      DEF Next, vars, starting, store, answers, InitLogging, ResolveCommandPolicy,
          LoadIsoCatalog, Bind, Stop, HttpRequest, HttpRefused, Called, CreateInstance,
          DestroyInstance, ExecuteCommand, CreateImageRefused, CreateImage, QemuImgWrites,
          CreateImageEnds, CreateImageFails, ListImagesTool, ListIsosTool, ListFiles,
          DownloadIso
  <2> QED BY <2>1, <2>2
<1> QED BY <1>1 DEF Cfg

\* All the actions of the tools leave the start alone, and need a Config.
LEMMA ToolsNeedAConfig ==
    ASSUME Started, Called
    PROVE  /\ config # {} /\ policy # {} /\ phase = "serving"
           /\ served' = {} /\ UNCHANGED <<world, phase, config, policy, catalog, bound>>
           /\ (Cfg.transport = "http" => served # {})
BY DEF Started, Called, starting

LEMMA StartedNext ==
    ASSUME Started, [Next]_vars
    PROVE  Started'
<1> USE DEF Started
<1>1. CASE ReadConfig
  <2>1. config = {} /\ Pristine BY <1>1 DEF ReadConfig
  <2>2. config' = LoadConfig(world.env) /\ Pristine'
    BY <2>1, <1>1 DEF ReadConfig, Pristine, store, answers
  <2> QED BY <2>1, <2>2, <1>1 DEF ReadConfig, Onward, Pristine
<1>2. CASE InitLogging
  <2>1. config # {} BY <1>2 DEF InitLogging
  <2> QED BY <2>1, <1>2, CfgStays DEF InitLogging, Onward, starting, store, answers, Pristine
<1>3. CASE ResolveCommandPolicy
  <2>1. config # {} BY <1>3 DEF ResolveCommandPolicy
  <2> QED BY <2>1, <1>3, CfgStays DEF ResolveCommandPolicy, Onward, store, answers
<1>4. CASE LoadIsoCatalog
  <2>1. config # {} BY <1>4 DEF LoadIsoCatalog
  <2> QED BY <2>1, <1>4, CfgStays DEF LoadIsoCatalog, Onward, store, answers
<1>5. CASE Bind
  <2>1. config # {} BY <1>5 DEF Bind
  <2> QED BY <2>1, <1>5, CfgStays DEF Bind, Onward, starting, store, answers
<1>6. CASE Stop
  <2>1. config # {} BY <1>6 DEF Stop
  <2> QED BY <2>1, <1>6, CfgStays DEF Stop, starting, store, answers
<1>7. CASE config # {} /\ UNCHANGED <<world, phase, config, policy, catalog, bound>>
  BY <1>7, CfgStays
<1>8. CASE UNCHANGED vars BY <1>8, CfgStays DEF vars, starting, store, answers, Pristine, Cfg
<1>9. ASSUME NEW request, HttpRequest(request) \/ HttpRefused(request) PROVE Started'
  <2>1. config # {} BY <1>9 DEF HttpRequest, HttpRefused, Pristine
  <2> QED BY <2>1, <1>7, <1>9 DEF HttpRequest, HttpRefused, starting, vars
<1>10. ASSUME Called PROVE Started' BY <1>7, <1>10, ToolsNeedAConfig
<1>11. ASSUME NEW c \in Creator, QemuImgWrites(c) \/ CreateImageEnds(c) \/ CreateImageFails(c)
       PROVE  Started'
  <2>1. creating[c].at # "idle"
    BY <1>11 DEF QemuImgWrites, CreateImageEnds, CreateImageFails
  <2>2. Pristine => creating[c] = Idle BY DEF Pristine
  <2>3. Idle.at = "idle" BY DEF Idle
  <2>4. config # {} BY <2>1, <2>2, <2>3
  <2> QED BY <2>4, <1>7, <1>11 DEF QemuImgWrites, CreateImageEnds, CreateImageFails, starting
<1> QED BY <1>1, <1>2, <1>3, <1>4, <1>5, <1>6, <1>8, <1>9, <1>10, <1>11
    DEF Next, CreateInstance, DestroyInstance, ExecuteCommand, CreateImageRefused,
        CreateImage, ListImagesTool, ListIsosTool, ListFiles, DownloadIso

\* What has been sent is what the policy of this start allows.
SentIsAllowed ==
    LET rules == ResolvePolicy(world.allow, world.deny, world.policyFile) IN
    sent # "" => /\ sent \notin HardDenylist
                 /\ sent \notin rules.deny
                 /\ sent \in rules.allow

\* What is allowed is on no deny list, and on an allow list.
LEMMA AllowedIsListed ==
    ASSUME NEW rules, NEW raw, DecideCommand(rules, raw).allowed
    PROVE  LET name == DecideCommand(rules, raw).command IN
           name \notin HardDenylist /\ name \notin rules.deny /\ name \in rules.allow
BY DEF DecideCommand, Denied, Allowed, IsHardDenied

LEMMA SentNext ==
    ASSUME Started, SentIsAllowed, [Next]_vars
    PROVE  SentIsAllowed'
<1>1. CASE UNCHANGED <<world, sent>> BY <1>1 DEF SentIsAllowed
<1>2. ASSUME NEW command, ExecuteCommand(command) PROVE SentIsAllowed'
  <2> DEFINE rules == ResolvePolicy(world.allow, world.deny, world.policyFile)
             verdict == DecideCommand(rules, command)
  <2>1. (CHOOSE p \in policy : TRUE) = rules /\ world' = world
    BY <1>2, ToolsNeedAConfig DEF ExecuteCommand, Started
  <2>2. sent' = IF verdict.allowed /\ instance # {} THEN verdict.command ELSE sent
    <3> DEFINE p == CHOOSE p \in policy : TRUE
    <3>1. sent' = IF DecideCommand(p, command).allowed /\ instance # {}
                  THEN DecideCommand(p, command).command ELSE sent
      BY <1>2 DEF ExecuteCommand
    <3>2. p = rules BY <2>1
    <3> HIDE DEF p, rules
    <3> QED BY <3>1, <3>2 DEF verdict
  <2> QED BY <2>1, <2>2, AllowedIsListed DEF SentIsAllowed
<1> QED BY <1>1, <1>2
    DEF Next, vars, starting, store, answers, ReadConfig, InitLogging, ResolveCommandPolicy,
        LoadIsoCatalog, Bind, Stop, HttpRequest, HttpRefused, Called, CreateInstance,
        DestroyInstance, CreateImageRefused, CreateImage, QemuImgWrites, CreateImageEnds,
        CreateImageFails, ListImagesTool, ListIsosTool, ListFiles, DownloadIso

\* The properties name the lists the policy is made of.
LEMMA SentSays == SentIsAllowed => DeniedNeverSent
BY DEF SentIsAllowed, DeniedNeverSent, ResolvePolicy, BuildPolicy, PolicyOverrides, Names,
       NormalizeCommandName

-----------------------------------------------------------------------------
(* The transport.                                                           *)

\* The request the MCP service has went through the guards of this Config.
ServedIsAdmitted ==
    served # {} =>
        /\ ExposesHttp(Cfg.transport)
        /\ \A r \in served : r \in world.requests /\ BuildRouter(Cfg, r) = 200

LEMMA ServedNext ==
    ASSUME Started, ServedIsAdmitted, [Next]_vars
    PROVE  ServedIsAdmitted'
<1>1. CASE served' = {} BY <1>1 DEF ServedIsAdmitted
<1>2. CASE UNCHANGED <<served, world>>
  <2>1. CASE config = {} BY <2>1, <1>1, <1>2 DEF Started, Pristine
  <2>2. CASE config # {} BY <2>2, <1>2, CfgStays DEF ServedIsAdmitted
  <2> QED BY <2>1, <2>2
<1>3. ASSUME NEW request \in world.requests, HttpRequest(request) PROVE ServedIsAdmitted'
  <2>1. config # {} BY <1>3 DEF HttpRequest, Started, Pristine
  <2> QED BY <2>1, <1>3, CfgStays DEF HttpRequest, ServedIsAdmitted, Started
<1>4. CASE ~ \E request \in world.requests : HttpRequest(request)
  BY <1>1, <1>2, <1>4
    DEF Next, vars, starting, store, answers, ReadConfig, InitLogging, ResolveCommandPolicy,
        LoadIsoCatalog, Bind, Stop, HttpRefused, Called, CreateInstance, DestroyInstance,
        ExecuteCommand, CreateImageRefused, CreateImage, QemuImgWrites, CreateImageEnds,
        CreateImageFails, ListImagesTool, ListIsosTool, ListFiles, DownloadIso
<1> QED BY <1>3, <1>4

\* A page that passes the origin guard is the operator's.
LEMMA OriginIsTheOperators ==
    ASSUME NEW env, NEW p \in ParsePort(Get(env, "QMP_MCP_HTTP_PORT"), 8080),
           NEW o \in AllowedOrigins(env, p)
    PROVE  LET given == ParseList(Get(env, "QMP_MCP_HTTP_ALLOWED_ORIGINS"))
               port == Get(env, "QMP_MCP_HTTP_PORT")
           IN \/ o \in given
              \/ /\ given = {}
                 /\ o[1] \in {"http://localhost", "http://127.0.0.1"}
                 /\ o[2] = IF IsBlank(port) THEN 8080 ELSE port.n
<1>1. p = IF IsBlank(Get(env, "QMP_MCP_HTTP_PORT")) THEN 8080 ELSE Get(env, "QMP_MCP_HTTP_PORT").n
  <2> DEFINE fallback == 8080
             range == 1..65535
             raw == Get(env, "QMP_MCP_HTTP_PORT")
  <2>1. p \in ParsePort(raw, fallback) OBVIOUS
  <2> HIDE DEF raw, fallback
  <2>2. p \in ParseNumber(raw, fallback, range) BY <2>1 DEF ParsePort
  <2> USE DEF raw
  <2> HIDE DEF range
  <2>3. p = IF IsBlank(Get(env, "QMP_MCP_HTTP_PORT")) THEN fallback
            ELSE Get(env, "QMP_MCP_HTTP_PORT").n
    BY <2>2, NumberSaid
  <2> QED BY <2>3 DEF fallback
<1> DEFINE all == ParseList(Get(env, "QMP_MCP_HTTP_ALLOWED_ORIGINS"))
<1>2. o \in IF all = {} THEN {<<"http://localhost", p>>, <<"http://127.0.0.1", p>>} ELSE all
  BY DEF AllowedOrigins
<1>3. all = {} => o[1] \in {"http://localhost", "http://127.0.0.1"} /\ o[2] = p
  <2> HIDE DEF all
  <2> QED BY <1>2
<1> HIDE DEF all
<1> QED BY <1>1, <1>2, <1>3 DEF all

\* The credential of the provider the operator chose, or none for an open
\* transport.
Carries(r, c, env) ==
    \/ c.allowInsecure
    \/ /\ c.authMode = "apikey"
       /\ r.key # {} /\ r.key \subseteq ParseList(Get(env, "QMP_MCP_API_KEYS"))
    \/ /\ c.authMode = "jwt"
       /\ ~IsBlank(Get(env, "QMP_MCP_JWT_SECRET"))
       /\ \E a \in r.authorization :
             /\ a.token.secret = <<Get(env, "QMP_MCP_JWT_SECRET").v>>
             /\ a.token.alg = "HS256"
             /\ \A e \in a.token.expiry : -Leeway <= e

\* An admitted request carries the credential of the provider, unless the
\* operator opened the transport.
LEMMA AdmittedIsTheOperators ==
    ASSUME NEW env, NEW c \in LoadConfig(env), NEW r, BuildRouter(c, r) = 200,
           ExposesHttp(c.transport), \A j, k \in r.key : j = k
    PROVE  /\ \A o \in r.origin : o \in c.allowedOrigins
           /\ Carries(r, c, env)
<1> DEFINE state == GuardState(c)
<1>0. /\ state.apiKeys = c.apiKeys /\ state.allowedOrigins = c.allowedOrigins
      /\ c.jwtSecret # {} => state.jwtSecret = c.jwtSecret
  BY DEF GuardState
<1> DEFINE inner == IF c.allowInsecure THEN 200
        ELSE CASE c.authMode = "apikey" -> RequireApiKey(state, r, 200)
               [] c.authMode = "jwt" -> RequireJwt(state, r, 200)
<1>6. GuardOrigin(state, r, inner) = 200 BY DEF BuildRouter
<1> HIDE DEF state, inner
<1>1. (\A o \in r.origin : o \in c.allowedOrigins) /\ inner = 200
  BY <1>0, <1>6 DEF GuardOrigin, OriginOk
<1>2. c.authMode \in {"apikey", "jwt"}
  <2>1. c.authMode \in ParseEnum(Get(env, "QMP_MCP_AUTH"), AuthMode, "apikey")
    BY LoadedAccess
  <2>2. c.authMode \in AuthMode \/ c.authMode = "apikey" BY <2>1 DEF ParseEnum
  <2> QED BY <2>2 DEF AuthMode
<1>3. ~LacksCredential(c) BY DEF LoadConfig
<1>4. CASE ~c.allowInsecure /\ c.authMode = "apikey"
  <2>1. ApiKeyOk(r, c.apiKeys) 
    BY <1>0, <1>1, <1>4 DEF inner, RequireApiKey
  <2>2. c.apiKeys = ParseList(Get(env, "QMP_MCP_API_KEYS")) BY LoadedAccess
  <2>3. r.key # {} /\ r.key \subseteq c.apiKeys BY <2>1 DEF ApiKeyOk
  <2> QED BY <2>2, <2>3, <1>1, <1>4 DEF Carries
<1>5. CASE ~c.allowInsecure /\ c.authMode = "jwt"
  <2>1. c.jwtSecret # {} BY <1>3, <1>5 DEF LacksCredential
  <2>2. JwtOk(r, c.jwtSecret)
    BY <1>0, <1>1, <1>5, <2>1 DEF inner, RequireJwt
  <2>3. /\ ~IsBlank(Get(env, "QMP_MCP_JWT_SECRET"))
        /\ c.jwtSecret = {<<Get(env, "QMP_MCP_JWT_SECRET").v>>}
    BY <2>1, LoadedAccess DEF PresentNonBlank
  <2> QED BY <2>2, <2>3, <1>1, <1>5 DEF JwtOk, Carries
<1> QED BY <1>1, <1>2, <1>4, <1>5 DEF Carries

\* What the guards of this Config admit is what the operator said.
LEMMA ServedSays == Started /\ ServedIsAdmitted => OnlyTheOperatorsCallers
<1> SUFFICES ASSUME Started, ServedIsAdmitted, NEW r \in served
             PROVE  /\ Given("QMP_MCP_TRANSPORT").v \in {"http", "both"}
                    /\ \A o \in r.origin :
                          \/ o \in Listed("QMP_MCP_HTTP_ALLOWED_ORIGINS")
                          \/ /\ Listed("QMP_MCP_HTTP_ALLOWED_ORIGINS") = {}
                             /\ o[1] \in {"http://localhost", "http://127.0.0.1"}
                             /\ o[2] = Limit("QMP_MCP_HTTP_PORT", 8080)
                    /\ \/ Said("QMP_MCP_ALLOW_INSECURE")
                       \/ /\ Given("QMP_MCP_AUTH").v \in {"", "apikey"}
                          /\ r.key # {} /\ r.key \subseteq Listed("QMP_MCP_API_KEYS")
                       \/ /\ Given("QMP_MCP_AUTH").v = "jwt"
                          /\ ~IsBlank(Given("QMP_MCP_JWT_SECRET"))
                          /\ \E a \in r.authorization :
                                /\ a.token.secret = <<Given("QMP_MCP_JWT_SECRET").v>>
                                /\ a.token.alg = "HS256"
                                /\ \A e \in a.token.expiry : -Leeway <= e
  BY DEF OnlyTheOperatorsCallers
<1> DEFINE env == world.env
<1>1. config # {} BY DEF Started, Pristine
<1>2. Cfg \in LoadConfig(env) BY <1>1, CfgIsLoaded
<1>3. /\ ExposesHttp(Cfg.transport) /\ BuildRouter(Cfg, r) = 200
      /\ \A j, k \in r.key : j = k
  BY WorldsAssumption DEF ServedIsAdmitted, Started
<1> HIDE DEF env
<1>4. Get(env, "QMP_MCP_TRANSPORT").v \in {"http", "both"}
  <2>1. Cfg.transport \in ParseEnum(Get(env, "QMP_MCP_TRANSPORT"), TransportMode, "stdio")
    BY <1>2, LoadedAccess
  <2>2. Cfg.transport \in {"http", "both"} BY <1>3 DEF ExposesHttp
  <2> QED BY <2>1, <2>2, EnumSaid
<1>5. /\ \A o \in r.origin : o \in Cfg.allowedOrigins
      /\ \/ Cfg.allowInsecure
         \/ /\ Cfg.authMode = "apikey" /\ r.key # {} /\ r.key \subseteq Listed("QMP_MCP_API_KEYS")
         \/ /\ Cfg.authMode = "jwt"
            /\ ~IsBlank(Given("QMP_MCP_JWT_SECRET"))
            /\ \E a \in r.authorization :
                  /\ a.token.secret = <<Given("QMP_MCP_JWT_SECRET").v>>
                  /\ a.token.alg = "HS256"
                  /\ \A e \in a.token.expiry : -Leeway <= e
  <2>1. /\ Given("QMP_MCP_JWT_SECRET") = Get(env, "QMP_MCP_JWT_SECRET")
        /\ Listed("QMP_MCP_API_KEYS") = ParseList(Get(env, "QMP_MCP_API_KEYS"))
    BY DEF Listed, Given, ParseList, env
  <2>2. (\A o \in r.origin : o \in Cfg.allowedOrigins) /\ Carries(r, Cfg, env)
    BY <1>2, <1>3, AdmittedIsTheOperators
  <2> QED BY <2>1, <2>2 DEF Carries
<1>6. \A o \in r.origin :
          \/ o \in Listed("QMP_MCP_HTTP_ALLOWED_ORIGINS")
          \/ /\ Listed("QMP_MCP_HTTP_ALLOWED_ORIGINS") = {}
             /\ o[1] \in {"http://localhost", "http://127.0.0.1"}
             /\ o[2] = Limit("QMP_MCP_HTTP_PORT", 8080)
  <2>1. PICK p \in ParsePort(Get(env, "QMP_MCP_HTTP_PORT"), 8080) :
            Cfg.allowedOrigins = AllowedOrigins(env, p)
    BY <1>2, LoadedAccess
  <2>2. /\ Listed("QMP_MCP_HTTP_ALLOWED_ORIGINS")
               = ParseList(Get(env, "QMP_MCP_HTTP_ALLOWED_ORIGINS"))
        /\ Limit("QMP_MCP_HTTP_PORT", 8080)
               = IF IsBlank(Get(env, "QMP_MCP_HTTP_PORT")) THEN 8080
                 ELSE Get(env, "QMP_MCP_HTTP_PORT").n
    BY DEF Listed, Given, Limit, ParseList, env
  <2> QED BY <2>1, <2>2, <1>5, OriginIsTheOperators
<1>7. Cfg.allowInsecure => Said("QMP_MCP_ALLOW_INSECURE")
  BY <1>2, LoadedFlags, BooleanSaid DEF Said, Given, env
<1>8. /\ Cfg.authMode = "apikey" => Given("QMP_MCP_AUTH").v \in {"", "apikey"}
      /\ Cfg.authMode = "jwt" => Given("QMP_MCP_AUTH").v = "jwt"
  <2>1. Cfg.authMode \in ParseEnum(Given("QMP_MCP_AUTH"), AuthMode, "apikey")
    BY <1>2, LoadedAccess DEF Given, env
  <2> QED BY <2>1, EnumSaid
<1> QED BY <1>4, <1>5, <1>6, <1>7, <1>8 DEF Given, env

-----------------------------------------------------------------------------
(* The argument vector, put together of its parts.                          *)

\* A set of naturals has a least one: what stands for induction on numbers.
LEMMA LeastExists ==
    ASSUME NEW T \in SUBSET Nat, T # {}
    PROVE  \E m \in T : \A n \in T : m <= n
<1> DEFINE F == { 0..k : k \in T }
<1>1. F \subseteq FiniteSubsetsOf(Nat)
    <2>1. \A k \in T : IsFiniteSet(0..k) BY FS_Interval
    <2>2. \A k \in T : 0..k \subseteq Nat OBVIOUS
    <2> QED BY <2>1, <2>2 DEF FiniteSubsetsOf
<1>2. F # {} OBVIOUS
<1>3. PICK x \in F : \A y \in F : ~ (<<y, x>> \in StrictSubsetOrdering(Nat))
    <2> HIDE DEF F
    <2> QED BY <1>1, <1>2, WFMin, FS_StrictSubsetOrderingWellFounded, Zenon
<1>4. PICK m \in T : x = 0..m OBVIOUS
<1>5. ASSUME NEW n \in T, n < m PROVE FALSE
    <2>1. 0..n \subseteq 0..m /\ m \in 0..m /\ m \notin 0..n BY <1>5
    <2>2. <<0..n, x>> \in StrictSubsetOrdering(Nat)
        <3>1. 0..n \in SUBSET Nat /\ 0..m \in SUBSET Nat OBVIOUS
        <3>2. 0..n # 0..m BY <2>1
        <3> QED BY <3>1, <3>2, <2>1, <1>4 DEF StrictSubsetOrdering
    <2> QED BY <1>3, <2>2
<1> QED BY <1>5

\* The function by which FlattenSeq walks along the parts.
Walk(f, seqs, m) == f = [i \in 1..m |-> IF i = 1 THEN seqs[i] ELSE f[i - 1] \o seqs[i]]

\* There is one however many the parts are.
LEMMA WalkExists ==
    ASSUME NEW seqs, NEW n \in Nat \ {0}
    PROVE  \E f : Walk(f, seqs, n)
<1> DEFINE T == {m \in Nat \ {0} : ~ \E f : Walk(f, seqs, m)}
<1>1. SUFFICES ASSUME T # {} PROVE FALSE OBVIOUS
<1>2. PICK m \in T : \A k \in T : m <= k
  <2>1. T \in SUBSET Nat OBVIOUS
  <2> HIDE DEF T
  <2> QED BY <2>1, <1>1, LeastExists
<1>3. m \in Nat \ {0} /\ ~ \E f : Walk(f, seqs, m) OBVIOUS
<1>4. CASE m = 1
  <2> DEFINE f == [i \in 1..m |-> seqs[i]]
  <2>1. Walk(f, seqs, m) BY <1>4 DEF Walk
  <2> QED BY <1>3, <2>1
<1>5. CASE m # 1
  <2>1. m - 1 \in Nat \ {0} /\ m - 1 \notin T BY <1>2, <1>3, <1>5
  <2>2. PICK g : Walk(g, seqs, m - 1) BY <2>1
  <2> DEFINE f == [i \in 1..m |-> IF i = m THEN g[m - 1] \o seqs[m] ELSE g[i]]
  <2>3. Walk(f, seqs, m)
    <3>1. ASSUME NEW i \in 1..m
          PROVE  f[i] = IF i = 1 THEN seqs[i] ELSE f[i - 1] \o seqs[i]
      <4>1. CASE i = m
        <5>1. i - 1 \in 1..m /\ i - 1 # m /\ i # 1 BY <1>3, <1>5, <4>1
        <5>2. f[i] = g[m - 1] \o seqs[m] /\ f[i - 1] = g[i - 1] BY <5>1, <4>1
        <5> QED BY <5>1, <5>2, <4>1
      <4>2. CASE i # m
        <5>1. i \in 1..(m - 1) BY <1>3, <4>2
        <5>2. g[i] = IF i = 1 THEN seqs[i] ELSE g[i - 1] \o seqs[i] BY <5>1, <2>2 DEF Walk
        <5>3. f[i] = g[i] /\ (i # 1 => f[i - 1] = g[i - 1]) BY <5>1, <1>3, <1>5
        <5> QED BY <5>2, <5>3
      <4> QED BY <4>1, <4>2
    <3>2. f = [i \in 1..m |-> f[i]] OBVIOUS
    <3> HIDE DEF f
    <3>3. [i \in 1..m |-> f[i]] = [i \in 1..m |-> IF i = 1 THEN seqs[i] ELSE f[i - 1] \o seqs[i]]
      BY <3>1
    <3> QED BY <3>2, <3>3 DEF Walk
  <2> QED BY <1>3, <2>3
<1> QED BY <1>4, <1>5

\* What is flattened has the elements of the parts.
LEMMA FlattenedElements ==
    ASSUME NEW seqs, NEW n \in Nat \ {0}, Len(seqs) = n, NEW S,
           \A i \in 1..n : seqs[i] \in Seq(S)
    PROVE  FlattenSeq(seqs) \in Seq(S)
<1> DEFINE f == CHOOSE f : Walk(f, seqs, n)
<1>1. Walk(f, seqs, n) BY WalkExists
<1>2. FlattenSeq(seqs) = f[n] BY DEF FlattenSeq, Walk
<1> HIDE DEF f
<1> DEFINE T == {m \in 1..n : f[m] \notin Seq(S)}
<1>3. ASSUME T # {} PROVE FALSE
  <2>1. PICK m \in T : \A k \in T : m <= k
    <3>1. T \in SUBSET Nat OBVIOUS
    <3> HIDE DEF T
    <3> QED BY <1>3, <3>1, LeastExists
  <2>2. f[m] = IF m = 1 THEN seqs[m] ELSE f[m - 1] \o seqs[m] BY <1>1 DEF Walk
  <2>3. CASE m = 1 BY <2>2, <2>3
  <2>4. CASE m # 1
    <3>1. m - 1 \in 1..n /\ m - 1 \notin T BY <2>1, <2>4
    <3>2. f[m - 1] \in Seq(S) /\ seqs[m] \in Seq(S) BY <3>1
    <3>3. f[m - 1] \o seqs[m] \in Seq(S) BY <3>2
    <3> QED BY <2>2, <2>4, <3>3
  <2> QED BY <2>3, <2>4
<1> QED BY <1>2, <1>3


\* What is joined is made of the parts, and every part was given.
LEMMA JoinedElements ==
    ASSUME NEW S, NEW parts \in Seq(SUBSET Seq(S)), parts # <<>>,
           NEW argv \in Joined(parts)
    PROVE  argv \in Seq(S) /\ \A i \in 1..Len(parts) : parts[i] # {}
<1> DEFINE n == Len(parts)
           seqs == [i \in 1..n |-> CHOOSE args \in parts[i] : TRUE]
<1>0. n \in Nat \ {0} /\ DOMAIN parts = 1..n /\ \A i \in 1..n : parts[i] \subseteq Seq(S)
  OBVIOUS
<1>1. (\A i \in 1..n : parts[i] # {}) /\ argv = FlattenSeq(seqs)
  BY <1>0 DEF Joined
<1>2. \A i \in 1..n : seqs[i] \in Seq(S) BY <1>0, <1>1
<1>3. Len(seqs) = n BY <1>0
<1> HIDE DEF seqs, n
<1>4. FlattenSeq(seqs) \in Seq(S) BY <1>0, <1>2, <1>3, FlattenedElements
<1> QED BY <1>1, <1>4 DEF n

\* The parts of the argument vector: those of the board, of each disk, of the
\* devices.
LEMMA ArgvElements ==
    ASSUME NEW spec, NEW o, NEW argv \in BuildArgv(spec, o), NEW S,
           Len(spec.disks) \in Nat, DOMAIN spec.disks = 1..Len(spec.disks),
           BoardArgs(spec, o) \in Seq(SUBSET Seq(S)), BoardArgs(spec, o) # <<>>,
           \A i \in 1..Len(spec.disks) :
              BuildDriveArgs(spec.disks[i], o.imageStore) \subseteq Seq(S),
           DeviceArgs(spec, o) \in Seq(SUBSET Seq(S))
    PROVE  /\ argv \in Seq(S)
           /\ \A i \in 1..Len(BoardArgs(spec, o)) : BoardArgs(spec, o)[i] # {}
           /\ \A i \in 1..Len(DeviceArgs(spec, o)) : DeviceArgs(spec, o)[i] # {}
<1> DEFINE n == Len(spec.disks)
           board == BoardArgs(spec, o)
           disks == [i \in DOMAIN spec.disks |-> BuildDriveArgs(spec.disks[i], o.imageStore)]
           device == DeviceArgs(spec, o)
           front == board \o disks
           parts == front \o device
           P == SUBSET Seq(S)
<1>1. argv \in Joined(parts) BY DEF BuildArgv, Each
<1>2. disks \in Seq(P)
  <2>1. disks \in [1..n -> P] OBVIOUS
  <2> QED BY <2>1
<1> HIDE DEF board, disks, device, P
<1>5. board \in Seq(P) /\ device \in Seq(P) /\ Len(board) # 0
  BY DEF board, device, P
<1>3. front \in Seq(P) /\ Len(front) = Len(board) + Len(disks)
      /\ \A i \in 1..Len(board) : front[i] = board[i]
  BY <1>2, <1>5
<1> HIDE DEF front
<1>4. parts \in Seq(P) /\ Len(parts) = Len(front) + Len(device)
      /\ (\A i \in 1..Len(front) : parts[i] = front[i])
      /\ \A i \in 1..Len(device) : parts[Len(front) + i] = device[i]
  <2>1. front \in Seq(P) /\ device \in Seq(P) BY <1>3, <1>5
  <2> QED BY <2>1
<1> HIDE DEF parts
<1>6. argv \in Seq(S) /\ \A i \in 1..Len(parts) : parts[i] # {}
  <2>1. parts # <<>> BY <1>2, <1>3, <1>4, <1>5
  <2> QED BY <1>1, <1>4, <2>1, JoinedElements DEF P
<1>7. ASSUME NEW i \in 1..Len(board) PROVE board[i] # {}
  <2>1. Len(board) \in Nat /\ Len(disks) \in Nat /\ Len(device) \in Nat
        /\ Len(front) = Len(board) + Len(disks) /\ Len(parts) = Len(front) + Len(device)
    BY <1>2, <1>3, <1>4, <1>5
  <2>2. i \in 1..Len(front) /\ i \in 1..Len(parts) BY <2>1
  <2> QED BY <2>2, <1>3, <1>4, <1>6
<1>8. ASSUME NEW i \in 1..Len(device) PROVE device[i] # {}
  <2>1. Len(front) \in Nat /\ Len(device) \in Nat /\ Len(parts) = Len(front) + Len(device)
    BY <1>3, <1>4, <1>5
  <2>2. Len(front) + i \in 1..Len(parts) BY <2>1
  <2> QED BY <2>2, <1>4, <1>6
<1> QED BY <1>6, <1>7, <1>8 DEF board, device

-----------------------------------------------------------------------------
(* Words and paths.                                                         *)

\* Short words, character by character.
LEMMA Spelled ==
    ASSUME NEW w, NEW a, NEW b, NEW c
    PROVE  /\ w = <<>> => {w[i] : i \in DOMAIN w} = {}
           /\ w = <<a>> => {w[i] : i \in DOMAIN w} = {a}
           /\ w = <<a, b>> => {w[i] : i \in DOMAIN w} = {a, b}
           /\ w = <<a, b, c>> => {w[i] : i \in DOMAIN w} = {a, b, c}
<1>1. w = <<>> => {w[i] : i \in DOMAIN w} = {} OBVIOUS
<1>2. w = <<a>> => {w[i] : i \in DOMAIN w} = {a}
  <2> SUFFICES ASSUME w = <<a>> PROVE {w[i] : i \in DOMAIN w} = {a} OBVIOUS
  <2>1. DOMAIN w = {1} /\ w[1] = a OBVIOUS
  <2> QED BY <2>1
<1>3. w = <<a, b>> => {w[i] : i \in DOMAIN w} = {a, b}
  <2> SUFFICES ASSUME w = <<a, b>> PROVE {w[i] : i \in DOMAIN w} = {a, b} OBVIOUS
  <2>1. DOMAIN w = {1, 2} /\ w[1] = a /\ w[2] = b OBVIOUS
  <2> QED BY <2>1
<1>4. w = <<a, b, c>> => {w[i] : i \in DOMAIN w} = {a, b, c}
  <2> SUFFICES ASSUME w = <<a, b, c>> PROVE {w[i] : i \in DOMAIN w} = {a, b, c} OBVIOUS
  <2>1. DOMAIN w = {1, 2, 3} /\ w[1] = a /\ w[2] = b /\ w[3] = c OBVIOUS
  <2> QED BY <2>1
<1> QED BY <1>1, <1>2, <1>3, <1>4

\* A comma that is escaped splits nothing.
LEMMA EscapedDoesNotSplit ==
    ASSUME NEW word
    PROVE  ~Splits(EscapeQemuOptsValue(word))
<1>1. CASE word \in {"a,b", "/a,b"}
  <2>1. EscapeQemuOptsValue(word) \in {"a,,b", "/a,,b"} BY <1>1 DEF EscapeQemuOptsValue
  <2>2. CharsOf("a,,b") = <<"a">> /\ CharsOf("/a,,b") = <<"a">> BY DEF CharsOf, AbsolutePaths
  <2>3. CharSet("a,,b") = {"a"} /\ CharSet("/a,,b") = {"a"} BY <2>2, Spelled DEF CharSet
  <2>4. "," \notin CharSet("a,,b") /\ "," \notin CharSet("/a,,b") BY <2>3
  <2>5. ~Splits("a,,b") /\ ~Splits("/a,,b") BY <2>4 DEF Splits
  <2> QED BY <2>1, <2>5
<1>2. CASE word \notin {"a,b", "/a,b"}
  <2>1. EscapeQemuOptsValue(word) = word BY <1>2 DEF EscapeQemuOptsValue
  <2>2. \/ CharsOf(word) = <<>>
        \/ CharsOf(word) = <<" ">>
        \/ CharsOf(word) = <<".", ".">>
        \/ CharsOf(word) = <<"a", "NUL">>
        \/ CharsOf(word) = <<"/", "a">>
        \/ CharsOf(word) = <<"a", "/", "a">>
        \/ CharsOf(word) = <<"a", " ", "a">>
        \/ CharsOf(word) = <<"-", "a">>
        \/ CharsOf(word) = <<"a", "+", "a">>
        \/ CharsOf(word) = <<"a", "CTRL">>
        \/ CharsOf(word) = <<"a">>
    <3>1. CASE word \in {"", " "} BY <3>1 DEF CharsOf, AbsolutePaths
    <3>2. CASE word \in {".", "..", "nul", "-a", "line\n"} BY <3>2 DEF CharsOf, AbsolutePaths
    <3>3. CASE word \in {"a/b", "a b", "a+b"} BY <3>3 DEF CharsOf, AbsolutePaths
    <3>4. CASE word \in AbsolutePaths BY <3>4 DEF CharsOf, AbsolutePaths
    <3>5. CASE word \notin AbsolutePaths \cup {"", " ", ".", "..", "nul", "-a", "line\n",
                                                "a/b", "a b", "a+b"}
      BY <1>2, <3>5 DEF CharsOf
    <3> QED BY <3>1, <3>2, <3>3, <3>4, <3>5
  <2>3. CASE CharsOf(word) = <<>>
    <3>1. CharSet(word) = {} BY <2>3, Spelled DEF CharSet
    <3> QED BY <3>1, <2>1 DEF Splits
  <2>4. CASE CharsOf(word) = <<" ">>
    <3>1. CharSet(word) = {" "} BY <2>4, Spelled DEF CharSet
    <3>2. "," \notin CharSet(word) BY <3>1
    <3> QED BY <3>2, <2>1 DEF Splits
  <2>5. CASE CharsOf(word) = <<".", ".">>
    <3>1. CharSet(word) = {".", "."} BY <2>5, Spelled DEF CharSet
    <3>2. "," \notin CharSet(word) BY <3>1
    <3> QED BY <3>2, <2>1 DEF Splits
  <2>6. CASE CharsOf(word) = <<"a", "NUL">>
    <3>1. CharSet(word) = {"a", "NUL"} BY <2>6, Spelled DEF CharSet
    <3>2. "," \notin CharSet(word) BY <3>1
    <3> QED BY <3>2, <2>1 DEF Splits
  <2>7. CASE CharsOf(word) = <<"/", "a">>
    <3>1. CharSet(word) = {"/", "a"} BY <2>7, Spelled DEF CharSet
    <3>2. "," \notin CharSet(word) BY <3>1
    <3> QED BY <3>2, <2>1 DEF Splits
  <2>8. CASE CharsOf(word) = <<"a", "/", "a">>
    <3>1. CharSet(word) = {"a", "/", "a"} BY <2>8, Spelled DEF CharSet
    <3>2. "," \notin CharSet(word) BY <3>1
    <3> QED BY <3>2, <2>1 DEF Splits
  <2>9. CASE CharsOf(word) = <<"a", " ", "a">>
    <3>1. \E b : b = " " /\ CharsOf(word) = <<"a", b, "a">> BY <2>9, Zenon
    <3>2. PICK b : b # "," /\ CharsOf(word) = <<"a", b, "a">>
      <4>1. " " # "," OBVIOUS
      <4> QED BY <3>1, <4>1
    <3>3. CharSet(word) = {"a", b, "a"} BY <3>2, Spelled DEF CharSet
    <3>4. "," \notin CharSet(word) BY <3>2, <3>3
    <3> QED BY <3>4, <2>1 DEF Splits
  <2>10. CASE CharsOf(word) = <<"-", "a">>
    <3>1. CharSet(word) = {"-", "a"} BY <2>10, Spelled DEF CharSet
    <3>2. "," \notin CharSet(word) BY <3>1
    <3> QED BY <3>2, <2>1 DEF Splits
  <2>11. CASE CharsOf(word) = <<"a", "+", "a">>
    <3>1. CharSet(word) = {"a", "+", "a"} BY <2>11, Spelled DEF CharSet
    <3>2. "," \notin CharSet(word) BY <3>1
    <3> QED BY <3>2, <2>1 DEF Splits
  <2>12. CASE CharsOf(word) = <<"a", "CTRL">>
    <3>1. CharSet(word) = {"a", "CTRL"} BY <2>12, Spelled DEF CharSet
    <3>2. "," \notin CharSet(word) BY <3>1
    <3> QED BY <3>2, <2>1 DEF Splits
  <2>13. CASE CharsOf(word) = <<"a">>
    <3>1. CharSet(word) = {"a"} BY <2>13, Spelled DEF CharSet
    <3>2. "," \notin CharSet(word) BY <3>1
    <3> QED BY <3>2, <2>1 DEF Splits
  <2> QED BY <2>2, <2>3, <2>4, <2>5, <2>6, <2>7, <2>8, <2>9, <2>10, <2>11, <2>12, <2>13
<1> QED BY <1>1, <1>2

\* A token has no comma unless it is given as punctuation.
LEMMA TokenDoesNotSplit ==
    ASSUME NEW word, NEW punctuation, Token(word, punctuation), "," \notin punctuation
    PROVE  ~Splits(word)
BY DEF Token, Splits

\* A name that resolves is plain, and escaping leaves it as it is.
LEMMA ResolvedIsPlain ==
    ASSUME NEW name, NEW place, ResolveInStore(name, place) # {}
    PROVE  PlainName(name) /\ EscapeQemuOptsValue(name) = name /\ place.there
           /\ (name \in DOMAIN place.entries =>
                  place.entries[name] \notin {"link_outside", "dangling"})
           /\ ResolveInStore(name, place) = {Path(place, name)}
<1>1. AssertValidStoreName(name) /\ place.there
      /\ (name \in DOMAIN place.entries => place.entries[name] \notin {"link_outside", "dangling"})
      /\ ResolveInStore(name, place) = {Path(place, name)}
  BY DEF ResolveInStore, Exists
<1>2. Token(name, {".", "_", "-"}) BY <1>1 DEF AssertValidStoreName, IsValidStoreName
<1>3. PlainName(name) BY <1>2 DEF Token, PlainName
<1>4. ~Splits(name) BY <1>2, TokenDoesNotSplit
<1>5. name # "a,b" /\ name # "/a,b"
  <2>1. CharsOf("a,b") = <<"a", ",", "a">> BY DEF CharsOf, AbsolutePaths
  <2>2. CharsOf("/a,b") = <<"/", "a", ",", "a">> BY DEF CharsOf, AbsolutePaths
  <2>3. <<"a", ",", "a">>[2] = "," /\ 2 \in DOMAIN <<"a", ",", "a">> OBVIOUS
  <2>4. <<"/", "a", ",", "a">>[3] = "," /\ 3 \in DOMAIN <<"/", "a", ",", "a">> OBVIOUS
  <2> QED BY <1>4, <2>1, <2>2, <2>3, <2>4 DEF Splits, CharSet
<1> QED BY <1>1, <1>3, <1>5 DEF EscapeQemuOptsValue

\* A path is a sequence of its parts.
IsPath(path) == path \in Seq({path[i] : i \in DOMAIN path})

\* A file of a store, below its root as it is written there.
Below(path, root, place) == InStore(path, root, place.there, place.entries)

\* What resolves in a store is in it, escaped or not.
LEMMA ResolvedIsInStore ==
    ASSUME NEW place, IsPath(place.dir), NEW name, NEW path \in ResolveInStore(name, place)
    PROVE  /\ Below(path, place.dir, place)
           /\ Below(EscapePath(path), EscapePath(place.dir), place)
           /\ \A i \in DOMAIN EscapePath(path) : ~Splits(EscapePath(path)[i])
<1>1. path = Path(place, name) BY ResolvedIsPlain
<1>2. IsPath(path) /\ path[Len(path)] = name /\ Len(path) # 0
  <2> DEFINE dir == place.dir
             S == {dir[i] : i \in DOMAIN dir}
             T == S \cup {name}
  <2>1. dir \in Seq(T)
    <3>1. dir \in Seq(S) BY DEF IsPath
    <3>2. S \subseteq T OBVIOUS
    <3> HIDE DEF dir, S, T
    <3> QED BY <3>1, <3>2
  <2>2. name \in T OBVIOUS
  <2> HIDE DEF dir, T
  <2>3. Append(dir, name) \in Seq(T) /\ Append(dir, name)[Len(Append(dir, name))] = name
        /\ Len(Append(dir, name)) # 0
    BY <2>1, <2>2
  <2>4. path = Append(dir, name) BY <1>1 DEF Path, dir
  <2> HIDE DEF S
  <2>5. path \in Seq({path[i] : i \in DOMAIN path})
    <3>1. path \in Seq(T) BY <2>3, <2>4
    <3> QED BY <3>1
  <2> QED BY <2>3, <2>4, <2>5 DEF IsPath
<1>3. Len(EscapePath(path)) = Len(path) /\ EscapePath(path)[Len(path)] = name
  BY <1>2, ResolvedIsPlain DEF EscapePath, IsPath
<1>5. path = Append(place.dir, name) BY <1>1 DEF Path
<1>6. EscapePath(path) = Append(EscapePath(place.dir), name)
  <2> DEFINE dir == place.dir
             S == {dir[i] : i \in DOMAIN dir} \cup {name}
             E == {EscapeQemuOptsValue(x) : x \in S}
             up == EscapePath(dir)
             n == Len(dir)
  <2>1. dir \in Seq(S)
    <3>1. dir \in Seq({dir[i] : i \in DOMAIN dir}) BY DEF IsPath
    <3> DEFINE T == {dir[i] : i \in DOMAIN dir}
    <3>2. T \subseteq S OBVIOUS
    <3> HIDE DEF dir, S, T
    <3> QED BY <3>1, <3>2 DEF T
  <2>2. name \in S OBVIOUS
  <2>3. EscapeQemuOptsValue(name) = name BY ResolvedIsPlain
  <2> HIDE DEF dir, S
  <2>4. n \in Nat /\ DOMAIN dir = 1..n BY <2>1
  <2>5. up = [i \in 1..n |-> EscapeQemuOptsValue(dir[i])] BY <2>4 DEF EscapePath
  <2>6. \A i \in 1..n : dir[i] \in S BY <2>1, <2>4
  <2>7. up \in [1..n -> E] BY <2>5, <2>6
  <2> HIDE DEF up, n, E
  <2>8. up \in Seq(E) /\ Len(up) = n BY <2>4, <2>7
  <2>9. path = [i \in 1..(n + 1) |-> IF i = n + 1 THEN name ELSE dir[i]]
    BY <1>5, <2>1, <2>2, <2>4 DEF n, dir
  <2>10. DOMAIN path = 1..(n + 1) BY <2>9
  <2>11. EscapePath(path) = [i \in 1..(n + 1) |-> EscapeQemuOptsValue(path[i])]
    BY <2>10 DEF EscapePath
  <2>12. ASSUME NEW i \in 1..(n + 1)
         PROVE  EscapeQemuOptsValue(path[i]) = IF i = n + 1 THEN name ELSE up[i]
    <3>1. CASE i = n + 1 BY <3>1, <2>3, <2>9
    <3>2. CASE i # n + 1
      <4>1. i \in 1..n BY <2>4, <3>2
      <4>2. path[i] = dir[i] BY <2>9, <3>2
      <4> QED BY <2>5, <3>2, <4>1, <4>2
    <3> QED BY <3>1, <3>2
  <2>13. Append(up, name) = [i \in 1..(n + 1) |-> IF i = n + 1 THEN name ELSE up[i]]
    <3>1. name \in E BY <2>2, <2>3 DEF E
    <3>2. PICK q : q = Append(up, name) OBVIOUS
    <3>3. /\ q \in Seq(E) /\ Len(q) = n + 1
          /\ q[n + 1] = name /\ \A i \in 1..n : q[i] = up[i]
      BY <2>4, <2>8, <3>1, <3>2
    <3>4. q = [i \in 1..(n + 1) |-> q[i]] BY <2>4, <3>3
    <3>5. \A i \in 1..(n + 1) : q[i] = IF i = n + 1 THEN name ELSE up[i] BY <2>4, <3>3
    <3> QED BY <3>2, <3>4, <3>5
  <2> QED BY <2>11, <2>12, <2>13 DEF up, dir
<1>4. \A i \in DOMAIN EscapePath(path) : ~Splits(EscapePath(path)[i])
  BY EscapedDoesNotSplit DEF EscapePath
<1> QED BY <1>2, <1>3, <1>4, <1>5, <1>6, ResolvedIsPlain DEF InStore, Below

-----------------------------------------------------------------------------
(* The arguments.                                                           *)

\* What an argument may say for a Hardware Spec under the operator's options.
Fits(a, spec, o) ==
    /\ a.flag = "-m" => a.numbers = {spec.memoryMb}
    /\ a.flag = "-smp" => a.numbers = {spec.vcpus}
    /\ a.flag = "-netdev" =>
        /\ a.props \cap {"tap", "bridge"} # {} => o.allowHostNet
        /\ \A p \in a.numbers : p >= o.hostfwdPortRange.low /\ p <= o.hostfwdPortRange.high
    /\ a.flag = "-fsdev" =>
        /\ o.hostShareDir # "" /\ ~IsRaspiMachine(spec.machine)
        /\ "readonly" \in a.props <=> o.shareReadonly # {FALSE}
    /\ a.flag = "-device" /\ IsRaspiMachine(spec.machine) => a.props = {"usb-net"}
    /\ a.flag = "raw" => o.allowRawArgs
    /\ a.flag = "-vnc" => spec.display = "vnc"
    /\ a.flag = "-drive" => \A path \in a.paths :
        IF "cdrom" \in a.props THEN Below(path, EscapePath(o.isoStore.dir), o.isoStore)
        ELSE Below(path, EscapePath(o.imageStore.dir), o.imageStore)
    /\ a.flag \in {"-kernel", "-initrd", "-dtb"} =>
        \A path \in a.paths : Below(path, o.imageStore.dir, o.imageStore)
    /\ a.flag \notin NotParsed => Unsplit(a)

\* A sequence of arguments that all fit.
AllFit(args, spec, o) ==
    /\ args \in Seq({args[i] : i \in DOMAIN args})
    /\ \A i \in DOMAIN args : Fits(args[i], spec, o)

\* The shape of an argument, and what EXCEPT makes of it.
Shape(f, w, p, q, n) == [flag |-> f, words |-> w, paths |-> p, props |-> q, numbers |-> n]
LEMMA ArgShape == ASSUME NEW flag PROVE Arg(flag) = Shape(flag, {}, {}, {}, {})
BY DEF Arg, Shape
LEMMA WordsShape ==
    ASSUME NEW flag, NEW x PROVE Words(flag, x) = Shape(flag, x, {}, {}, {})
BY DEF Words, Arg, Shape
LEMMA PropsShape ==
    ASSUME NEW flag, NEW x PROVE Props(flag, x) = Shape(flag, {}, {}, x, {})
BY DEF Props, Arg, Shape
LEMMA NumbersShape ==
    ASSUME NEW flag, NEW x PROVE Numbers(flag, x) = Shape(flag, {}, {}, {}, x)
BY DEF Numbers, Arg, Shape
LEMMA WithProps ==
    ASSUME NEW f, NEW w, NEW p, NEW q, NEW n, NEW x
    PROVE  [Shape(f, w, p, q, n) EXCEPT !.props = x] = Shape(f, w, p, x, n)
BY DEF Shape
LEMMA WithPaths ==
    ASSUME NEW f, NEW w, NEW p, NEW q, NEW n, NEW x
    PROVE  [Shape(f, w, p, q, n) EXCEPT !.paths = x] = Shape(f, w, x, q, n)
BY DEF Shape
LEMMA WithNumbers ==
    ASSUME NEW f, NEW w, NEW p, NEW q, NEW n, NEW x
    PROVE  [Shape(f, w, p, q, n) EXCEPT !.numbers = x] = Shape(f, w, p, q, x)
BY DEF Shape
LEMMA FilesShape ==
    ASSUME NEW flag, NEW x, NEW y PROVE Files(flag, x, y) = Shape(flag, {}, x, y, {})
<1> DEFINE given == Arg(flag)
           there == [given EXCEPT !.paths = x]
<1>1. given = Shape(flag, {}, {}, {}, {}) BY ArgShape
<1>2. there = Shape(flag, {}, x, {}, {}) BY <1>1, WithPaths
<1>3. Files(flag, x, y) = [there EXCEPT !.props = y] BY DEF Files
<1> HIDE DEF there
<1> QED BY <1>2, <1>3, WithProps

\* The fields of an argument.
LEMMA ShapeFields ==
    ASSUME NEW f, NEW w, NEW p, NEW q, NEW n, NEW a, a = Shape(f, w, p, q, n)
    PROVE  a.flag = f /\ a.words = w /\ a.paths = p /\ a.props = q /\ a.numbers = n
BY DEF Shape
LEMMA ArgFields ==
    ASSUME NEW flag, NEW a, a = Arg(flag)
    PROVE  a.flag = flag /\ a.words = {} /\ a.paths = {}
BY ArgShape, ShapeFields
LEMMA WordsFields ==
    ASSUME NEW flag, NEW x, NEW a, a = Words(flag, x)
    PROVE  a.flag = flag /\ a.words = x /\ a.paths = {} /\ a.props = {} /\ a.numbers = {}
BY WordsShape, ShapeFields
LEMMA PropsFields ==
    ASSUME NEW flag, NEW x, NEW a, a = Props(flag, x)
    PROVE  a.flag = flag /\ a.words = {} /\ a.paths = {} /\ a.props = x /\ a.numbers = {}
BY PropsShape, ShapeFields
LEMMA NumbersFields ==
    ASSUME NEW flag, NEW x, NEW a, a = Numbers(flag, x)
    PROVE  a.flag = flag /\ a.words = {} /\ a.paths = {} /\ a.props = {} /\ a.numbers = x
BY NumbersShape, ShapeFields
LEMMA FilesFields ==
    ASSUME NEW flag, NEW x, NEW y, NEW a, a = Files(flag, x, y)
    PROVE  a.flag = flag /\ a.words = {} /\ a.paths = x /\ a.props = y /\ a.numbers = {}
BY FilesShape, ShapeFields

\* Up to three that fit are a sequence that fits.
LEMMA FewFit ==
    ASSUME NEW spec, NEW o, NEW a, NEW b, NEW c
    PROVE  /\ AllFit(<<>>, spec, o)
           /\ Fits(a, spec, o) => AllFit(<<a>>, spec, o)
           /\ Fits(a, spec, o) /\ Fits(b, spec, o) => AllFit(<<a, b>>, spec, o)
           /\ Fits(a, spec, o) /\ Fits(b, spec, o) /\ Fits(c, spec, o)
                => AllFit(<<a, b, c>>, spec, o)
<1>1. AllFit(<<>>, spec, o) BY DEF AllFit
<1>2. ASSUME Fits(a, spec, o) PROVE AllFit(<<a>>, spec, o)
  <2> DEFINE w == <<a>>
  <2>1. w \in Seq({a}) /\ DOMAIN w = {1} /\ w[1] = a OBVIOUS
  <2> HIDE DEF w
  <2>2. {w[i] : i \in DOMAIN w} = {a} BY <2>1
  <2> QED BY <1>2, <2>1, <2>2 DEF AllFit, w
<1>3. ASSUME Fits(a, spec, o), Fits(b, spec, o) PROVE AllFit(<<a, b>>, spec, o)
  <2> DEFINE w == <<a, b>>
  <2>1. w \in Seq({a, b}) /\ DOMAIN w = {1, 2} /\ w[1] = a /\ w[2] = b OBVIOUS
  <2> HIDE DEF w
  <2>2. {w[i] : i \in DOMAIN w} = {a, b} BY <2>1
  <2> QED BY <1>3, <2>1, <2>2 DEF AllFit, w
<1>4. ASSUME Fits(a, spec, o), Fits(b, spec, o), Fits(c, spec, o) PROVE AllFit(<<a, b, c>>, spec, o)
  <2> DEFINE w == <<a, b, c>>
  <2>1. w \in Seq({a, b, c}) /\ DOMAIN w = {1, 2, 3} /\ w[1] = a /\ w[2] = b /\ w[3] = c OBVIOUS
  <2> HIDE DEF w
  <2>2. {w[i] : i \in DOMAIN w} = {a, b, c} BY <2>1
  <2> QED BY <1>4, <2>1, <2>2 DEF AllFit, w
<1> QED BY <1>1, <1>2, <1>3, <1>4

\* The arguments no limit is about.
LEMMA PlainFits ==
    ASSUME NEW a, NEW spec, NEW o,
           \/ a.flag \in {"-append", "-qmp"}
           \/ /\ a.flag \in {"-nodefaults", "-nographic", "-S", "-serial"}
              /\ a.words = {} /\ a.paths = {}
    PROVE  Fits(a, spec, o)
BY DEF Fits, NotParsed, Unsplit

\* The parts of the board.
LEMMA BoardFits ==
    ASSUME NEW spec, NEW o, IsValidMachineCpu(spec.cpu),
           IsPath(o.imageStore.dir), IsPath(o.isoStore.dir),
           NEW i \in 1..10, NEW args \in BoardArgs(spec, o)[i]
    PROVE  AllFit(args, spec, o)
<1> DEFINE raspi == IsRaspiMachine(spec.machine)
           device == QemuDevice(spec.displayDevice)
           F(a) == Fits(a, spec, o)
           given == Words("-machine", {EscapeQemuOptsValue(spec.machine)})
           machine == [given EXCEPT !.props = {o.accel}]
<1>2. F(machine)
  <2>1. given = Shape("-machine", {EscapeQemuOptsValue(spec.machine)}, {}, {}, {}) BY WordsShape
  <2>2. machine = Shape("-machine", {EscapeQemuOptsValue(spec.machine)}, {}, {o.accel}, {})
    BY <2>1, WithProps
  <2> HIDE DEF machine
  <2>3. machine.flag = "-machine" /\ machine.words = {EscapeQemuOptsValue(spec.machine)}
        /\ machine.paths = {} /\ machine.props = {o.accel}
    BY <2>2, ShapeFields
  <2> QED BY <2>3, EscapedDoesNotSplit DEF Fits, Unsplit
<1>3. /\ F(Words("-cpu", {spec.cpu})) /\ F(Numbers("-smp", {spec.vcpus}))
      /\ F(Numbers("-m", {spec.memoryMb}))
  <2>1. ~Splits(spec.cpu) BY TokenDoesNotSplit DEF IsValidMachineCpu
  <2>2. ASSUME NEW a, a = Words("-cpu", {spec.cpu}) PROVE F(a)
    <3>1. a.flag = "-cpu" /\ a.words = {spec.cpu} /\ a.paths = {} BY <2>2, WordsFields
    <3> QED BY <2>1, <3>1 DEF Fits, Unsplit
  <2>3. ASSUME NEW a, a = Numbers("-smp", {spec.vcpus}) PROVE F(a)
    <3>1. a.flag = "-smp" /\ a.numbers = {spec.vcpus} /\ a.words = {} /\ a.paths = {}
      BY <2>3, NumbersFields
    <3> QED BY <3>1 DEF Fits, Unsplit
  <2>4. ASSUME NEW a, a = Numbers("-m", {spec.memoryMb}) PROVE F(a)
    <3>1. a.flag = "-m" /\ a.numbers = {spec.memoryMb} /\ a.words = {} /\ a.paths = {}
      BY <2>4, NumbersFields
    <3> QED BY <3>1 DEF Fits, Unsplit
  <2> QED BY <2>2, <2>3, <2>4
<1>4. ASSUME NEW flag \in {"-kernel", "-initrd", "-dtb"}, NEW name,
             NEW x \in ResolveBootArtifact(flag, name, o.imageStore)
      PROVE  AllFit(x, spec, o)
  <2>1. PICK path \in ResolveImagePath(name, o.imageStore) : x = <<Files(flag, {path}, {})>>
    BY DEF ResolveBootArtifact
  <2>2. Below(path, o.imageStore.dir, o.imageStore)
    BY <2>1, ResolvedIsInStore DEF ResolveImagePath
  <2>3. F(Files(flag, {path}, {}))
    <3>1. PICK a : a = Files(flag, {path}, {}) OBVIOUS
    <3>2. a.flag = flag /\ a.paths = {path} /\ a.props = {} BY <3>1, FilesFields
    <3>3. F(a) BY <2>2, <3>2 DEF Fits, NotParsed
    <3> QED BY <3>1, <3>3
  <2> QED BY <2>1, <2>3, FewFit
<1>5. ASSUME NEW line PROVE F(Words("-append", {line}))
  <2>1. Words("-append", {line}).flag = "-append" BY WordsFields
  <2> QED BY <2>1, PlainFits
<1>6. F(Arg("-nodefaults")) /\ F(Arg("-nographic")) /\ F(Arg("-S"))
  <2>1. \A flag : Arg(flag).flag = flag /\ Arg(flag).words = {} /\ Arg(flag).paths = {}
    BY ArgFields
  <2> QED BY <2>1, PlainFits
<1>7. spec.display = "vnc" => F(Props("-vnc", {"127.0.0.1", "password"}))
  <2>1. PICK a : a = Props("-vnc", {"127.0.0.1", "password"}) OBVIOUS
  <2>2. a.flag = "-vnc" /\ a.words = {} /\ a.paths = {} BY <2>1, PropsFields
  <2>3. spec.display = "vnc" => F(a) BY <2>2 DEF Fits, Unsplit
  <2> QED BY <2>1, <2>3
<1>8. ~raspi => F(Props("-device", device))
  <2>1. PICK a : a = Props("-device", device) OBVIOUS
  <2>2. a.flag = "-device" /\ a.words = {} /\ a.paths = {} BY <2>1, PropsFields
  <2>3. ~raspi => F(a) BY <2>2 DEF Fits, Unsplit
  <2> QED BY <2>1, <2>3
<1> HIDE DEF F, given, machine
<1>9. CASE i = 1
  <2>1. args = <<>> BY <1>9 DEF BoardArgs
  <2> QED BY <2>1, FewFit
<1>10. CASE i = 2
  <2>1. args = <<machine>> BY <1>10 DEF BoardArgs, machine, given
  <2> QED BY <2>1, <1>2, FewFit DEF F
<1>11. CASE i = 3
  <2>1. args = <<>> \/ args = <<Words("-cpu", {spec.cpu}), Numbers("-smp", {spec.vcpus}),
                         Numbers("-m", {spec.memoryMb})>>
    BY <1>11 DEF BoardArgs, When
  <2> QED BY <2>1, <1>3, FewFit DEF F
<1>12. CASE i = 4
  <2>1. args = <<>> \/ \E name : args \in ResolveBootArtifact("-kernel", name, o.imageStore)
    BY <1>12 DEF BoardArgs, IfGiven
  <2> QED BY <2>1, <1>4, FewFit
<1>13. CASE i = 5
  <2>1. args = <<>> \/ \E name : args \in ResolveBootArtifact("-initrd", name, o.imageStore)
    BY <1>13 DEF BoardArgs, IfGiven
  <2> QED BY <2>1, <1>4, FewFit
<1>14. CASE i = 6
  <2>1. args = <<>> \/ \E name : args \in ResolveBootArtifact("-dtb", name, o.imageStore)
    BY <1>14 DEF BoardArgs, IfGiven
  <2> QED BY <2>1, <1>4, FewFit
<1>15. CASE i = 7
  <2> DEFINE line == CHOOSE x \in spec.appendCmdline : TRUE
  <2>1. BoardArgs(spec, o)[7]
        = IF spec.appendCmdline = {} THEN {<<>>} ELSE {<<Words("-append", {line})>>}
    BY DEF BoardArgs, IfGiven
  <2> HIDE DEF line
  <2>2. args = <<>> \/ args = <<Words("-append", {line})>> BY <1>15, <2>1
  <2> QED BY <2>2, <1>5, FewFit DEF F
<1>16. CASE i = 8
  <2>1. args = <<Arg("-nodefaults"), Arg("-nographic"), Arg("-S")>> BY <1>16 DEF BoardArgs
  <2> QED BY <2>1, <1>6, FewFit DEF F
<1>17. CASE i = 9
  <2>1. args = <<>> \/ (spec.display = "vnc" /\ args = <<Props("-vnc", {"127.0.0.1", "password"})>>)
    BY <1>17 DEF BoardArgs, When
  <2> QED BY <2>1, <1>7, FewFit DEF F
<1>18. CASE i = 10
  <2>1. args = <<>> \/ (~raspi /\ args = <<Props("-device", device)>>)
    BY <1>18 DEF BoardArgs, When
  <2> QED BY <2>1, <1>8, FewFit DEF F
<1> QED BY <1>9, <1>10, <1>11, <1>12, <1>13, <1>14, <1>15, <1>16, <1>17, <1>18

\* A disk.
LEMMA DriveFits ==
    ASSUME NEW spec, NEW o, IsPath(o.imageStore.dir), NEW disk,
           disk.format # "cdrom", disk.interface # "cdrom",
           NEW args \in BuildDriveArgs(disk, o.imageStore)
    PROVE  AllFit(args, spec, o)
<1> DEFINE props == {disk.format, disk.interface, "disk"}
                    \cup (IF disk.readonly THEN {"readonly"} ELSE {})
<1>1. PICK path \in ResolveImagePath(disk.image, o.imageStore) :
           args = <<Files("-drive", {EscapePath(path)}, props)>>
  BY DEF BuildDriveArgs
<1>2. "cdrom" \notin props OBVIOUS
<1> HIDE DEF props
<1>3. Below(EscapePath(path), EscapePath(o.imageStore.dir), o.imageStore)
      /\ \A i \in DOMAIN EscapePath(path) : ~Splits(EscapePath(path)[i])
  BY ResolvedIsInStore DEF ResolveImagePath
<1>4. PICK a : a = Files("-drive", {EscapePath(path)}, props) OBVIOUS
<1>5. a.flag = "-drive" /\ a.words = {} /\ a.paths = {EscapePath(path)} /\ a.props = props
  BY <1>4, FilesFields
<1>6. Fits(a, spec, o) BY <1>2, <1>3, <1>5 DEF Fits, Unsplit
<1> QED BY <1>1, <1>4, <1>6, FewFit

\* The CD-ROM.
LEMMA CdromFits ==
    ASSUME NEW spec, NEW o, IsPath(o.isoStore.dir), NEW iso,
           NEW args \in BuildCdromArgs(iso, o.isoStore)
    PROVE  AllFit(args, spec, o)
<1> DEFINE props == {"cdrom", "readonly", "raw"}
<1>1. PICK path \in ResolveIsoPath(iso, o.isoStore) :
           args = <<Files("-drive", {EscapePath(path)}, props)>>
  BY DEF BuildCdromArgs
<1>2. "cdrom" \in props OBVIOUS
<1> HIDE DEF props
<1>3. Below(EscapePath(path), EscapePath(o.isoStore.dir), o.isoStore)
      /\ \A i \in DOMAIN EscapePath(path) : ~Splits(EscapePath(path)[i])
  BY ResolvedIsInStore DEF ResolveIsoPath
<1>4. PICK a : a = Files("-drive", {EscapePath(path)}, props) OBVIOUS
<1>5. a.flag = "-drive" /\ a.words = {} /\ a.paths = {EscapePath(path)} /\ a.props = props
  BY <1>4, FilesFields
<1>6. Fits(a, spec, o) BY <1>2, <1>3, <1>5 DEF Fits, Unsplit
<1> QED BY <1>1, <1>4, <1>6, FewFit

\* The shared directory: for a board with PCI, and as writable as the operator says.
LEMMA ShareFits ==
    ASSUME NEW spec, NEW o, NEW args \in BuildShareArgs(o, IsRaspiMachine(spec.machine))
    PROVE  AllFit(args, spec, o)
<1> DEFINE path == <<EscapeQemuOptsValue(o.hostShareDir)>>
           props == IF o.shareReadonly # {FALSE} THEN {"readonly"} ELSE {}
<1>1. /\ o.hostShareDir # "" /\ ~IsRaspiMachine(spec.machine)
      /\ args = <<Files("-fsdev", {path}, props), Props("-device", {"virtio-9p-pci"})>>
  BY DEF BuildShareArgs
<1>2. "readonly" \in props <=> o.shareReadonly # {FALSE} OBVIOUS
<1>3. \A i \in DOMAIN path : ~Splits(path[i])
  <2>1. DOMAIN path = {1} /\ path[1] = EscapeQemuOptsValue(o.hostShareDir) OBVIOUS
  <2> HIDE DEF path
  <2> QED BY <2>1, EscapedDoesNotSplit
<1> HIDE DEF path, props
<1>4. PICK a : a = Files("-fsdev", {path}, props) OBVIOUS
<1>5. a.flag = "-fsdev" /\ a.words = {} /\ a.paths = {path} /\ a.props = props
  BY <1>4, FilesFields
<1>6. Fits(a, spec, o) BY <1>1, <1>2, <1>3, <1>5 DEF Fits, Unsplit
<1>7. PICK d : d = Props("-device", {"virtio-9p-pci"}) OBVIOUS
<1>8. d.flag = "-device" /\ d.words = {} /\ d.paths = {} BY <1>7, PropsFields
<1>9. Fits(d, spec, o) BY <1>1, <1>8 DEF Fits, Unsplit
<1> QED BY <1>1, <1>4, <1>6, <1>7, <1>9, FewFit

\* The serial console, whatever it is kept in.
LEMMA SerialFits ==
    ASSUME NEW spec, NEW o, NEW args \in BuildSerialArgs(o, spec),
           o.serialBackend \in {"ringbuf", "spool", "socket"}
    PROVE  AllFit(args, spec, o)
<1>1. PICK c : /\ args = <<c, Arg("-serial")>>
               /\ \/ c = Numbers("-chardev", {o.serialBufferBytes})
                  \/ \E path : c = Files("-chardev", {EscapePath(path)}, {"file"})
                  \/ c = Files("-chardev", {EscapePath(SerialSocketPath(o.qmpSocketPath))},
                               {"socket"})
  BY DEF BuildSerialArgs
<1>2. \A path : \A i \in DOMAIN EscapePath(path) : ~Splits(EscapePath(path)[i])
  BY EscapedDoesNotSplit DEF EscapePath
<1>3. /\ c.flag = "-chardev" /\ c.words = {}
      /\ c.paths = {} \/ \E path : c.paths = {EscapePath(path)}
  <2>1. CASE c = Numbers("-chardev", {o.serialBufferBytes}) BY <2>1, NumbersFields
  <2>2. ASSUME NEW path, NEW props, c = Files("-chardev", {EscapePath(path)}, props)
        PROVE  c.flag = "-chardev" /\ c.words = {} /\ c.paths = {EscapePath(path)}
    BY <2>2, FilesFields
  <2> QED BY <1>1, <2>1, <2>2
<1>4. Fits(c, spec, o) BY <1>2, <1>3 DEF Fits, Unsplit
<1>5. Fits(Arg("-serial"), spec, o)
  <2>1. /\ Arg("-serial").flag = "-serial"
        /\ Arg("-serial").words = {} /\ Arg("-serial").paths = {}
    BY ArgFields
  <2> QED BY <2>1, PlainFits
<1> QED BY <1>1, <1>4, <1>5, FewFit

\* The network: the operator's ports, and the host's own only where allowed.
LEMMA NetworkFits ==
    ASSUME NEW spec, NEW o, NEW args \in BuildNetworkArgs(spec.network, spec.machine, o)
    PROVE  AllFit(args, spec, o)
<1> DEFINE network == spec.network
           ports == {network.hostForwards[i].hostPort : i \in DOMAIN network.hostForwards}
           device == Props("-device", {network.model})
           given == Props("-netdev", {"user", "127.0.0.1"})
           user == [given EXCEPT !.numbers = ports]
           other == Props("-netdev", {network.mode})
           raspi == IsRaspiMachine(spec.machine)
<1>1. \/ args = <<>>
      \/ /\ ~(IsPci(network.model) /\ raspi)
         /\ \/ /\ \A p \in ports : p >= o.hostfwdPortRange.low /\ p <= o.hostfwdPortRange.high
               /\ args = <<user, device>>
            \/ /\ o.allowHostNet /\ args = <<other, device>>
  <2> HIDE DEF raspi
  <2> QED BY DEF BuildNetworkArgs, raspi
<1>2. user = Shape("-netdev", {}, {}, {"user", "127.0.0.1"}, ports)
  <2>1. given = Shape("-netdev", {}, {}, {"user", "127.0.0.1"}, {}) BY PropsShape
  <2> HIDE DEF given, ports
  <2> QED BY <2>1, WithNumbers
<1> HIDE DEF user, other, ports
<1>3. /\ user.flag = "-netdev" /\ user.props = {"user", "127.0.0.1"} /\ user.numbers = ports
      /\ user.words = {} /\ user.paths = {}
  BY <1>2, ShapeFields
<1>4. (\A p \in ports : p >= o.hostfwdPortRange.low /\ p <= o.hostfwdPortRange.high)
      => Fits(user, spec, o)
  BY <1>3 DEF Fits, Unsplit
<1>5. o.allowHostNet => Fits(other, spec, o)
  <2>1. other.flag = "-netdev" /\ other.numbers = {} /\ other.words = {} /\ other.paths = {}
    BY PropsFields DEF other
  <2> QED BY <2>1 DEF Fits, Unsplit
<1>6. ~(IsPci(network.model) /\ raspi) => Fits(device, spec, o)
  <2>1. /\ device.flag = "-device" /\ device.props = {network.model}
        /\ device.words = {} /\ device.paths = {}
    BY PropsFields
  <2> HIDE DEF device
  <2> QED BY <2>1 DEF Fits, IsPci, Unsplit
<1> HIDE DEF device
<1> QED BY <1>1, <1>4, <1>5, <1>6, FewFit

\* The parts after the disks.
LEMMA DeviceFits ==
    ASSUME NEW spec, NEW o, IsPath(o.imageStore.dir), IsPath(o.isoStore.dir),
           o.serialBackend \in {"ringbuf", "spool", "socket"},
           Len(spec.extraArgs) \in Nat, DOMAIN spec.extraArgs = 1..Len(spec.extraArgs),
           NEW i \in 1..7, NEW args \in DeviceArgs(spec, o)[i]
    PROVE  AllFit(args, spec, o)
<1>1. CASE i = 1
  <2>1. args = <<>> \/ \E iso : args \in BuildCdromArgs(iso, o.isoStore)
    BY <1>1 DEF DeviceArgs, IfGiven
  <2> QED BY <2>1, CdromFits, FewFit
<1>2. CASE i = 2
  <2>1. args = <<>> \/ args \in BuildShareArgs(o, IsRaspiMachine(spec.machine))
    BY <1>2 DEF DeviceArgs
  <2> QED BY <2>1, ShareFits, FewFit
<1>3. CASE i = 3
  <2>1. args = <<>> \/ args \in BuildSerialArgs(o, spec) BY <1>3 DEF DeviceArgs
  <2> QED BY <2>1, SerialFits, FewFit
<1>4. CASE i = 4
  <2> DEFINE b == CHOOSE x \in spec.boot : TRUE
  <2>1. DeviceArgs(spec, o)[4]
        = IF spec.boot = {} THEN {<<>>} ELSE {<<Words("-boot", {EscapeQemuOptsValue(b)})>>}
    BY DEF DeviceArgs, IfGiven
  <2> HIDE DEF b
  <2>2. args = <<>> \/ args = <<Words("-boot", {EscapeQemuOptsValue(b)})>> BY <1>4, <2>1
  <2>3. PICK a : a = Words("-boot", {EscapeQemuOptsValue(b)}) OBVIOUS
  <2>4. a.flag = "-boot" /\ a.words = {EscapeQemuOptsValue(b)} /\ a.paths = {}
    BY <2>3, WordsFields
  <2>5. Fits(a, spec, o) BY <2>4, EscapedDoesNotSplit DEF Fits, Unsplit
  <2> QED BY <2>2, <2>3, <2>5, FewFit
<1>5. CASE i = 5
  <2>1. args \in BuildNetworkArgs(spec.network, spec.machine, o) BY <1>5 DEF DeviceArgs
  <2> QED BY <2>1, NetworkFits
<1>6. CASE i = 6
  <2>1. args = <<Files("-qmp", {o.qmpSocketPath}, {"server"})>> BY <1>6 DEF DeviceArgs
  <2>2. PICK a : a = Files("-qmp", {o.qmpSocketPath}, {"server"}) OBVIOUS
  <2>3. a.flag = "-qmp" BY <2>2, FilesFields
  <2>4. Fits(a, spec, o) BY <2>3, PlainFits
  <2> QED BY <2>1, <2>2, <2>4, FewFit
<1>7. CASE i = 7
  <2> DEFINE raw == [k \in DOMAIN spec.extraArgs |-> Words("raw", {spec.extraArgs[k]})]
  <2>1. (spec.extraArgs = <<>> \/ o.allowRawArgs) /\ args = raw BY <1>7 DEF DeviceArgs
  <2>2. \A k \in DOMAIN raw : raw[k].flag = "raw" BY WordsFields
  <2>3. DOMAIN args = DOMAIN spec.extraArgs BY <2>1
  <2>4. args \in Seq({args[k] : k \in DOMAIN args})
    <3> DEFINE n == Len(spec.extraArgs)
               S == {args[k] : k \in DOMAIN args}
    <3>1. args \in [1..n -> S] BY <2>1, <2>3
    <3> HIDE DEF n, S
    <3>2. n \in Nat BY DEF n
    <3>3. args \in Seq(S) BY <3>1, <3>2
    <3> QED BY <3>3 DEF S
  <2>5. ASSUME NEW k \in DOMAIN args PROVE Fits(args[k], spec, o)
    <3>1. o.allowRawArgs BY <2>1, <2>3, <2>5
    <3>2. args[k].flag = "raw" BY <2>1, <2>2
    <3> QED BY <3>1, <3>2 DEF Fits, NotParsed
  <2> QED BY <2>4, <2>5 DEF AllFit
<1> QED BY <1>1, <1>2, <1>3, <1>4, <1>5, <1>6, <1>7

-----------------------------------------------------------------------------
(* The launch.                                                              *)

\* What a valid candidate becomes.
LEMMA ParsedSpec ==
    ASSUME NEW w \in Worlds, NEW candidate \in w.specs, NEW spec \in ParseHardwareSpec(candidate)
    PROVE  /\ spec = WithDefaults(candidate)
           /\ IsValidMachineCpu(spec.cpu) /\ spec.accel \in AccelMode
           /\ Len(spec.disks) \in Nat /\ DOMAIN spec.disks = 1..Len(spec.disks)
           /\ Len(spec.extraArgs) \in Nat /\ DOMAIN spec.extraArgs = 1..Len(spec.extraArgs)
           /\ \A i \in DOMAIN spec.disks :
                spec.disks[i].format # "cdrom" /\ spec.disks[i].interface # "cdrom"
<1>0. spec = WithDefaults(candidate) /\ Deserializes(candidate) /\ ValidSpec(spec)
  BY DEF ParseHardwareSpec
<1>1. /\ spec = WithDefaults(candidate) /\ Deserializes(candidate)
      /\ IsValidMachineCpu(spec.cpu)
  BY <1>0, SMT DEF ValidSpec
<1>2. /\ {"disks", "extraArgs"} \subseteq DOMAIN HardwareSpecParams
      /\ HardwareSpecParams.disks = <<>> /\ HardwareSpecParams.extraArgs = <<>>
  BY DEF HardwareSpecParams
<1>3. ASSUME NEW f \in {"disks", "extraArgs"}
      PROVE  Len(spec[f]) \in Nat /\ DOMAIN spec[f] = 1..Len(spec[f])
  <2>1. spec[f] = IF f \in DOMAIN candidate THEN candidate[f] ELSE <<>>
    BY <1>1, <1>2 DEF WithDefaults
  <2>2. CASE f \in DOMAIN candidate BY <2>1, <2>2, WorldsAssumption
  <2>3. CASE f \notin DOMAIN candidate
    <3>1. spec[f] = <<>> BY <2>1, <2>3
    <3>2. Len(<<>>) = 0 /\ DOMAIN <<>> = 1..0 OBVIOUS
    <3> QED BY <3>1, <3>2
  <2> QED BY <2>2, <2>3
<1>4. ASSUME NEW i \in DOMAIN spec.disks
      PROVE  spec.disks[i].format # "cdrom" /\ spec.disks[i].interface # "cdrom"
  <2>1. spec.disks[i].interface \in DiskInterface /\ spec.disks[i].format \in ImageFormat
    BY <1>1 DEF Deserializes
  <2> QED BY <2>1 DEF DiskInterface, ImageFormat
<1>5. spec.accel \in AccelMode BY <1>1 DEF Deserializes
<1> QED BY <1>1, <1>3, <1>4, <1>5

\* A store's directory is a path.
LEMMA StoreDirIsPath ==
    ASSUME NEW env, NEW var, NEW leaf
    PROVE  IsPath(ResolveStoreDir(env, var, leaf))
<1> DEFINE dir == ResolveStoreDir(env, var, leaf)
<1>1. \/ \E a : dir = <<a>>
      \/ \E a, b, c : dir = <<a, b, c>>
      \/ \E a, b, c, d, e : dir = <<a, b, c, d, e>>
  BY DEF ResolveStoreDir
<1> HIDE DEF dir
<1>2. ASSUME NEW a, dir = <<a>> PROVE IsPath(dir)
  <2>1. DOMAIN dir = {1} /\ dir[1] = a BY <1>2
  <2>2. {dir[i] : i \in DOMAIN dir} = {a} BY <2>1
  <2>3. dir \in Seq({a}) BY <1>2
  <2> QED BY <2>2, <2>3 DEF IsPath
<1>3. ASSUME NEW a, NEW b, NEW c, dir = <<a, b, c>> PROVE IsPath(dir)
  <2>1. DOMAIN dir = {1, 2, 3} /\ dir[1] = a /\ dir[2] = b /\ dir[3] = c BY <1>3
  <2>2. {dir[i] : i \in DOMAIN dir} = {a, b, c} BY <2>1
  <2>3. dir \in Seq({a, b, c}) BY <1>3
  <2> QED BY <2>2, <2>3 DEF IsPath
<1>4. ASSUME NEW a, NEW b, NEW c, NEW d, NEW e, dir = <<a, b, c, d, e>> PROVE IsPath(dir)
  <2>1. DOMAIN dir = {1, 2, 3, 4, 5} /\ dir[1] = a /\ dir[2] = b /\ dir[3] = c
        /\ dir[4] = d /\ dir[5] = e
    BY <1>4
  <2>2. {dir[i] : i \in DOMAIN dir} = {a, b, c, d, e} BY <2>1
  <2>3. dir \in Seq({a, b, c, d, e}) BY <1>4
  <2> QED BY <2>2, <2>3 DEF IsPath
<1> QED BY <1>1, <1>2, <1>3, <1>4 DEF dir

\* The options' fields.
LEMMA OptionsSay ==
    ASSUME Started, config # {}, NEW accel, NEW o, o = OrchestratorOptions(accel)
    PROVE  /\ IsPath(o.imageStore.dir) /\ IsPath(o.isoStore.dir)
           /\ o.imageStore.dir = ImageRoot /\ o.isoStore.dir = IsoRoot
           /\ o.imageStore.there = world.images.there /\ o.imageStore.entries = images
           /\ o.isoStore.there = world.isos.there /\ o.isoStore.entries = world.isos.entries
           /\ o.serialBackend \in {"ringbuf", "spool", "socket"}
<1> DEFINE env == world.env
<1>1. Cfg \in LoadConfig(env) BY CfgIsLoaded
<1> HIDE DEF env
<1>2. /\ Cfg.imageDir = ResolveImageDir(env) /\ Cfg.isoDir = ResolveIsoDir(env)
      /\ Cfg.serialBackend
           \in ParseEnum(Get(env, "QMP_MCP_SERIAL_BACKEND"), SerialBackend, "ringbuf")
  BY <1>1, LoadedPlaces
<1>3. IsPath(Cfg.imageDir) /\ IsPath(Cfg.isoDir)
  BY <1>2, StoreDirIsPath DEF ResolveImageDir, ResolveIsoDir
<1>4. Cfg.serialBackend \in {"ringbuf", "spool", "socket"}
  BY <1>2, EnumSaid DEF SerialBackend
<1>5. /\ o.imageStore = ImageStore /\ o.isoStore = IsoStore /\ o.serialBackend = Cfg.serialBackend
  BY DEF OrchestratorOptions
<1>6. /\ ImageStore.dir = Cfg.imageDir /\ ImageStore.there = world.images.there
      /\ ImageStore.entries = images
      /\ IsoStore.dir = Cfg.isoDir /\ IsoStore.there = world.isos.there
      /\ IsoStore.entries = world.isos.entries
  BY DEF ImageStore, IsoStore, Store
<1> QED BY <1>2, <1>3, <1>4, <1>5, <1>6 DEF ImageRoot, IsoRoot, env

\* The parts are ten and seven.
LEMMA PartsAre ==
    ASSUME NEW spec, NEW o
    PROVE  /\ BoardArgs(spec, o) = [i \in 1..10 |-> BoardArgs(spec, o)[i]]
           /\ DeviceArgs(spec, o) = [i \in 1..7 |-> DeviceArgs(spec, o)[i]]
           /\ Len(BoardArgs(spec, o)) = 10 /\ Len(DeviceArgs(spec, o)) = 7
<1>1. \E a, b, c, d, e, f, g : DeviceArgs(spec, o) = <<a, b, c, d, e, f, g>>
  BY Zenon DEF DeviceArgs
<1>2. \E a, b, c, d, e, f, g, h, i, j : BoardArgs(spec, o) = <<a, b, c, d, e, f, g, h, i, j>>
  BY ZenonT(60) DEF BoardArgs
<1>3. ASSUME NEW w, NEW a, NEW b, NEW c, NEW d, NEW e, NEW f, NEW g, w = <<a, b, c, d, e, f, g>>
      PROVE  Len(w) = 7 /\ w = [k \in 1..7 |-> w[k]]
  BY <1>3
<1>4. ASSUME NEW w, NEW a, NEW b, NEW c, NEW d, NEW e, NEW f, NEW g, NEW h, NEW i, NEW j,
             w = <<a, b, c, d, e, f, g, h, i, j>>
      PROVE  Len(w) = 10 /\ w = [k \in 1..10 |-> w[k]]
  BY <1>4
<1>5. Len(DeviceArgs(spec, o)) = 7 /\ DeviceArgs(spec, o) = [k \in 1..7 |-> DeviceArgs(spec, o)[k]]
  BY <1>1, <1>3
<1>6. Len(BoardArgs(spec, o)) = 10 /\ BoardArgs(spec, o) = [k \in 1..10 |-> BoardArgs(spec, o)[k]]
  BY <1>2, <1>4
<1> QED BY <1>5, <1>6

\* A function on the first numbers is a sequence.
LEMMA IsASequence ==
    ASSUME NEW n \in Nat, NEW P, NEW f \in [1..n -> P]
    PROVE  f \in Seq(P)
OBVIOUS

\* Every argument of a vector fits, and the caps and the display are checked.
LEMMA ArgvFits ==
    ASSUME NEW spec, NEW o, NEW argv \in BuildArgv(spec, o),
           IsValidMachineCpu(spec.cpu), IsPath(o.imageStore.dir), IsPath(o.isoStore.dir),
           o.serialBackend \in {"ringbuf", "spool", "socket"},
           Len(spec.disks) \in Nat, DOMAIN spec.disks = 1..Len(spec.disks),
           Len(spec.extraArgs) \in Nat, DOMAIN spec.extraArgs = 1..Len(spec.extraArgs),
           \A i \in DOMAIN spec.disks :
              spec.disks[i].format # "cdrom" /\ spec.disks[i].interface # "cdrom"
    PROVE  /\ \A k \in DOMAIN argv : Fits(argv[k], spec, o)
           /\ spec.memoryMb <= o.maxMemoryMb /\ spec.vcpus <= o.maxVcpus
<1> DEFINE board == BoardArgs(spec, o)
           device == DeviceArgs(spec, o)
           drive(i) == BuildDriveArgs(spec.disks[i], o.imageStore)
           pieces == UNION ({board[i] : i \in 1..10} \cup {device[i] : i \in 1..7}
                            \cup {drive(i) : i \in 1..Len(spec.disks)})
           S == {a \in UNION {{p[k] : k \in DOMAIN p} : p \in pieces} : Fits(a, spec, o)}
<1>1. ASSUME NEW p \in pieces PROVE AllFit(p, spec, o)
  <2>1. CASE \E i \in 1..10 : p \in board[i] BY <2>1, BoardFits
  <2>2. CASE \E i \in 1..7 : p \in device[i] BY <2>2, DeviceFits
  <2>3. CASE \E i \in 1..Len(spec.disks) : p \in drive(i) BY <2>3, DriveFits
  <2> QED BY <2>1, <2>2, <2>3
<1>2. ASSUME NEW p \in pieces PROVE p \in Seq(S)
  <2> DEFINE E == {p[k] : k \in DOMAIN p}
  <2>1. p \in Seq(E) /\ \A k \in DOMAIN p : Fits(p[k], spec, o) BY <1>1 DEF AllFit
  <2>2. E \subseteq S BY <2>1
  <2> HIDE DEF E, S
  <2> QED BY <2>1, <2>2
<1>3. Len(board) = 10 /\ Len(device) = 7 BY PartsAre
<1>4. /\ \A i \in 1..10 : board[i] \subseteq pieces
      /\ \A i \in 1..7 : device[i] \subseteq pieces
      /\ \A i \in 1..Len(spec.disks) : drive(i) \subseteq pieces
  OBVIOUS
<1> HIDE DEF pieces, S
<1>5. /\ \A i \in 1..10 : board[i] \in SUBSET Seq(S)
      /\ \A i \in 1..7 : device[i] \in SUBSET Seq(S)
      /\ \A i \in 1..Len(spec.disks) : drive(i) \subseteq Seq(S)
  BY <1>2, <1>4
<1>6. board \in [1..10 -> SUBSET Seq(S)] /\ device \in [1..7 -> SUBSET Seq(S)]
  <2>1. board = [i \in 1..10 |-> board[i]] /\ device = [i \in 1..7 |-> device[i]]
    BY PartsAre
  <2> HIDE DEF board, device
  <2> QED BY <1>5, <2>1
<1> DEFINE PartSet == SUBSET Seq(S)
<1>7. board \in Seq(SUBSET Seq(S)) /\ device \in Seq(SUBSET Seq(S)) /\ board # <<>>
  <2>1. board \in [1..10 -> PartSet] /\ device \in [1..7 -> PartSet] BY <1>6
  <2> HIDE DEF board, device, PartSet
  <2>2. board \in Seq(PartSet) /\ device \in Seq(PartSet) BY <2>1, IsASequence
  <2>3. board # <<>>
    <3>1. Len(board) # 0 BY <1>3
    <3>2. Len(<<>>) = 0 OBVIOUS
    <3> QED BY <3>1, <3>2, Zenon
  <2> QED BY <2>2, <2>3 DEF PartSet
<1>8. argv \in Seq(S) /\ \A i \in 1..10 : board[i] # {}
  BY <1>3, <1>5, <1>7, ArgvElements
<1>9. \A k \in DOMAIN argv : Fits(argv[k], spec, o)
  <2>1. \A k \in DOMAIN argv : argv[k] \in S BY <1>8
  <2> QED BY <2>1 DEF S
<1>10. AssertWithinResourceCaps(spec, o)
  <2>1. board[1] # {} BY <1>8
  <2>2. board[1] = IF AssertWithinResourceCaps(spec, o) THEN {<<>>} ELSE {} BY DEF BoardArgs
  <2> QED BY <2>1, <2>2
<1> QED BY <1>9, <1>10 DEF AssertWithinResourceCaps

\* What runs is what was asked for, within the options of this start.
SoundLaunch(i) ==
    /\ i.spec.accel \in AccelMode
    /\ \A k \in DOMAIN i.argv : Fits(i.argv[k], i.spec, OrchestratorOptions(i.accel))
    /\ i.spec.memoryMb <= Cfg.maxMemoryMb /\ i.spec.vcpus <= Cfg.maxVcpus
    /\ i.spec.display = "vnc" => AssertViewerConfigured
    /\ i.accel \in ResolveAccel(i.spec.accel, QemuArchOfBinary(i.binary), world.host.arch,
                                i.spec.machine, world.host.kvm)

\* What is launched is a valid specification, put together.
LEMMA LaunchedFrom ==
    ASSUME NEW candidate, NEW i \in LaunchInstance(candidate)
    PROVE  \E spec, binary, accel, argv :
             /\ spec \in ParseHardwareSpec(candidate)
             /\ spec.display = "vnc" => AssertViewerConfigured
             /\ accel \in ResolveAccel(spec.accel, QemuArchOfBinary(binary), world.host.arch,
                                       spec.machine, world.host.kvm)
             /\ argv \in BuildArgv(spec, OrchestratorOptions(accel))
             /\ i = [binary |-> binary, accel |-> accel, spec |-> spec, argv |-> argv]
<1> DEFINE B(spec) == IF Cfg.qemuBinaryOverride = "" THEN QemuBinaryForMachine(spec.machine)
                      ELSE Binary(Cfg.qemuBinaryOverride)
           R(spec) == ResolveAccel(spec.accel, QemuArchOfBinary(B(spec)), world.host.arch,
                                   spec.machine, world.host.kvm)
           L(spec, accel) == {[binary |-> B(spec), accel |-> accel, spec |-> spec, argv |-> argv]
                              : argv \in BuildArgv(spec, OrchestratorOptions(accel))}
           S == {s \in ParseHardwareSpec(candidate) :
                    /\ s.display = "vnc" => AssertViewerConfigured
                    /\ s.serial /\ Cfg.serialBackend = "socket" => ~world.host.serialSocket}
<1>1. LaunchInstance(candidate)
      = UNION {UNION {L(spec, accel) : accel \in R(spec)} : spec \in S}
  BY Zenon DEF LaunchInstance
<1>2. PICK spec \in S : i \in UNION {L(spec, accel) : accel \in R(spec)}
  <2> HIDE DEF S, L, R
  <2> QED BY <1>1
<1>3. PICK accel \in R(spec) : i \in L(spec, accel)
  <2> HIDE DEF S, L, R
  <2> QED BY <1>2
<1>4. PICK argv \in BuildArgv(spec, OrchestratorOptions(accel)) :
           i = [binary |-> B(spec), accel |-> accel, spec |-> spec, argv |-> argv]
  BY <1>3
<1>5. spec \in ParseHardwareSpec(candidate) /\ (spec.display = "vnc" => AssertViewerConfigured)
  BY <1>2
<1> HIDE DEF B, S
<1> QED BY <1>3, <1>4, <1>5

\* What is launched is sound.
LEMMA LaunchIsSound ==
    ASSUME Started, config # {}, NEW candidate \in world.specs, NEW i \in LaunchInstance(candidate)
    PROVE  SoundLaunch(i) /\ i.spec = WithDefaults(candidate)
<1>1. PICK spec, binary, accel, argv :
         /\ spec \in ParseHardwareSpec(candidate)
         /\ spec.display = "vnc" => AssertViewerConfigured
         /\ accel \in ResolveAccel(spec.accel, QemuArchOfBinary(binary), world.host.arch,
                                   spec.machine, world.host.kvm)
         /\ argv \in BuildArgv(spec, OrchestratorOptions(accel))
         /\ i = [binary |-> binary, accel |-> accel, spec |-> spec, argv |-> argv]
  BY LaunchedFrom
<1>2. i.binary = binary /\ i.accel = accel /\ i.spec = spec /\ i.argv = argv BY <1>1
<1>3. PICK o : o = OrchestratorOptions(accel) OBVIOUS
<1>4. o.maxMemoryMb = Cfg.maxMemoryMb /\ o.maxVcpus = Cfg.maxVcpus
  BY <1>3 DEF OrchestratorOptions
<1>5. world \in Worlds BY DEF Started
<1>6. /\ \A k \in DOMAIN argv : Fits(argv[k], spec, o)
      /\ spec.memoryMb <= o.maxMemoryMb /\ spec.vcpus <= o.maxVcpus
  <2>1. argv \in BuildArgv(spec, o) BY <1>1, <1>3
  <2>2. /\ IsPath(o.imageStore.dir) /\ IsPath(o.isoStore.dir)
        /\ o.serialBackend \in {"ringbuf", "spool", "socket"}
    BY <1>3, OptionsSay
  <2>3. /\ IsValidMachineCpu(spec.cpu)
        /\ Len(spec.disks) \in Nat /\ DOMAIN spec.disks = 1..Len(spec.disks)
        /\ Len(spec.extraArgs) \in Nat /\ DOMAIN spec.extraArgs = 1..Len(spec.extraArgs)
        /\ \A k \in DOMAIN spec.disks :
              spec.disks[k].format # "cdrom" /\ spec.disks[k].interface # "cdrom"
    BY <1>1, <1>5, ParsedSpec
  <2> QED BY <2>1, <2>2, <2>3, ArgvFits
<1>7. spec = WithDefaults(candidate) /\ spec.accel \in AccelMode BY <1>1, <1>5, ParsedSpec
<1>8. /\ \A k \in DOMAIN argv : Fits(argv[k], spec, OrchestratorOptions(accel))
      /\ spec.memoryMb <= Cfg.maxMemoryMb /\ spec.vcpus <= Cfg.maxVcpus
  BY <1>3, <1>4, <1>6
<1>9. SoundLaunch(i) BY <1>1, <1>2, <1>7, <1>8 DEF SoundLaunch
<1> QED BY <1>2, <1>7, <1>9

-----------------------------------------------------------------------------
(* What a step leaves.                                                      *)

\* Before there is a Config nothing is done.
LEMMA NothingBefore ==
    ASSUME Started, [Next]_vars, config = {}
    PROVE  Pristine'
<1>1. Pristine BY DEF Started
<1>2. CASE ReadConfig BY <1>1, <1>2 DEF ReadConfig, Pristine, store, answers
<1>3. CASE UNCHANGED vars BY <1>1, <1>3 DEF vars, store, answers, Pristine
<1>4. ASSUME Called PROVE FALSE BY <1>4, ToolsNeedAConfig
<1>5. ASSUME NEW c \in Creator, QemuImgWrites(c) \/ CreateImageEnds(c) \/ CreateImageFails(c)
      PROVE  FALSE
  <2>1. creating[c].at # "idle"
    BY <1>5 DEF QemuImgWrites, CreateImageEnds, CreateImageFails
  <2>2. creating[c] = Idle BY <1>1 DEF Pristine
  <2>3. Idle.at = "idle" BY DEF Idle
  <2> QED BY <2>1, <2>2, <2>3
<1>6. ASSUME NEW request, HttpRequest(request) \/ HttpRefused(request) PROVE FALSE
  BY <1>1, <1>6 DEF HttpRequest, HttpRefused, Pristine
<1>7. ~InitLogging /\ ~ResolveCommandPolicy /\ ~LoadIsoCatalog /\ ~Bind /\ ~Stop
  BY DEF Started, InitLogging, ResolveCommandPolicy, LoadIsoCatalog, Bind, Stop
<1> QED BY <1>2, <1>3, <1>4, <1>5, <1>6, <1>7
    DEF Next, CreateInstance, DestroyInstance, ExecuteCommand, CreateImageRefused,
        CreateImage, ListImagesTool, ListIsosTool, ListFiles, DownloadIso

\* The images only become more, and what is new is a file.
LEMMA ImagesGrow ==
    ASSUME Started, [Next]_vars, config # {}
    PROVE  /\ DOMAIN images \subseteq DOMAIN images'
           /\ \A name \in DOMAIN images' :
                \/ images'[name] = "file"
                \/ name \in DOMAIN images /\ images'[name] = images[name]
<1>1. CASE images' = images BY <1>1
<1>2. ASSUME NEW c \in Creator, QemuImgWrites(c)
      PROVE  /\ DOMAIN images \subseteq DOMAIN images'
             /\ \A name \in DOMAIN images' :
                  \/ images'[name] = "file"
                  \/ name \in DOMAIN images /\ images'[name] = images[name]
  BY <1>2 DEF QemuImgWrites, Put
<1>3. CASE ~ \E c \in Creator : QemuImgWrites(c)
  BY <1>1, <1>3
    DEF Next, vars, store, ReadConfig, InitLogging, ResolveCommandPolicy, LoadIsoCatalog,
        Bind, Stop, HttpRequest, HttpRefused, CreateInstance, DestroyInstance, ExecuteCommand,
        CreateImageRefused, CreateImage, CreateImageEnds, CreateImageFails, ListImagesTool,
        ListIsosTool, ListFiles, DownloadIso
<1> QED BY <1>2, <1>3

-----------------------------------------------------------------------------
(* What runs.                                                               *)

\* An argument goes on fitting while the Image Store only grows.
LEMMA StillFits ==
    ASSUME NEW a, NEW spec, NEW o, NEW p, Fits(a, spec, o),
           p.allowHostNet = o.allowHostNet, p.hostfwdPortRange = o.hostfwdPortRange,
           p.hostShareDir = o.hostShareDir, p.shareReadonly = o.shareReadonly,
           p.allowRawArgs = o.allowRawArgs, p.isoStore = o.isoStore,
           p.imageStore.there = o.imageStore.there, p.imageStore.dir = o.imageStore.dir,
           \A name \in DOMAIN p.imageStore.entries :
              \/ p.imageStore.entries[name] = "file"
              \/ /\ name \in DOMAIN o.imageStore.entries
                 /\ p.imageStore.entries[name] = o.imageStore.entries[name]
    PROVE  Fits(a, spec, p)
<1>1. \A path, root : Below(path, root, o.imageStore) => Below(path, root, p.imageStore)
  BY DEF InStore, Below
<1> QED BY <1>1 DEF Fits

\* What runs is sound, and is one specification.
Launched ==
    /\ \A i \in instance : SoundLaunch(i)
    /\ \A i, j \in instance : i.spec = j.spec

\* What is launched is sound, and stays so: the Config stays, the host stays,
\* and nothing of the Image Store goes away.
LEMMA SoundStays ==
    ASSUME Started, [Next]_vars, config # {}, NEW i, SoundLaunch(i)
    PROVE  SoundLaunch(i)'
<1>1. Cfg' = Cfg /\ world' = world BY CfgStays
<1>2. PICK o : o = OrchestratorOptions(i.accel) OBVIOUS
<1>3. PICK p : p = OrchestratorOptions(i.accel)' OBVIOUS
<1>4. /\ p.allowHostNet = o.allowHostNet /\ p.hostfwdPortRange = o.hostfwdPortRange
      /\ p.hostShareDir = o.hostShareDir /\ p.shareReadonly = o.shareReadonly
      /\ p.allowRawArgs = o.allowRawArgs
  BY <1>1, <1>2, <1>3 DEF OrchestratorOptions
<1>5. /\ p.isoStore = o.isoStore
      /\ p.imageStore.there = o.imageStore.there /\ p.imageStore.dir = o.imageStore.dir
      /\ p.imageStore.entries = images' /\ o.imageStore.entries = images
  BY <1>1, <1>2, <1>3 DEF OrchestratorOptions, ImageStore, IsoStore, Store
<1>6. ASSUME NEW k \in DOMAIN i.argv PROVE Fits(i.argv[k], i.spec, p)
  <2>1. Fits(i.argv[k], i.spec, o) BY <1>2 DEF SoundLaunch
  <2> QED BY <2>1, <1>4, <1>5, ImagesGrow, StillFits
<1> QED BY <1>1, <1>3, <1>6 DEF SoundLaunch, AssertViewerConfigured

LEMMA LaunchedNext ==
    ASSUME Started, Launched, [Next]_vars
    PROVE  Launched'
<1>1. CASE instance' = {} BY <1>1 DEF Launched
<1>2. CASE config = {}
  <2>1. instance' = {} BY <1>2, NothingBefore DEF Pristine
  <2> QED BY <1>1, <2>1
<1>3. CASE config # {} /\ instance' = instance
  BY <1>3, SoundStays DEF Launched
<1>4. ASSUME config # {}, NEW candidate \in world.specs, CreateInstance(candidate)
      PROVE  Launched'
  <2>1. \A i \in instance' : SoundLaunch(i) /\ i.spec = WithDefaults(candidate)
    BY <1>4, LaunchIsSound DEF CreateInstance
  <2>2. \A i \in instance' : SoundLaunch(i)' BY <1>4, <2>1, SoundStays
  <2> QED BY <2>1, <2>2 DEF Launched
<1>5. CASE ~ \E candidate \in world.specs : CreateInstance(candidate)
  BY <1>1, <1>2, <1>3, <1>5
    DEF Next, vars, ReadConfig, InitLogging, ResolveCommandPolicy, LoadIsoCatalog, Bind, Stop,
        HttpRequest, HttpRefused, DestroyInstance, ExecuteCommand, CreateImageRefused,
        CreateImage, QemuImgWrites, CreateImageEnds, CreateImageFails, ListImagesTool,
        ListIsosTool, ListFiles, DownloadIso
<1> QED BY <1>2, <1>4, <1>5

-----------------------------------------------------------------------------
(* The operator's limits.                                                   *)

\* An argument of what runs fits, by the options of this start.
LEMMA ArgsFit ==
    ASSUME Started, Launched, NEW flag, NEW a \in Args(flag)
    PROVE  /\ config # {} /\ Cfg \in LoadConfig(world.env) /\ a.flag = flag
           /\ \E i \in instance : SoundLaunch(i) /\ Fits(a, i.spec, OrchestratorOptions(i.accel))
<1>1. PICK i \in instance : a \in {i.argv[k] : k \in DOMAIN i.argv} BY DEF Args
<1>2. SoundLaunch(i) BY DEF Launched
<1>3. Fits(a, i.spec, OrchestratorOptions(i.accel)) BY <1>1, <1>2 DEF SoundLaunch
<1>4. config # {} BY DEF Started, Pristine
<1>5. a.flag = flag BY DEF Args
<1> QED BY <1>2, <1>3, <1>4, <1>5, CfgIsLoaded

\* The fields of the options the limits are about.
LEMMA OptionsLimit ==
    ASSUME NEW accel, NEW o, o = OrchestratorOptions(accel)
    PROVE  /\ o.hostfwdPortRange = Cfg.hostfwdPortRange /\ o.allowHostNet = Cfg.allowHostNet
           /\ o.hostShareDir = Cfg.hostShareDir /\ o.shareReadonly = {~Cfg.allowShareWrite}
           /\ o.allowRawArgs = Cfg.allowRawArgs
BY DEF OrchestratorOptions

\* A cap is the operator's number.
LEMMA CapIsTheOperators ==
    ASSUME NEW raw, NEW default \in Nat, NEW n \in ParsePositiveInt(raw, default)
    PROVE  n = IF IsBlank(raw) THEN default ELSE raw.n
<1> DEFINE range == Nat \ {0}
<1>1. n \in ParseNumber(raw, default, range) BY DEF ParsePositiveInt
<1> HIDE DEF range
<1> QED BY <1>1, NumberSaid

\* The memory and the processors.
LEMMA CapsSay ==
    ASSUME Started, Launched
    PROVE  /\ \A a \in Args("-m") : \A n \in a.numbers : n <= Limit("QMP_MCP_MAX_MEMORY_MB", 4096)
           /\ \A a \in Args("-smp") : \A n \in a.numbers : n <= Limit("QMP_MCP_MAX_VCPUS", 2)
<1>1. ASSUME NEW a \in Args("-m"), NEW n \in a.numbers
      PROVE  n <= Limit("QMP_MCP_MAX_MEMORY_MB", 4096)
  <2>1. PICK i \in instance : SoundLaunch(i) /\ Fits(a, i.spec, OrchestratorOptions(i.accel))
    BY ArgsFit
  <2>2. a.flag = "-m" /\ Cfg \in LoadConfig(world.env) BY ArgsFit
  <2>3. n = i.spec.memoryMb BY <2>1, <2>2 DEF Fits
  <2>4. n <= Cfg.maxMemoryMb BY <2>1, <2>3 DEF SoundLaunch
  <2>5. Cfg.maxMemoryMb = Limit("QMP_MCP_MAX_MEMORY_MB", 4096)
    BY <2>2, LoadedLimits, CapIsTheOperators DEF Limit, Given
  <2> QED BY <2>4, <2>5
<1>2. ASSUME NEW a \in Args("-smp"), NEW n \in a.numbers
      PROVE  n <= Limit("QMP_MCP_MAX_VCPUS", 2)
  <2>1. PICK i \in instance : SoundLaunch(i) /\ Fits(a, i.spec, OrchestratorOptions(i.accel))
    BY ArgsFit
  <2>2. a.flag = "-smp" /\ Cfg \in LoadConfig(world.env) BY ArgsFit
  <2>3. n = i.spec.vcpus BY <2>1, <2>2 DEF Fits
  <2>4. n <= Cfg.maxVcpus BY <2>1, <2>3 DEF SoundLaunch
  <2>5. Cfg.maxVcpus = Limit("QMP_MCP_MAX_VCPUS", 2)
    BY <2>2, LoadedLimits, CapIsTheOperators DEF Limit, Given
  <2> QED BY <2>4, <2>5
<1> QED BY <1>1, <1>2

\* The bounds of the port range.
LEMMA RangeIsTheOperators ==
    ASSUME NEW raw, NEW range \in ParsePortRange(raw, DefaultHostfwdPortRange), NEW port,
           port >= range.low, port <= range.high
    PROVE  IF IsBlank(raw) THEN 1024 <= port /\ port <= 65535
           ELSE raw.list[1] <= port /\ port <= raw.list[2]
<1>1. CASE IsBlank(raw)
  <2>1. range.low = 1024 /\ range.high = 65535
    BY <1>1 DEF ParsePortRange, DefaultHostfwdPortRange, PortRange
  <2> QED BY <1>1, <2>1
<1>2. CASE ~IsBlank(raw)
  <2>1. range.low = raw.list[1] /\ range.high = raw.list[2]
    BY <1>2 DEF ParsePortRange, PortRange
  <2> QED BY <1>2, <2>1
<1> QED BY <1>1, <1>2

\* The host's ports and the host's network.
LEMMA NetworkSays ==
    ASSUME Started, Launched, NEW a \in Args("-netdev")
    PROVE  /\ a.props \cap {"tap", "bridge"} # {} => Said("QMP_MCP_ALLOW_HOST_NET")
           /\ LET range == Given("QMP_MCP_HOSTFWD_PORT_RANGE") IN
              \A port \in a.numbers :
                  IF IsBlank(range) THEN 1024 <= port /\ port <= 65535
                  ELSE range.list[1] <= port /\ port <= range.list[2]
<1>1. PICK i \in instance : SoundLaunch(i) /\ Fits(a, i.spec, OrchestratorOptions(i.accel))
  BY ArgsFit
<1>2. a.flag = "-netdev" /\ Cfg \in LoadConfig(world.env) BY ArgsFit
<1>3. PICK o : o = OrchestratorOptions(i.accel) OBVIOUS
<1>4. /\ a.props \cap {"tap", "bridge"} # {} => o.allowHostNet
      /\ \A p \in a.numbers : p >= o.hostfwdPortRange.low /\ p <= o.hostfwdPortRange.high
  BY <1>1, <1>2, <1>3 DEF Fits
<1>5. o.hostfwdPortRange = Cfg.hostfwdPortRange /\ o.allowHostNet = Cfg.allowHostNet
  BY <1>3, OptionsLimit
<1>6. Cfg.allowHostNet => Said("QMP_MCP_ALLOW_HOST_NET")
  BY <1>2, LoadedFlags, BooleanSaid DEF Said, Given
<1>7. Cfg.hostfwdPortRange
      \in ParsePortRange(Given("QMP_MCP_HOSTFWD_PORT_RANGE"), DefaultHostfwdPortRange)
  BY <1>2, LoadedLimits DEF Given
<1>8. ASSUME NEW port \in a.numbers
      PROVE  LET range == Given("QMP_MCP_HOSTFWD_PORT_RANGE") IN
             IF IsBlank(range) THEN 1024 <= port /\ port <= 65535
             ELSE range.list[1] <= port /\ port <= range.list[2]
  BY <1>4, <1>5, <1>7, RangeIsTheOperators
<1> QED BY <1>4, <1>5, <1>6, <1>8

\* The shared directory.
LEMMA ShareSays ==
    ASSUME Started, Launched, NEW a \in Args("-fsdev")
    PROVE  /\ ~IsBlank(Given("QMP_MCP_HOST_SHARE_DIR"))
           /\ "readonly" \notin a.props => Said("QMP_MCP_ALLOW_SHARE_WRITE")
           /\ DescribeShare.available /\ DescribeShare.readOnly = ("readonly" \in a.props)
<1>1. PICK i \in instance : SoundLaunch(i) /\ Fits(a, i.spec, OrchestratorOptions(i.accel))
  BY ArgsFit
<1>2. a.flag = "-fsdev" /\ Cfg \in LoadConfig(world.env) BY ArgsFit
<1>3. PICK o : o = OrchestratorOptions(i.accel) OBVIOUS
<1>4. o.hostShareDir # "" /\ ("readonly" \in a.props <=> o.shareReadonly # {FALSE})
  BY <1>1, <1>2, <1>3 DEF Fits
<1>5. Cfg.hostShareDir # "" /\ ("readonly" \in a.props <=> {~Cfg.allowShareWrite} # {FALSE})
  BY <1>3, <1>4, OptionsLimit
<1>6. Cfg.allowShareWrite \in BOOLEAN /\ (Cfg.allowShareWrite => Said("QMP_MCP_ALLOW_SHARE_WRITE"))
  BY <1>2, LoadedFlags, BooleanSaid DEF Said, Given
<1>7. ~IsBlank(Given("QMP_MCP_HOST_SHARE_DIR"))
  <2>1. Cfg.hostShareDir \in AbsoluteDir(Given("QMP_MCP_HOST_SHARE_DIR"))
    BY <1>2, LoadedPlaces DEF ResolveHostShareDir, Given
  <2> QED BY <1>5, <2>1 DEF AbsoluteDir
<1>8. ("readonly" \in a.props) <=> ~Cfg.allowShareWrite BY <1>5, <1>6
<1>9. DescribeShare.available = (Cfg.hostShareDir # "")
      /\ DescribeShare.readOnly = ~Cfg.allowShareWrite
  BY DEF DescribeShare
<1>10. DescribeShare.available BY <1>5, <1>9
<1>11. DescribeShare.readOnly = ("readonly" \in a.props)
  <2>1. (~Cfg.allowShareWrite) = ("readonly" \in a.props)
    <3>1. ASSUME NEW p \in BOOLEAN, NEW q \in BOOLEAN, p <=> q PROVE p = q BY <3>1
    <3>2. ("readonly" \in a.props) \in BOOLEAN /\ (~Cfg.allowShareWrite) \in BOOLEAN OBVIOUS
    <3> QED BY <1>8, <3>1, <3>2
  <2> QED BY <1>9, <2>1, Zenon
<1> QED BY <1>6, <1>7, <1>8, <1>10, <1>11

\* Raw arguments and the display.
LEMMA RawAndVncSay ==
    ASSUME Started, Launched
    PROVE  /\ Args("raw") # {} => Said("QMP_MCP_ALLOW_RAW_ARGS")
           /\ Args("-vnc") # {} => ~IsBlank(Given("QMP_MCP_VIEWER_PASSWORD"))
<1>1. ASSUME NEW a \in Args("raw") PROVE Said("QMP_MCP_ALLOW_RAW_ARGS")
  <2>1. PICK i \in instance : SoundLaunch(i) /\ Fits(a, i.spec, OrchestratorOptions(i.accel))
    BY <1>1, ArgsFit
  <2>2. a.flag = "raw" /\ Cfg \in LoadConfig(world.env) BY <1>1, ArgsFit
  <2>3. OrchestratorOptions(i.accel).allowRawArgs BY <2>1, <2>2 DEF Fits
  <2>4. Cfg.allowRawArgs BY <2>3, OptionsLimit
  <2> QED BY <2>2, <2>4, LoadedFlags, BooleanSaid DEF Said, Given
<1>2. ASSUME NEW a \in Args("-vnc") PROVE ~IsBlank(Given("QMP_MCP_VIEWER_PASSWORD"))
  <2>1. PICK i \in instance : SoundLaunch(i) /\ Fits(a, i.spec, OrchestratorOptions(i.accel))
    BY <1>2, ArgsFit
  <2>2. a.flag = "-vnc" /\ Cfg \in LoadConfig(world.env) BY <1>2, ArgsFit
  <2>3. i.spec.display = "vnc" BY <2>1, <2>2 DEF Fits
  <2>4. Cfg.viewerPassword # {} BY <2>1, <2>3 DEF SoundLaunch, AssertViewerConfigured
  <2>5. Cfg.viewerPassword = PresentNonBlank(Given("QMP_MCP_VIEWER_PASSWORD"))
    BY <2>2, LoadedAccess DEF Given
  <2> QED BY <2>4, <2>5 DEF PresentNonBlank
<1> QED BY <1>1, <1>2

LEMMA LaunchedSays == Started /\ Launched => WithinTheOperatorsLimits
BY CapsSay, NetworkSays, ShareSays, RawAndVncSay DEF WithinTheOperatorsLimits

-----------------------------------------------------------------------------
(* The files.                                                               *)

\* What create_image is at and what qemu-img made is a plain name within the
\* operator's size.
FilesSound ==
    /\ DOMAIN creating = Creator
    /\ \A c \in Creator :
        creating[c].at # "idle" =>
            PlainName(creating[c].name) /\ creating[c].sizeGb <= Cfg.maxDiskGb
    /\ \A name \in DOMAIN sizes : PlainName(name) /\ sizes[name] <= Cfg.maxDiskGb

\* What create_image lets through.
LEMMA CreatedIsPlain ==
    ASSUME NEW request, NEW place, NEW cap, CreateImageArgs(request, place, cap) # {}
    PROVE  PlainName(request.name) /\ request.sizeGb <= cap
BY ResolvedIsPlain DEF CreateImageArgs, ResolveImagePath

LEMMA NoFiles ==
    ASSUME NEW some, some = <<>> PROVE DOMAIN some = {}
OBVIOUS

LEMMA FilesInit == Init => FilesSound
<1> SUFFICES ASSUME Init PROVE FilesSound OBVIOUS
<1>1. Idle.at = "idle" BY DEF Idle
<1>2. DOMAIN creating = Creator /\ \A c \in Creator : creating[c] = Idle BY DEF Init
<1>3. DOMAIN sizes = {} BY NoFiles DEF Init
<1> QED BY <1>1, <1>2, <1>3 DEF FilesSound

LEMMA FilesNext ==
    ASSUME Started, FilesSound, [Next]_vars
    PROVE  FilesSound'
<1>1. CASE config = {}
  <2>1. Pristine' BY <1>1, NothingBefore
  <2>2. Idle.at = "idle" BY DEF Idle
  <2>3. DOMAIN creating' = Creator /\ \A c \in Creator : creating'[c] = Idle
    BY <2>1 DEF Pristine, Idle
  <2>4. DOMAIN sizes' = {} BY <2>1, NoFiles DEF Pristine
  <2> QED BY <2>2, <2>3, <2>4 DEF FilesSound
<1>2. CASE config # {} /\ creating' = creating /\ sizes' = sizes
  BY <1>2, CfgStays DEF FilesSound
<1>3. ASSUME config # {}, NEW c \in Creator, NEW request \in world.creations,
             CreateImage(c, request)
      PROVE  FilesSound'
  <2>1. PlainName(request.name) /\ request.sizeGb <= Cfg.maxDiskGb
    BY <1>3, CreatedIsPlain DEF CreateImage
  <2>2. Cfg' = Cfg BY <1>3, CfgStays
  <2>3. sizes' = sizes /\ creating' = [creating EXCEPT ![c] = [request EXCEPT !.at = "running"]]
    BY <1>3 DEF CreateImage
  <2>4. request \in [at : {"idle"}, name : STRING, sizeGb : Int]
    BY WorldsAssumption DEF Started
  <2>5. creating'[c].name = request.name /\ creating'[c].sizeGb = request.sizeGb
    BY <2>3, <2>4 DEF FilesSound
  <2>6. DOMAIN creating' = Creator /\ \A d \in Creator \ {c} : creating'[d] = creating[d]
    BY <2>3 DEF FilesSound
  <2> QED BY <2>1, <2>2, <2>3, <2>5, <2>6 DEF FilesSound
<1>4. ASSUME config # {}, NEW c \in Creator, QemuImgWrites(c) PROVE FilesSound'
  <2>1. Cfg' = Cfg BY <1>4, CfgStays
  <2>2. PlainName(creating[c].name) /\ creating[c].sizeGb <= Cfg.maxDiskGb
    BY <1>4 DEF QemuImgWrites, FilesSound
  <2>3. DOMAIN sizes' = DOMAIN sizes \cup {creating[c].name}
        /\ \A name \in DOMAIN sizes' :
              sizes'[name] = IF name = creating[c].name THEN creating[c].sizeGb ELSE sizes[name]
    BY <1>4 DEF QemuImgWrites, Put
  <2>4. DOMAIN creating' = Creator
        /\ \A d \in Creator : /\ creating'[d].name = creating[d].name
                              /\ creating'[d].sizeGb = creating[d].sizeGb
                              /\ d # c => creating'[d] = creating[d]
    BY <1>4 DEF QemuImgWrites, FilesSound
  <2>5. \A name \in DOMAIN sizes' : PlainName(name) /\ sizes'[name] <= Cfg'.maxDiskGb
    BY <2>1, <2>2, <2>3 DEF FilesSound
  <2>6. \A d \in Creator : creating'[d].at # "idle" =>
            PlainName(creating'[d].name) /\ creating'[d].sizeGb <= Cfg'.maxDiskGb
    BY <2>1, <2>2, <2>4 DEF FilesSound
  <2> QED BY <2>4, <2>5, <2>6 DEF FilesSound
<1>5. ASSUME config # {}, NEW c \in Creator, CreateImageEnds(c) \/ CreateImageFails(c)
      PROVE  FilesSound'
  <2>1. Cfg' = Cfg BY <1>5, CfgStays
  <2>2. sizes' = sizes /\ creating' = [creating EXCEPT ![c] = Idle]
    BY <1>5 DEF CreateImageEnds, CreateImageFails
  <2>3. Idle.at = "idle" BY DEF Idle
  <2> QED BY <2>1, <2>2, <2>3 DEF FilesSound
<1>6. CASE /\ ~ \E c \in Creator : QemuImgWrites(c) \/ CreateImageEnds(c) \/ CreateImageFails(c)
           /\ ~ \E c \in Creator, request \in world.creations : CreateImage(c, request)
  BY <1>1, <1>2, <1>6
    DEF Next, vars, store, ReadConfig, InitLogging, ResolveCommandPolicy, LoadIsoCatalog,
        Bind, Stop, HttpRequest, HttpRefused, CreateInstance, DestroyInstance, ExecuteCommand,
        CreateImageRefused, ListImagesTool, ListIsosTool, ListFiles, DownloadIso
<1> QED BY <1>1, <1>3, <1>4, <1>5, <1>6

-----------------------------------------------------------------------------
(* The downloads and the listings.                                          *)

\* Where a download was told to save to.
FetchSound ==
    \A path \in fetching :
        Cfg.allowDownload /\ InIsos(path, IsoRoot)

LEMMA FetchNext ==
    ASSUME Started, FetchSound, [Next]_vars
    PROVE  FetchSound'
<1>1. CASE config = {}
  <2>1. fetching' = {} BY <1>1, NothingBefore DEF Pristine
  <2> QED BY <2>1 DEF FetchSound
<1>2. CASE config # {} /\ fetching' = fetching
  BY <1>2, CfgStays DEF FetchSound, InIsos, IsoRoot
<1>3. ASSUME config # {}, NEW id, DownloadIso(id) PROVE FetchSound'
  <2>1. PICK name : fetching' = ResolveInStore(name, IsoStore)
    BY <1>3 DEF DownloadIso
  <2>2. Cfg.allowDownload BY <1>3 DEF DownloadIso
  <2>3. PICK o : o = OrchestratorOptions("tcg") OBVIOUS
  <2>4. o.isoStore = IsoStore BY <2>3 DEF OrchestratorOptions
  <2>5. /\ IsPath(IsoStore.dir) /\ IsoStore.dir = IsoRoot /\ IsoStore.there = world.isos.there
        /\ IsoStore.entries = world.isos.entries
    BY <1>3, <2>3, <2>4, OptionsSay
  <2>6. \A path \in fetching' : InIsos(path, IsoRoot)
    BY <2>1, <2>5, ResolvedIsInStore DEF Below, InIsos
  <2> QED BY <1>3, <2>2, <2>6, CfgStays DEF FetchSound, InIsos, IsoRoot
<1>4. CASE ~ \E id \in world.ids : DownloadIso(id)
  BY <1>1, <1>2, <1>4
    DEF Next, vars, answers, ReadConfig, InitLogging, ResolveCommandPolicy, LoadIsoCatalog,
        Bind, Stop, HttpRequest, HttpRefused, CreateInstance, DestroyInstance, ExecuteCommand,
        CreateImageRefused, CreateImage, QemuImgWrites, CreateImageEnds, CreateImageFails,
        ListImagesTool, ListIsosTool, ListFiles
<1> QED BY <1>1, <1>3, <1>4

\* A plain name is a store's, and resolves where its file is.
LEMMA PlainIsValid ==
    ASSUME NEW name, PlainName(name)
    PROVE  AssertValidStoreName(name)
<1>1. CharsOf(name)[1] = "a" /\ name # "" /\ CharSet(name) \subseteq {"a", ".", "_", "-"}
  BY DEF PlainName
<1>2. name # "." /\ name # ".."
  <2>1. CharsOf(".") = <<".", ".">> /\ CharsOf("..") = <<".", ".">>
    BY DEF CharsOf, AbsolutePaths
  <2>2. <<".", ".">>[1] # "a" OBVIOUS
  <2> QED BY <1>1, <2>1, <2>2, Zenon
<1>3. Token(name, {".", "_", "-"})
  BY <1>1 DEF Token
<1>4. "NUL" \notin CharSet(name) /\ CharSet(name) \cap {"/", "\\"} = {} /\ CharsOf(name)[1] # "/"
  BY <1>1
<1>5. CharSet(name) \ {" "} # {}
  <2>1. \/ \E a : CharsOf(name) = <<a>>
        \/ \E a, b : CharsOf(name) = <<a, b>>
        \/ \E a, b, c : CharsOf(name) = <<a, b, c>>
        \/ \E a, b, c, d : CharsOf(name) = <<a, b, c, d>>
    BY <1>1 DEF CharsOf, AbsolutePaths
  <2>2. 1 \in DOMAIN CharsOf(name) BY <2>1
  <2>3. "a" \in CharSet(name) BY <1>1, <2>2 DEF CharSet
  <2>4. "a" # " " OBVIOUS
  <2> QED BY <2>3, <2>4, Zenon
<1> QED BY <1>2, <1>3, <1>4, <1>5 DEF AssertValidStoreName, IsValidStoreName

\* A name that can be used.
Usable(name, place) == Exists(place, name) /\ ResolveInStore(name, place) # {}
ListedSound ==
    \A name \in listed : PlainName(name) => Usable(name, ImageStore) \/ Usable(name, IsoStore)

\* It is usable where a file or a download is.
LEMMA UsableWhere ==
    ASSUME NEW name, NEW place
    PROVE  Usable(name, place)
           <=> /\ AssertValidStoreName(name) /\ place.there /\ name \in DOMAIN place.entries
               /\ place.entries[name] \notin {"dangling", "link_outside"}
BY DEF Usable, Exists, ResolveInStore

\* What can be used stays usable.
LEMMA UsableStays ==
    ASSUME Started, [Next]_vars, config # {}, NEW name
    PROVE  /\ Usable(name, ImageStore) => Usable(name, ImageStore)'
           /\ Usable(name, IsoStore) => Usable(name, IsoStore)'
<1>1. Cfg' = Cfg /\ world' = world BY CfgStays
<1>2. IsoStore' = IsoStore BY <1>1 DEF IsoStore, Store
<1>3. PICK p : p = ImageStore OBVIOUS
<1>4. PICK q : q = ImageStore' OBVIOUS
<1>5. q.there = p.there /\ p.entries = images /\ q.entries = images'
  BY <1>1, <1>3, <1>4 DEF ImageStore, Store
<1>6. Usable(name, p) => Usable(name, q)
  BY <1>5, ImagesGrow, UsableWhere
<1>7. Usable(name, ImageStore)' <=> Usable(name, q)
  BY <1>4 DEF Usable, ResolveInStore, Exists, Path
<1>8. Usable(name, IsoStore)' <=> Usable(name, IsoStore)
  BY <1>2 DEF Usable, ResolveInStore, Exists, Path
<1> QED BY <1>3, <1>6, <1>7, <1>8

LEMMA ListedNext ==
    ASSUME Started, ListedSound, [Next]_vars
    PROVE  ListedSound'
<1>1. CASE config = {}
  <2>1. listed' = {} BY <1>1, NothingBefore DEF Pristine
  <2> QED BY <2>1 DEF ListedSound
<1>2. CASE config # {} /\ listed' = listed
  BY <1>2, UsableStays DEF ListedSound
<1>3. ASSUME config # {}, NEW place, ListFiles(ListStoreFiles(place)),
             place = ImageStore \/ place = IsoStore
      PROVE  ListedSound'
  <2>1. /\ place.there
        /\ listed' = {n \in DOMAIN place.entries : place.entries[n] \in {"file", "part"}}
    BY <1>3 DEF ListFiles, ListStoreFiles
  <2>2. ASSUME NEW name \in listed', PlainName(name) PROVE Usable(name, place)
    BY <2>1, <2>2, UsableWhere, PlainIsValid
  <2> QED BY <1>3, <2>2, UsableStays DEF ListedSound
<1>4. CASE ListImagesTool \/ ListIsosTool
  BY <1>1, <1>3, <1>4 DEF ListImagesTool, ListIsosTool, ListImages, ListIsos
<1>5. CASE ~ListImagesTool /\ ~ListIsosTool
  BY <1>1, <1>2, <1>5
    DEF Next, vars, answers, ReadConfig, InitLogging, ResolveCommandPolicy, LoadIsoCatalog,
        Bind, Stop, HttpRequest, HttpRefused, CreateInstance, DestroyInstance, ExecuteCommand,
        CreateImageRefused, CreateImage, QemuImgWrites, CreateImageEnds, CreateImageFails,
        DownloadIso
<1> QED BY <1>4, <1>5

-----------------------------------------------------------------------------
(* Nothing reaches out.                                                     *)

\* The files of the arguments are in their store, and no word splits.
LEMMA FilesOfArgsSay ==
    ASSUME Started, Launched
    PROVE  /\ \A a \in Args("-drive") : \A path \in a.paths :
                IF "cdrom" \in a.props THEN InIsos(path, EscapePath(IsoRoot))
                ELSE InImages(path, EscapePath(ImageRoot))
           /\ \A flag \in {"-kernel", "-initrd", "-dtb"} :
                \A a \in Args(flag) : \A path \in a.paths : InImages(path, ImageRoot)
<1>1. ASSUME NEW flag, NEW a \in Args(flag)
      PROVE  /\ flag = "-drive" => \A path \in a.paths :
                  IF "cdrom" \in a.props THEN InIsos(path, EscapePath(IsoRoot))
                  ELSE InImages(path, EscapePath(ImageRoot))
             /\ flag \in {"-kernel", "-initrd", "-dtb"} =>
                  \A path \in a.paths : InImages(path, ImageRoot)
  <2>1. PICK i \in instance : SoundLaunch(i) /\ Fits(a, i.spec, OrchestratorOptions(i.accel))
    BY <1>1, ArgsFit
  <2>2. a.flag = flag /\ config # {} BY <1>1, ArgsFit
  <2>3. PICK o : o = OrchestratorOptions(i.accel) OBVIOUS
  <2>4. /\ o.imageStore.dir = ImageRoot /\ o.isoStore.dir = IsoRoot
        /\ o.imageStore.there = world.images.there /\ o.imageStore.entries = images
        /\ o.isoStore.there = world.isos.there /\ o.isoStore.entries = world.isos.entries
    BY <2>2, <2>3, OptionsSay
  <2>5. Fits(a, i.spec, o) BY <2>1, <2>3
  <2>6. \A path, root : /\ Below(path, root, o.imageStore) => InImages(path, root)
                        /\ Below(path, root, o.isoStore) => InIsos(path, root)
    BY <2>4 DEF Below, InImages, InIsos
  <2> QED BY <2>2, <2>4, <2>5, <2>6 DEF Fits
<1> QED BY <1>1

\* No argument that QEMU parses splits.
LEMMA NoneSplits ==
    ASSUME Started, Launched, NEW i \in instance, NEW k \in DOMAIN i.argv,
           i.argv[k].flag \notin NotParsed
    PROVE  Unsplit(i.argv[k])
<1>1. SoundLaunch(i) BY DEF Launched
<1>2. Fits(i.argv[k], i.spec, OrchestratorOptions(i.accel)) BY <1>1 DEF SoundLaunch
<1> QED BY <1>2 DEF Fits

\* The single boards are given no PCI device, and KVM is used where it is to be
\* had, and by the server's choice only where it works.
LEMMA BoardsSay ==
    ASSUME Started, Launched, NEW i \in instance
    PROVE  /\ IsRaspiMachine(i.spec.machine) =>
                Args("-fsdev") = {} /\ \A a \in Args("-device") : a.props = {"usb-net"}
           /\ i.accel = "kvm" => world.host.kvm
           /\ i.accel = "kvm" /\ i.spec.accel = "auto" =>
                i.binary[2] = world.host.arch /\ ~IsRaspiMachine(i.spec.machine)
<1>1. ASSUME NEW flag, NEW a \in Args(flag), IsRaspiMachine(i.spec.machine)
      PROVE  flag # "-fsdev" /\ (flag = "-device" => a.props = {"usb-net"})
  <2>1. PICK j \in instance : SoundLaunch(j) /\ Fits(a, j.spec, OrchestratorOptions(j.accel))
    BY <1>1, ArgsFit
  <2>2. a.flag = flag BY <1>1, ArgsFit
  <2>3. IsRaspiMachine(j.spec.machine) BY <1>1 DEF Launched
  <2> QED BY <2>1, <2>2, <2>3 DEF Fits
<1>2. /\ i.spec.accel \in {"auto", "kvm", "tcg"}
      /\ i.accel \in ResolveAccel(i.spec.accel, i.binary[2], world.host.arch, i.spec.machine,
                                  world.host.kvm)
  BY DEF Launched, SoundLaunch, AccelMode, QemuArchOfBinary
<1>3. /\ i.accel = "kvm" => world.host.kvm
      /\ i.accel = "kvm" /\ i.spec.accel = "auto" =>
            i.binary[2] = world.host.arch /\ ~IsRaspiMachine(i.spec.machine)
  BY <1>2 DEF ResolveAccel
<1> QED BY <1>1, <1>3

LEMMA ReachesSays ==
    ASSUME Started, Launched, FilesSound, FetchSound, ListedSound
    PROVE  NothingReachesOut
<1>1. \A path \in fetching : Said("QMP_MCP_ALLOW_DOWNLOAD") /\ InIsos(path, IsoRoot)
  <2> SUFFICES ASSUME NEW path \in fetching PROVE Said("QMP_MCP_ALLOW_DOWNLOAD")
    BY DEF FetchSound
  <2>1. config # {} BY DEF Started, Pristine
  <2>2. Cfg.allowDownload BY DEF FetchSound
  <2> QED BY <2>1, <2>2, CfgIsLoaded, LoadedFlags, BooleanSaid DEF Said, Given
<1>2. \A name \in DOMAIN sizes :
        PlainName(name) /\ sizes[name] <= Limit("QMP_MCP_MAX_DISK_GB", 64)
  <2> SUFFICES ASSUME NEW name \in DOMAIN sizes
               PROVE  PlainName(name) /\ sizes[name] <= Limit("QMP_MCP_MAX_DISK_GB", 64)
    OBVIOUS
  <2>1. config # {} BY NoFiles DEF Started, Pristine
  <2>2. Cfg.maxDiskGb = Limit("QMP_MCP_MAX_DISK_GB", 64)
    BY <2>1, CfgIsLoaded, LoadedLimits, CapIsTheOperators DEF Limit, Given
  <2> QED BY <2>2 DEF FilesSound
<1>3. \A name \in listed :
        PlainName(name) => \E s \in {ImageStore, IsoStore} :
            Exists(s, name) /\ ResolveInStore(name, s) # {}
  BY DEF ListedSound, Usable
<1>4. \A i \in instance : \A k \in DOMAIN i.argv :
        i.argv[k].flag \notin NotParsed => Unsplit(i.argv[k])
  BY NoneSplits
<1> QED BY <1>1, <1>2, <1>3, <1>4, FilesOfArgsSay, BoardsSay DEF NothingReachesOut

-----------------------------------------------------------------------------
(* The theorems.                                                            *)

\* The inductive invariant.
Inv ==
    /\ Started
    /\ SentIsAllowed
    /\ ServedIsAdmitted
    /\ Launched
    /\ FilesSound
    /\ FetchSound
    /\ ListedSound

LEMMA InvInit == Init => Inv
<1> SUFFICES ASSUME Init PROVE Inv OBVIOUS
<1>1. Started /\ FilesSound BY StartedInit, FilesInit
<1>2. SentIsAllowed /\ ServedIsAdmitted /\ Launched /\ FetchSound /\ ListedSound
  BY DEF Init, SentIsAllowed, ServedIsAdmitted, Launched, FetchSound, ListedSound
<1> QED BY <1>1, <1>2 DEF Inv

LEMMA InvNext == Inv /\ [Next]_vars => Inv'
BY StartedNext, SentNext, ServedNext, LaunchedNext, FilesNext, FetchNext, ListedNext DEF Inv

LEMMA InvAlways == Spec => []Inv
BY InvInit, InvNext, PTL DEF Spec

\* However the policy was put together and however a caller spells it, no
\* command that is denied ever reaches QEMU (policy.rs, qmp_execute).
THEOREM DeniedIsNeverSent == Spec => []DeniedNeverSent
<1>1. Inv => DeniedNeverSent BY SentSays DEF Inv
<1> QED BY <1>1, InvAlways, PTL

\* The MCP service is given no request over HTTP but by the operator's pages and
\* callers (http.rs build_router, config.rs load_config).
THEOREM OnlyCallersOfTheOperator == Spec => []OnlyTheOperatorsCallers
<1>1. Inv => OnlyTheOperatorsCallers BY ServedSays DEF Inv
<1> QED BY <1>1, InvAlways, PTL

\* What QEMU is started with is within what the environment allows, and
\* get_share says what the Guest has (hardware_spec.rs build_argv).
THEOREM LaunchesStayWithin == Spec => []WithinTheOperatorsLimits
<1>1. Inv => WithinTheOperatorsLimits BY LaunchedSays DEF Inv
<1> QED BY <1>1, InvAlways, PTL

\* The files a caller names to QEMU or to a download are right below the root
\* of their store, nothing in a value that QEMU parses splits into a second
\* option, and what qemu-img makes is within the operator's size (image_store.rs,
\* iso_store.rs, hardware_spec.rs).
THEOREM NothingEverReachesOut == Spec => []NothingReachesOut
<1>1. Inv => NothingReachesOut BY ReachesSays DEF Inv
<1> QED BY <1>1, InvAlways, PTL
=============================================================================
