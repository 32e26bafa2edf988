-------------------------------- MODULE Config -------------------------------
(***************************************************************************)
(* From the environment the server is started with to its configuration, or  *)
(* to the refusal to start.  The environment is a function on the variables  *)
(* that are set.  A raw value is what its parser tells apart: the text, the   *)
(* number if the text is digits, the entries if it is a list or a range,      *)
(* whether blanks surround it and whether capitals are in it.                *)
(***************************************************************************)
EXTENDS Stores, FiniteSets

Raw(v) == [v |-> v, n |-> 0, list |-> <<>>, pad |-> FALSE, capitals |-> FALSE]
Digits(n) == [Raw("digits") EXCEPT !.n = n]
List(entries) == [Raw("list") EXCEPT !.list = entries]
Padded(raw) == [raw EXCEPT !.pad = TRUE]
Capitals(raw) == [raw EXCEPT !.capitals = TRUE]

\* An absent variable is parsed as one that is set to nothing at all.
Get(env, var) == IF var \in DOMAIN env THEN env[var] ELSE Raw("")
IsNothing(raw) == raw.v = "" /\ ~raw.pad
IsBlank(raw) == raw.v = ""

TransportMode == {"stdio", "http", "both"}
ExposesHttp(transport) == transport \in {"http", "both"}
LogLevel == {"debug", "info", "warning", "error"}
LogSubsystems == {"server", "orchestrator", "qmp", "viewer", "download", "policy"}
AuthMode == {"apikey", "jwt"}
SerialBackend == {"ringbuf", "spool", "socket"}

\* Capitals are folded, blanks are not taken away.
ParseEnum(raw, values, fallback) ==
    IF IsNothing(raw) THEN {fallback}
    ELSE IF ~raw.pad /\ raw.v \in values THEN {raw.v} ELSE {}
ParseString(raw, fallback) == IF IsBlank(raw) THEN fallback ELSE raw.v

ParseBoolean(raw, fallback) ==
    CASE IsNothing(raw) -> {fallback}
      [] raw.v = "true" -> {TRUE}
      [] raw.v = "false" -> {FALSE}
      [] OTHER -> {}

\* Digits that fit 32 bits ("huge" ones do not) and are in range.
ParseNumber(raw, fallback, range) ==
    IF IsBlank(raw) THEN {fallback}
    ELSE IF raw.v = "digits" /\ raw.n \in range THEN {raw.n} ELSE {}
ParsePort(raw, fallback) == ParseNumber(raw, fallback, 1..65535)
ParsePositiveInt(raw, fallback) == ParseNumber(raw, fallback, Nat \ {0})
ParseIntInRange(raw, min, max, fallback) ==
    ParseNumber(raw, fallback, min..max)
\* The widest power of two looked at.
MaxExponent == 30
ParsePowerOfTwo(raw, fallback) ==
    ParseNumber(raw, fallback, {2^k : k \in 0..MaxExponent})

PortRange(low, high) == [low |-> low, high |-> high]
DefaultHostfwdPortRange == PortRange(1024, 65535)
\* A range is a list of its two bounds.
ParsePortRange(raw, fallback) ==
    IF IsBlank(raw) THEN {fallback}
    ELSE IF /\ raw.v = "list" /\ Len(raw.list) = 2
            /\ raw.list[1] >= 1 /\ raw.list[2] <= 65535 /\ raw.list[1] <= raw.list[2]
         THEN {PortRange(raw.list[1], raw.list[2])} ELSE {}

\* Mutation of ParseList: an empty entry is one.
ParseListKeepingBlanks(raw) == {raw.list[i] : i \in DOMAIN raw.list}
\* Trimmed entries, the empty ones dropped.
ParseList(raw) == {raw.list[i] : i \in DOMAIN raw.list} \ {<<"">>}

\* Entries <<subsystem, level>>, the later ones win, an empty one is skipped;
\* one with no sign between, or with an unknown side, is refused.
ParseLogFilter(raw) ==
    LET given == {i \in DOMAIN raw.list : raw.list[i] # <<"">>}
        of(sub) == {i \in given : raw.list[i][1] = sub}
    IN IF \A i \in given : Len(raw.list[i]) = 2 /\ raw.list[i][1] \in LogSubsystems
                                               /\ raw.list[i][2] \in LogLevel
       THEN {[sub \in {raw.list[i][1] : i \in given} |->
                 raw.list[CHOOSE i \in of(sub) : \A j \in of(sub) : j <= i][2]]}
       ELSE {}

\* The value as it is, blanks around it too, if anything else is in it.
PresentNonBlank(raw) == IF IsBlank(raw) THEN {} ELSE {<<raw.v>>}

\* Explicit, or under the data directory, the home directory, or the one for
\* temporary files.
ResolveStoreDir(env, var, leaf) ==
    LET at(base, below) == <<Get(env, base).v>> \o below \o <<"qmp-mcp", leaf>>
    IN CASE ~IsBlank(Get(env, var)) -> <<Get(env, var).v>>
         [] IsBlank(Get(env, var)) /\ ~IsBlank(Get(env, "XDG_DATA_HOME")) ->
                at("XDG_DATA_HOME", <<>>)
         [] /\ IsBlank(Get(env, var)) /\ IsBlank(Get(env, "XDG_DATA_HOME"))
            /\ ~IsBlank(Get(env, "HOME")) -> at("HOME", <<".local", "share">>)
         [] OTHER -> <<ParseString(Get(env, "TMPDIR"), "/tmp"), "qmp-mcp", leaf>>
ResolveImageDir(env) == ResolveStoreDir(env, "QMP_MCP_IMAGE_DIR", "images")
ResolveIsoDir(env) == ResolveStoreDir(env, "QMP_MCP_ISO_DIR", "isos")

\* Nothing, or an absolute path.
AbsoluteDir(raw) ==
    IF IsBlank(raw) THEN {""} ELSE IF CharsOf(raw.v)[1] = "/" THEN {raw.v} ELSE {}
ResolveIsoCatalog(env) == AbsoluteDir(Get(env, "QMP_MCP_ISO_CATALOG"))
ResolveHostShareDir(env) == AbsoluteDir(Get(env, "QMP_MCP_HOST_SHARE_DIR"))
ResolveSerialSpoolDir(env) == AbsoluteDir(Get(env, "QMP_MCP_SERIAL_SPOOL_DIR"))
ResolveRecordingDir(env) == AbsoluteDir(Get(env, "QMP_MCP_RECORDING_DIR"))

\* A bare name or an absolute path, of the charset.
IsBinary(word) ==
    /\ CharSet(word) \subseteq {"a", ".", "_", "/", "+", "-"}
    /\ "/" \in CharSet(word) => CharsOf(word)[1] = "/"
QemuBinaryOverride(env) ==
    LET raw == Get(env, "QMP_MCP_QEMU_BINARY") IN
    IF IsBlank(raw) THEN {""} ELSE IF IsBinary(raw.v) THEN {raw.v} ELSE {}
\* The override, or what the search path has.
ResolveFfmpegBinary(env) ==
    LET raw == Get(env, "QMP_MCP_FFMPEG_BINARY") IN
    IF IsBlank(raw) THEN {IF IsBlank(Get(env, "PATH")) THEN "" ELSE "ffmpeg"}
    ELSE IF IsBinary(raw.v) THEN {raw.v} ELSE {}
ResolveRecordingCodec(env) ==
    LET raw == Get(env, "QMP_MCP_RECORDING_CODEC") IN
    IF IsBlank(raw) THEN {"libx264"}
    ELSE IF Token(raw.v, {".", "_", "+", "-"}) THEN {raw.v} ELSE {}
ResolveRecordingPixfmt(env) ==
    LET raw == Get(env, "QMP_MCP_RECORDING_PIXFMT") IN
    IF IsBlank(raw) THEN {"yuv420p"} ELSE IF Token(raw.v, {}) THEN {raw.v} ELSE {}

\* The origins of the loopback at the port, unless others are listed.
AllowedOrigins(env, port) ==
    LET listed == ParseList(Get(env, "QMP_MCP_HTTP_ALLOWED_ORIGINS")) IN
    IF listed = {} THEN {<<"http://localhost", port>>, <<"http://127.0.0.1", port>>} ELSE listed

\* Every variable through its parser: an empty set is a refusal.
Fields(env) ==
    LET R(var) == Get(env, var)
        Flag(var, fallback) == ParseBoolean(R(var), fallback)
    IN [transport |-> ParseEnum(R("QMP_MCP_TRANSPORT"), TransportMode, "stdio"),
        logLevel |-> ParseEnum(R("QMP_MCP_LOG_LEVEL"), LogLevel, "info"),
        logFilter |-> ParseLogFilter(R("QMP_MCP_LOG_FILTER")),
        logFile |-> {ParseString(R("QMP_MCP_LOG_FILE"), "")},
        httpHost |-> {ParseString(R("QMP_MCP_HTTP_HOST"), "127.0.0.1")},
        httpPort |-> ParsePort(R("QMP_MCP_HTTP_PORT"), 8080),
        httpEndpoint |-> {ParseString(R("QMP_MCP_HTTP_ENDPOINT"), "/mcp")},
        allowedOrigins |-> {AllowedOrigins(env, p) : p \in ParsePort(R("QMP_MCP_HTTP_PORT"), 8080)},
        authMode |-> ParseEnum(R("QMP_MCP_AUTH"), AuthMode, "apikey"),
        apiKeys |-> {ParseList(R("QMP_MCP_API_KEYS"))},
        jwtSecret |-> {PresentNonBlank(R("QMP_MCP_JWT_SECRET"))},
        allowInsecure |-> Flag("QMP_MCP_ALLOW_INSECURE", FALSE),
        imageDir |-> {ResolveImageDir(env)}, isoDir |-> {ResolveIsoDir(env)},
        isoCatalog |-> ResolveIsoCatalog(env),
        allowDownload |-> Flag("QMP_MCP_ALLOW_DOWNLOAD", FALSE),
        qemuBinaryOverride |-> QemuBinaryOverride(env),
        maxDiskGb |-> ParsePositiveInt(R("QMP_MCP_MAX_DISK_GB"), 64),
        maxMemoryMb |-> ParsePositiveInt(R("QMP_MCP_MAX_MEMORY_MB"), 4096),
        maxVcpus |-> ParsePositiveInt(R("QMP_MCP_MAX_VCPUS"), 2),
        hostfwdPortRange |->
            ParsePortRange(R("QMP_MCP_HOSTFWD_PORT_RANGE"), DefaultHostfwdPortRange),
        allowHostNet |-> Flag("QMP_MCP_ALLOW_HOST_NET", FALSE),
        hostShareDir |-> ResolveHostShareDir(env),
        guestShareDir |-> {ParseString(R("QMP_MCP_GUEST_SHARE_DIR"), "")},
        allowShareWrite |-> Flag("QMP_MCP_ALLOW_SHARE_WRITE", FALSE),
        autoStart |-> Flag("QMP_MCP_AUTO_START", TRUE),
        eventBufferSize |-> ParsePositiveInt(R("QMP_MCP_EVENT_BUFFER_SIZE"), 256),
        serialBufferBytes |-> ParsePowerOfTwo(R("QMP_MCP_SERIAL_BUFFER_BYTES"), 2^20),
        allowSerialWrite |-> Flag("QMP_MCP_ALLOW_SERIAL_WRITE", FALSE),
        serialBackend |-> ParseEnum(R("QMP_MCP_SERIAL_BACKEND"), SerialBackend, "ringbuf"),
        serialSpoolDir |-> ResolveSerialSpoolDir(env),
        ffmpegBinary |-> ResolveFfmpegBinary(env),
        recordingDir |-> ResolveRecordingDir(env),
        recordingCodec |-> ResolveRecordingCodec(env),
        recordingCrf |-> ParseIntInRange(R("QMP_MCP_RECORDING_CRF"), 0, 63, 22),
        recordingMaxFps |-> ParseIntInRange(R("QMP_MCP_RECORDING_MAX_FPS"), 1, 60, 15),
        recordingPixfmt |-> ResolveRecordingPixfmt(env),
        allowRawArgs |-> Flag("QMP_MCP_ALLOW_RAW_ARGS", FALSE),
        viewerPassword |-> {PresentNonBlank(R("QMP_MCP_VIEWER_PASSWORD"))},
        viewerUser |-> {PresentNonBlank(R("QMP_MCP_VIEWER_USER"))},
        viewerHost |-> {ParseString(R("QMP_MCP_VIEWER_HOST"), "127.0.0.1")},
        viewerPort |-> ParsePort(R("QMP_MCP_VIEWER_PORT"), 6080)]

\* HTTP with the credential of its provider missing, and not said to be open.
LacksCredential(c) ==
    /\ ExposesHttp(c.transport)
    /\ ~c.allowInsecure
    /\ \/ c.authMode = "apikey" /\ c.apiKeys = {}
       \/ c.authMode = "jwt" /\ c.jwtSecret = {}
LacksSpoolDir(c) == c.serialBackend = "spool" /\ c.serialSpoolDir = ""

LoadConfig(env) ==
    LET f == Fields(env) IN
    IF \E k \in DOMAIN f : f[k] = {} THEN {}
    ELSE {c \in {[k \in DOMAIN f |-> CHOOSE v \in f[k] : TRUE]} :
            ~LacksCredential(c) /\ ~LacksSpoolDir(c)}

\* The log file's directory is there and a directory, the file is none and
\* can be opened; none is named "".
OpenLogFile(path) == path \notin {"/no/dir", "/file/name", "/dir", "/sealed"}
=============================================================================
