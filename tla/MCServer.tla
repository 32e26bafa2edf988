------------------------------- MODULE MCServer ------------------------------
(***************************************************************************)
(* TLC's instance of Server: the worlds.  A base world, the environment with  *)
(* one variable (or the few that go together) changed, and for each what a    *)
(* client of such a server asks that the change makes a difference to.        *)
(***************************************************************************)
EXTENDS Server

Entry == CatalogEntry("alpine", "Alpine", "new.iso", {[scheme |-> "https", blanks |-> FALSE]})

Base == [
    env |-> <<>>, allow |-> {}, deny |-> {}, policyFile |-> [is |-> "unset"],
    builtin |-> {<<Entry>>}, catalogFile |-> {},
    images |-> [there |-> TRUE, entries |->
        [disk |-> "file", in |-> "link_inside", out |-> "link_outside", gone |-> "dangling",
         sub |-> "dir"]],
    isos |-> [there |-> TRUE, entries |->
        ("-a" :> "file") @@ [cd |-> "file", cdpart |-> "part", out |-> "link_outside"]],
    host |-> [arch |-> "x86_64", kvm |-> TRUE, portFree |-> TRUE, serialSocket |-> FALSE],
    requests |-> {}, specs |-> {}, commands |-> {}, creations |-> {}, ids |-> {}]
With(env) == [Base EXCEPT !.env = env]
Set(var, raw) == var :> raw
On(var) == Set(var, Raw("true"))
Maybe(var, raws) == {<<>>} \cup {Set(var, r) : r \in raws}

----------------------------------------------------------------------------
(* The HTTP transport: the whole product of what decides an admission.       *)

HttpEnvs ==
    {t @@ i @@ a @@ k @@ s @@ o :
        t \in Maybe("QMP_MCP_TRANSPORT", {Raw("http"), Capitals(Raw("both"))}),
        i \in Maybe("QMP_MCP_ALLOW_INSECURE", {Raw("true"), Raw("false")}),
        a \in Maybe("QMP_MCP_AUTH", {Raw("apikey"), Raw("jwt")}),
        k \in Maybe("QMP_MCP_API_KEYS", {List(<<<<"">>>>), List(<<<<"key">>, <<"">>>>)}),
        s \in Maybe("QMP_MCP_JWT_SECRET", {Padded(Raw("")), Raw("secret")}),
        o \in Maybe("QMP_MCP_HTTP_ALLOWED_ORIGINS", {List(<<<<"https://ours", 443>>>>)})}

Requests ==
    {Request(o, k, a) :
        o \in {{}, {Unreadable}, {<<"http://localhost", 8080>>}, {<<"https://ours", 443>>}},
        k \in {{}, {<<"">>}, {<<"key">>}, {Unreadable}},
        a \in {{}} \cup {{Authorization("Bearer", BearerToken(<<s>>, g, e))} :
                            s \in {"", "secret", "other"}, g \in {"HS256", "none"},
                            e \in {{}, {-60}, {-61}}}
              \cup {{Authorization("bearer", BearerToken(<<"secret">>, "HS256", {}))}}}

PortWorld ==
    [With(Set("QMP_MCP_TRANSPORT", Raw("http")) @@ On("QMP_MCP_ALLOW_INSECURE")
          @@ Set("QMP_MCP_HTTP_PORT", Digits(9000)))
        EXCEPT !.requests = {Request({<<"http://localhost", p>>}, {}, {}) : p \in {8080, 9000}}]
HttpWorlds == {PortWorld} \cup {[With(env) EXCEPT !.requests = Requests] : env \in HttpEnvs}

----------------------------------------------------------------------------
(* Launches: what the operator changed, what the caller changed.             *)

LaunchEnvs == {
    <<>>,
    Set("QMP_MCP_MAX_MEMORY_MB", Digits(256)), Set("QMP_MCP_MAX_VCPUS", Digits(1)),
    Set("QMP_MCP_HOSTFWD_PORT_RANGE", List(<<8000, 8080>>)), On("QMP_MCP_ALLOW_HOST_NET"),
    Set("QMP_MCP_HOST_SHARE_DIR", Raw("/share")), Set("QMP_MCP_HOST_SHARE_DIR", Raw("/a,b")),
    Set("QMP_MCP_HOST_SHARE_DIR", Raw("/share")) @@ On("QMP_MCP_ALLOW_SHARE_WRITE"),
    Set("QMP_MCP_IMAGE_DIR", Raw("/a,b")), Set("QMP_MCP_QEMU_BINARY", Raw("qemu-system-aarch64")),
    Set("QMP_MCP_SERIAL_BACKEND", Raw("socket")),
    Set("QMP_MCP_SERIAL_BACKEND", Raw("spool")) @@ Set("QMP_MCP_SERIAL_SPOOL_DIR", Raw("/a,b")),
    Set("QMP_MCP_VIEWER_PASSWORD", Raw("pass")), On("QMP_MCP_ALLOW_RAW_ARGS")}

Net(mode, model, ports) ==
    [NetworkParams EXCEPT !.mode = mode, !.model = model, !.hostForwards =
        [i \in DOMAIN ports |-> HostForwardParams(ports[i], 22)]]
Asked ==
    [accel : AccelMode] \cup [display : DisplayMode] \cup [displayDevice : DisplayDevice \ {"none"}]
    \cup [vcpus : {0, 1, 2, 3}] \cup [memoryMb : {0, 256, 257, 4096, 4097}]
    \cup [cpu : {"", "host", "a,b", "a+b", "-a"}]
    \cup [disks : {<<DiskParams(n)>> : n \in {"disk", "in", "out", "gone", "..", "a/b", ""}}
                  \cup {<<[DiskParams("disk") EXCEPT !.interface = "sd", !.readonly = TRUE],
                          DiskParams("in")>>}]
    \cup [cdrom : {{"cd"}, {"out"}, {"/abs"}}]
    \cup [share : {TRUE}] \cup [serial : {TRUE}]
    \cup {[serial |-> TRUE, serialSpool |-> {n}] : n \in {"run", "..", "a,b"}}
    \cup [boot : {{"dc"}, {"a,b"}}]
    \cup [kernel : {{"disk"}, {"out"}}] \cup [initrd : {{"disk"}}]
    \cup {[kernel |-> {"disk"}, appendCmdline |-> {line}] : line \in {"a,b", "line\n", "too long"}}
    \cup {[kernel |-> {"disk"}, initrd |-> {"disk"}, dtb |-> {"in"}]}
    \cup [network : {Net(mode, model, <<>>) : mode \in NetworkMode, model \in NicModel}
                    \cup {Net(mode, model, <<port>>) : mode \in {"user", "tap"},
                          model \in {"e1000", "usb-net"},
                          port \in {0, 1023, 1024, 7999, 8000, 8080, 8081, 65535, 65536}}]
    \cup [extraArgs : {<<"a,b">>}] \cup [unknown : {TRUE}]
Specs ==
    {a @@ [machine |-> m, accel |-> "auto"] : a \in Asked, m \in {"q35", "virt", "raspi3b"}}
    \cup {[machine |-> m, accel |-> "auto"] : m \in {"", "a,b", "microvm"}}

Hosts == [arch : {"x86_64", "aarch64"}, kvm : BOOLEAN, portFree : {TRUE}, serialSocket : BOOLEAN]
LaunchWorlds ==
    {[With(env) EXCEPT !.specs = Specs] : env \in LaunchEnvs}
    \cup {[Base EXCEPT !.host = h, !.specs = {s \in Specs : DOMAIN s \subseteq {"machine", "accel"}}] :
          h \in Hosts}
    \cup {[With(Set("QMP_MCP_SERIAL_BACKEND", Raw("socket"))) EXCEPT
             !.host.serialSocket = TRUE, !.specs = {s \in Specs : "serial" \in DOMAIN s}]}
    \cup {[Base EXCEPT !.images.there = FALSE, !.isos.there = FALSE, !.specs = Specs]}

----------------------------------------------------------------------------
(* Commands: one of each list and one of none, in every spelling.            *)

Commands == {As(n, s) : n \in {"migrate", "query-status", "stop", "query-fdsets", ""}, s \in Spellings}
Lists == {{}, {As("", "plain")}, {As("migrate", "capitals"), As("query-fdsets", "blanks")},
          {As("stop", "capitals")}, {As("query-fdsets", "plain")}}
PolicyWorlds ==
    {[Base EXCEPT !.allow = a, !.deny = d, !.commands = Commands, !.policyFile = f,
                  !.specs = {[accel |-> "tcg"]}] :
        a \in Lists, d \in Lists,
        f \in PolicyFiles({As("migrate", "plain"), As("query-fdsets", "plain")}, {As("stop", "plain")})}

----------------------------------------------------------------------------
(* Files: images, listings and downloads.                                   *)

Creations == {[at |-> "idle", name |-> n, sizeGb |-> s] : n \in {"new", "disk", "gone", "a,b"}, s \in {0, 1, 2, 65}}
ImageWorlds ==
    {[With(Set("QMP_MCP_MAX_DISK_GB", Digits(64))) EXCEPT !.creations = Creations]}
    \cup {[Base EXCEPT !.images.there = FALSE, !.creations = Creations]}

Bad(field, value) == [Entry EXCEPT ![field] = value]
Catalogs == {{}, {<<>>}, {<<Entry, Entry>>}, {<<Entry, Bad("id", "debian")>>},
             {<<Bad("id", "-a")>>}, {<<Bad("name", " ")>>}, {<<Bad("filename", "..")>>},
             {<<Bad("filename", "out")>>}, {<<Bad("filename", "cd")>>}, {<<Bad("mirrors", {})>>},
             {<<Bad("mirrors", {[scheme |-> "file", blanks |-> FALSE]})>>},
             {<<Bad("mirrors", {[scheme |-> "http", blanks |-> TRUE]})>>}}
CatalogWorlds ==
    {[With(env @@ down) EXCEPT !.catalogFile = json, !.ids = {"alpine", "debian", "none"}] :
        env \in {<<>>, Set("QMP_MCP_ISO_CATALOG", Raw("/list.json"))},
        down \in {<<>>, On("QMP_MCP_ALLOW_DOWNLOAD")}, json \in Catalogs}

----------------------------------------------------------------------------
(* Starts: every variable, with every value its parser tells apart.          *)

Words_ == {Raw(w) : w \in {"", "x", "a b", "-a", "a+b", "a/b", "/abs", "/dir", "/no/dir", "true"}}
          \cup {Padded(Raw(w)) : w \in {"", "true", "info"}} \cup {Capitals(Raw("false"))}
Numbers_ == {Digits(n) : n \in {0, 1, 2, 60, 61, 63, 64, 65535, 65536}} \cup {Raw("huge")}
Ranges == {List(<<80>>), List(<<0, 80>>), List(<<80, 79>>), List(<<80, 65536>>), List(<<80, 80>>)}
Filters == {List(<<<<"qmp", "debug">>, <<"">>, <<"qmp", "info">>>>), List(<<<<"qmp">>>>),
            List(<<<<"nobody", "info">>>>), List(<<<<"qmp", "loud">>>>)}
WordVars == {"QMP_MCP_TRANSPORT", "QMP_MCP_LOG_LEVEL", "QMP_MCP_LOG_FILE", "QMP_MCP_AUTH",
    "QMP_MCP_ISO_DIR", "XDG_DATA_HOME", "HOME", "PATH", "QMP_MCP_ISO_CATALOG",
    "QMP_MCP_QEMU_BINARY", "QMP_MCP_FFMPEG_BINARY", "QMP_MCP_RECORDING_CODEC",
    "QMP_MCP_RECORDING_PIXFMT", "QMP_MCP_RECORDING_DIR", "QMP_MCP_SERIAL_SPOOL_DIR",
    "QMP_MCP_SERIAL_BACKEND", "QMP_MCP_VIEWER_USER", "QMP_MCP_AUTO_START",
    "QMP_MCP_ALLOW_SERIAL_WRITE", "QMP_MCP_GUEST_SHARE_DIR"}
NumberVars == {"QMP_MCP_HTTP_PORT", "QMP_MCP_VIEWER_PORT", "QMP_MCP_MAX_DISK_GB",
    "QMP_MCP_EVENT_BUFFER_SIZE", "QMP_MCP_SERIAL_BUFFER_BYTES", "QMP_MCP_RECORDING_CRF",
    "QMP_MCP_RECORDING_MAX_FPS"}
StartEnvs ==
    {Set(v, r) : v \in WordVars, r \in Words_} \cup {Set(v, r) : v \in NumberVars, r \in Numbers_}
    \cup {Set("QMP_MCP_HOSTFWD_PORT_RANGE", r) : r \in Ranges}
    \cup {Set("QMP_MCP_LOG_FILTER", r) : r \in Filters}
    \cup {Set("QMP_MCP_SERIAL_BACKEND", Raw("spool"))}
PortTaken ==
    [With(Set("QMP_MCP_TRANSPORT", Raw("both")) @@ On("QMP_MCP_ALLOW_INSECURE"))
        EXCEPT !.host.portFree = FALSE, !.specs = {[accel |-> "tcg"]}]

AllWorlds == HttpWorlds \cup LaunchWorlds \cup PolicyWorlds \cup ImageWorlds \cup CatalogWorlds
             \cup {With(env) : env \in StartEnvs} \cup {PortTaken}
=============================================================================
