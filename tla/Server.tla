-------------------------------- MODULE Server -------------------------------
(***************************************************************************)
(* The server process from the environment it is started with to what it     *)
(* lets its clients do: the start, stage by stage, the guards of the HTTP     *)
(* transport, and the tools whose effect hangs on the configuration: what     *)
(* QEMU is launched with, which QMP commands reach it, which files are made.  *)
(* A world is what one start finds: the environment, the files it names, the  *)
(* two stores, the host, and what the clients of that server will ask.  The   *)
(* tools take turns here: each answers under the Orchestrator's lock, whose    *)
(* interleavings are RustOrchestrator's; creating an image takes no lock.     *)
(***************************************************************************)
EXTENDS CommandPolicy, HardwareSpec, Config, Http

CONSTANTS
    Worlds,     \* the starts: records as described above
    Creator     \* the create_image calls that may run at one time

\* What arrives has been through a decoder already: a request has a header at
\* most once, and what a tool is given has the shape its schema says - a list is
\* a list; a creation is a name and a number.
ASSUME WorldsAssumption ==
    \A w \in Worlds :
        /\ \A r \in w.requests : \A j, k \in r.key : j = k
        /\ \A s \in w.specs : \A f \in DOMAIN s \cap {"disks", "extraArgs"} :
              Len(s[f]) \in Nat /\ DOMAIN s[f] = 1..Len(s[f])
        /\ w.creations \subseteq [at : {"idle"}, name : STRING, sizeGb : Int]

VARIABLES
    world,      \* the start this behaviour is of
    phase,      \* the stage of main, "serving", or "exited"
    config,     \* the Config, once it is loaded
    policy,     \* the Command Policy, once it is resolved
    catalog,    \* the download catalog, once it is loaded
    bound,      \* the HTTP port is bound
    served,     \* the HTTP request the MCP service has
    instance,   \* what QEMU was launched with
    sent,       \* the last command qmp_execute passed on
    images,     \* what is in the Image Store, by name
    sizes,      \* the size in GiB of the images qemu-img made
    creating,   \* each create_image call: its request and where it is in it
    made,       \* the requests create_image reported to be done
    listed,     \* the names the last list_images or list_isos gave
    fetching    \* where a download_iso was told it saves to

starting == <<config, policy, catalog>>
store == <<images, sizes, creating, made>>
answers == <<sent, listed, fetching>>
vars == <<world, phase, starting, bound, served, instance, store, answers>>

Idle == [at |-> "idle", name |-> "", sizeGb |-> 0]

Init ==
    /\ world \in Worlds
    /\ phase = "config"
    /\ config = {} /\ policy = {} /\ catalog = {}
    /\ bound = FALSE /\ served = {} /\ instance = {} /\ sent = "" /\ listed = {} /\ fetching = {}
    /\ images = world.images.entries
    /\ sizes = <<>>
    /\ creating = [c \in Creator |-> Idle]
    /\ made = {}

Cfg == CHOOSE c \in config : TRUE
ImageStore == Store(Cfg.imageDir, world.images.there, images)
IsoStore == Store(Cfg.isoDir, world.isos.there, world.isos.entries)

----------------------------------------------------------------------------
(* The start: each stage may refuse, and then the process is over.           *)

Onward(next, ok) == phase' = IF ok THEN next ELSE "exited"

ReadConfig ==
    /\ phase = "config"
    /\ config' = LoadConfig(world.env)
    /\ Onward("logging", config' # {})
    /\ UNCHANGED <<world, policy, catalog, bound, served, instance, store, answers>>

InitLogging ==
    /\ phase = "logging"
    /\ Onward("policy", Cfg.logFile = "" \/ OpenLogFile(Cfg.logFile))
    /\ UNCHANGED <<world, starting, bound, served, instance, store, answers>>

ResolveCommandPolicy ==
    /\ phase = "policy"
    /\ policy' = IF PolicyFileFails(world.policyFile) THEN {}
                 ELSE {ResolvePolicy(world.allow, world.deny, world.policyFile)}
    /\ Onward("catalog", policy' # {})
    /\ UNCHANGED <<world, config, catalog, bound, served, instance, store, answers>>

LoadIsoCatalog ==
    /\ phase = "catalog"
    /\ catalog' = LoadCatalog(Cfg.isoCatalog, world.builtin, world.catalogFile)
    /\ Onward("serving", catalog' # {})
    /\ UNCHANGED <<world, config, policy, bound, served, instance, store, answers>>

\* The port: one that is taken ends the server, and nothing tears down.
Bind ==
    /\ phase = "serving" /\ ~bound /\ ExposesHttp(Cfg.transport)
    /\ bound' = world.host.portFree
    /\ Onward("serving", bound')
    /\ UNCHANGED <<world, starting, served, instance, store, answers>>

\* A signal, or the end of the transport.
Stop ==
    /\ phase = "serving" /\ phase' = "exited"
    /\ bound' = FALSE /\ served' = {} /\ instance' = {}
    /\ UNCHANGED <<world, starting, store, answers>>

----------------------------------------------------------------------------
(* The transports.                                                          *)

HttpRequest(request) ==
    /\ bound /\ served = {}
    /\ BuildRouter(Cfg, request) = 200
    /\ served' = {request}
    /\ UNCHANGED <<world, phase, starting, bound, instance, store, answers>>

HttpRefused(request) ==
    /\ bound /\ served = {}
    /\ BuildRouter(Cfg, request) # 200
    /\ UNCHANGED vars

\* A tool is called over stdio, or by a request the MCP service has.
Called ==
    /\ phase = "serving"
    /\ Cfg.transport # "http" \/ served # {}
    /\ served' = {}
    /\ UNCHANGED <<world, phase, starting, bound>>

----------------------------------------------------------------------------
(* create_instance, destroy_instance, get_share and qmp_execute.             *)

\* An override is a name or a path: what follows the prefix is its arch.
Binary(word) ==
    IF word = "qemu-system-aarch64" THEN <<"qemu-system-", "aarch64">> ELSE <<"", word>>
TempDir(env) == ParseString(Get(env, "TMPDIR"), "/tmp")

OrchestratorOptions(accel) == [
    accel |-> accel, qmpSocketPath |-> <<TempDir(world.env), "qmp.sock">>,
    imageStore |-> ImageStore, isoStore |-> IsoStore,
    hostShareDir |-> Cfg.hostShareDir, shareReadonly |-> {~Cfg.allowShareWrite},
    serialBufferBytes |-> Cfg.serialBufferBytes, serialBackend |-> Cfg.serialBackend,
    serialSpoolDir |-> Cfg.serialSpoolDir,
    hostfwdPortRange |-> Cfg.hostfwdPortRange, allowHostNet |-> Cfg.allowHostNet,
    maxMemoryMb |-> Cfg.maxMemoryMb, maxVcpus |-> Cfg.maxVcpus,
    allowRawArgs |-> Cfg.allowRawArgs]

AssertViewerConfigured == Cfg.viewerPassword # {}

\* Validate, choose the binary and the accelerator, generate the arguments; a
\* serial socket that is there belongs to somebody else.
LaunchInstance(candidate) ==
    UNION {
        LET binary == IF Cfg.qemuBinaryOverride = "" THEN QemuBinaryForMachine(spec.machine)
                      ELSE Binary(Cfg.qemuBinaryOverride)
        IN UNION {
            {[binary |-> binary, accel |-> accel, spec |-> spec, argv |-> argv]
             : argv \in BuildArgv(spec, OrchestratorOptions(accel))}
            : accel \in ResolveAccel(spec.accel, QemuArchOfBinary(binary), world.host.arch,
                                     spec.machine, world.host.kvm)}
        : spec \in {s \in ParseHardwareSpec(candidate) :
                        /\ s.display = "vnc" => AssertViewerConfigured
                        /\ s.serial /\ Cfg.serialBackend = "socket" => ~world.host.serialSocket}}

CreateInstance(candidate) ==
    /\ Called
    /\ instance = {}
    /\ instance' = LaunchInstance(candidate)
    /\ UNCHANGED <<store, answers>>

DestroyInstance ==
    /\ Called
    /\ instance # {}
    /\ instance' = {}
    /\ UNCHANGED <<store, answers>>

\* The verdict comes before the Instance is asked for, and what is passed on
\* is the normalized name.
ExecuteCommand(command) ==
    LET verdict == DecideCommand(CHOOSE p \in policy : TRUE, command) IN
    /\ Called
    /\ sent' = IF verdict.allowed /\ instance # {} THEN verdict.command ELSE sent
    /\ UNCHANGED <<instance, store, listed, fetching>>

DescribeShare == [available |-> Cfg.hostShareDir # "", readOnly |-> ~Cfg.allowShareWrite]

----------------------------------------------------------------------------
(* The stores' tools: no lock is held.                                       *)

CreateImage(c, request) ==
    /\ Called
    /\ creating[c].at = "idle"
    /\ CreateImageArgs(request, ImageStore, Cfg.maxDiskGb) # {}
    /\ creating' = [creating EXCEPT ![c] = [request EXCEPT !.at = "running"]]
    /\ UNCHANGED <<images, sizes, made, instance, answers>>

CreateImageRefused(request) ==
    /\ Called
    /\ CreateImageArgs(request, ImageStore, Cfg.maxDiskGb) = {}
    /\ UNCHANGED <<store, instance, answers>>

Put(files, name, what) ==
    [n \in DOMAIN files \cup {name} |-> IF n = name THEN what ELSE files[n]]

\* qemu-img makes the file, over whatever is there.
QemuImgWrites(c) ==
    /\ creating[c].at = "running"
    /\ creating' = [creating EXCEPT ![c].at = "written"]
    /\ images' = Put(images, creating[c].name, "file")
    /\ sizes' = Put(sizes, creating[c].name, creating[c].sizeGb)
    /\ UNCHANGED <<world, phase, starting, bound, served, instance, made, answers>>

CreateImageEnds(c) ==
    /\ phase = "serving"
    /\ creating[c].at = "written"
    /\ made' = made \cup {[creating[c] EXCEPT !.at = "made"]}
    /\ creating' = [creating EXCEPT ![c] = Idle]
    /\ UNCHANGED <<world, phase, starting, bound, served, instance, images, sizes, answers>>

\* qemu-img fails: what it has made of the file stays.
CreateImageFails(c) ==
    /\ creating[c].at \in {"running", "written"}
    /\ creating' = [creating EXCEPT ![c] = Idle]
    /\ UNCHANGED <<world, phase, starting, bound, served, instance, images, sizes, made, answers>>

ListFiles(files) ==
    /\ Called
    /\ files # {}
    /\ listed' = CHOOSE names \in files : TRUE
    /\ UNCHANGED <<instance, store, sent, fetching>>
ListImagesTool == ListFiles(ListImages(ImageStore))
ListIsosTool == ListFiles(ListIsos(IsoStore))

\* From the gate to the path a download is told to save to; the rest of it is
\* the module Download.
DownloadIso(id) ==
    /\ Called
    /\ Cfg.allowDownload
    /\ \E entry \in FindEntry(CHOOSE e \in catalog : TRUE, id) :
        /\ ~Exists(IsoStore, entry.filename)
        /\ fetching' = ResolveInStore(entry.filename, IsoStore)
    /\ UNCHANGED <<instance, store, sent, listed>>

Next ==
    \/ ReadConfig \/ InitLogging \/ ResolveCommandPolicy \/ LoadIsoCatalog \/ Bind \/ Stop
    \/ \E request \in world.requests : HttpRequest(request) \/ HttpRefused(request)
    \/ \E candidate \in world.specs : CreateInstance(candidate)
    \/ DestroyInstance
    \/ \E command \in world.commands : ExecuteCommand(command)
    \/ \E request \in world.creations :
        CreateImageRefused(request) \/ \E c \in Creator : CreateImage(c, request)
    \/ \E c \in Creator : QemuImgWrites(c) \/ CreateImageEnds(c) \/ CreateImageFails(c)
    \/ ListImagesTool \/ ListIsosTool
    \/ \E id \in world.ids : DownloadIso(id)

Spec == Init /\ [][Next]_vars

----------------------------------------------------------------------------
(* What the operator said, read off the environment and not off the Config.  *)

Given(var) == Get(world.env, var)
Said(var) == Given(var).v = "true"
Limit(var, default) == IF IsBlank(Given(var)) THEN default ELSE Given(var).n
Listed(var) == {Given(var).list[i] : i \in DOMAIN Given(var).list} \ {<<"">>}

\* The arguments of one flag the running QEMU was started with.
Args(flag) ==
    {a \in UNION {{i.argv[k] : k \in DOMAIN i.argv} : i \in instance} : a.flag = flag}

\* No command of the hard denylist or of the operator's own deny lists ever
\* reaches QEMU, however an allow list or a caller spells it (policy.rs: the
\* hard denylist is immutable, and a deny beats an allow).
DeniedNeverSent ==
    sent # "" =>
        /\ sent \notin HardDenylist
        /\ sent \notin {e.name : e \in world.deny \cup LoadPolicyFile(world.policyFile).deny}
        /\ \/ sent \in DefaultAllowlist
           \/ sent \in {e.name : e \in world.allow \cup LoadPolicyFile(world.policyFile).allow}

\* The MCP service has a request over HTTP only if the operator exposed HTTP,
\* the page it comes from - if it comes from one - is the operator's, and it
\* carries the credential of the provider the operator chose: a key that is
\* listed and is not blank, or a token that is signed by the secret, is not
\* blank-signed and expired no longer ago than the JWT library's leeway - or the
\* operator opened the transport.
OnlyTheOperatorsCallers ==
    \A r \in served :
        /\ Given("QMP_MCP_TRANSPORT").v \in {"http", "both"}
        /\ \A o \in r.origin :
              \/ o \in Listed("QMP_MCP_HTTP_ALLOWED_ORIGINS")
              \/ /\ Listed("QMP_MCP_HTTP_ALLOWED_ORIGINS") = {}
                 /\ o[1] \in {"http://localhost", "http://127.0.0.1"}
                 /\ o[2] = Limit("QMP_MCP_HTTP_PORT", 8080)
        /\ \/ Said("QMP_MCP_ALLOW_INSECURE")
           \/ /\ Given("QMP_MCP_AUTH").v \in {"", "apikey"}
              /\ r.key # {} /\ r.key \subseteq Listed("QMP_MCP_API_KEYS")
           \/ /\ Given("QMP_MCP_AUTH").v = "jwt"
              /\ ~IsBlank(Given("QMP_MCP_JWT_SECRET"))
              /\ \E a \in r.authorization :
                    /\ a.token.secret = <<Given("QMP_MCP_JWT_SECRET").v>>
                    /\ a.token.alg = "HS256"
                    /\ \A e \in a.token.expiry : -Leeway <= e

\* Nothing QEMU is started with exceeds what the operator allows: its memory
\* and processors where the board has a choice, the host's ports, the host's
\* network, the shared directory and who may write it, raw arguments, and a
\* display only behind a Viewer that has a password; and get_share says what
\* the Guest has.
WithinTheOperatorsLimits ==
    /\ \A a \in Args("-m") : \A n \in a.numbers : n <= Limit("QMP_MCP_MAX_MEMORY_MB", 4096)
    /\ \A a \in Args("-smp") : \A n \in a.numbers : n <= Limit("QMP_MCP_MAX_VCPUS", 2)
    /\ \A a \in Args("-netdev") :
        /\ a.props \cap {"tap", "bridge"} # {} => Said("QMP_MCP_ALLOW_HOST_NET")
        /\ LET range == Given("QMP_MCP_HOSTFWD_PORT_RANGE") IN
           \A port \in a.numbers :
                IF IsBlank(range) THEN 1024 <= port /\ port <= 65535
                ELSE range.list[1] <= port /\ port <= range.list[2]
    /\ \A a \in Args("-fsdev") :
        /\ ~IsBlank(Given("QMP_MCP_HOST_SHARE_DIR"))
        /\ "readonly" \notin a.props => Said("QMP_MCP_ALLOW_SHARE_WRITE")
        /\ DescribeShare.available /\ DescribeShare.readOnly = ("readonly" \in a.props)
    /\ Args("raw") # {} => Said("QMP_MCP_ALLOW_RAW_ARGS")
    /\ Args("-vnc") # {} => ~IsBlank(Given("QMP_MCP_VIEWER_PASSWORD"))

\* What has a comma in it, unescaped.
Splits(word) == "," \in CharSet(word)
\* A letter or a digit, then what a file of a store may have in its name.
PlainName(name) ==
    /\ name # ""
    /\ CharsOf(name)[1] = "a"
    /\ CharSet(name) \subseteq {"a", ".", "_", "-"}
\* Right below the root of its store, and no link that leads out.
InStore(path, root, there, entries) ==
    LET name == path[Len(path)] IN
    /\ path = Append(root, name)
    /\ there /\ PlainName(name)
    /\ name \in DOMAIN entries => entries[name] \notin {"link_outside", "dangling"}

ImageRoot == ResolveImageDir(world.env)
IsoRoot == ResolveIsoDir(world.env)
InImages(path, root) == InStore(path, root, world.images.there, images)
InIsos(path, root) == InStore(path, root, world.isos.there, world.isos.entries)

\* The flags whose value QEMU takes as it is, the one whose value is of the
\* operator's making (-qmp), and the raw arguments, which are the caller's own
\* and are there only where the operator allows them.
NotParsed == {"-append", "-kernel", "-initrd", "-dtb", "-qmp", "raw"}
\* No word, and no part of a path.
Unsplit(a) ==
    /\ \A word \in a.words : ~Splits(word)
    /\ \A path \in a.paths : \A i \in DOMAIN path : ~Splits(path[i])

\* Every file that QEMU or a download is given for a name of the caller or of
\* the catalog is right below the root of its store (with its commas doubled
\* where QEMU parses options), and no link leads out of it; in a value that QEMU
\* parses nothing splits into a second option.  The single boards, which have no
\* PCI bus, are given no share and no device but a USB NIC; KVM is used only
\* where the host has it, and of the server's own choice only for a Guest of the
\* host's architecture on another board.  The images qemu-img made are within
\* the operator's size, and a listed name that is a name of the store resolves.
NothingReachesOut ==
    /\ \A a \in Args("-drive") : \A path \in a.paths :
        IF "cdrom" \in a.props THEN InIsos(path, EscapePath(IsoRoot))
        ELSE InImages(path, EscapePath(ImageRoot))
    /\ \A flag \in {"-kernel", "-initrd", "-dtb"} :
        \A a \in Args(flag) : \A path \in a.paths : InImages(path, ImageRoot)
    /\ \A path \in fetching : Said("QMP_MCP_ALLOW_DOWNLOAD") /\ InIsos(path, IsoRoot)
    /\ \A i \in instance : \A k \in DOMAIN i.argv :
        i.argv[k].flag \notin NotParsed => Unsplit(i.argv[k])
    /\ \A i \in instance :
        /\ IsRaspiMachine(i.spec.machine) =>
            Args("-fsdev") = {} /\ \A a \in Args("-device") : a.props = {"usb-net"}
        /\ i.accel = "kvm" => world.host.kvm
        /\ i.accel = "kvm" /\ i.spec.accel = "auto" =>
            i.binary[2] = world.host.arch /\ ~IsRaspiMachine(i.spec.machine)
    /\ \A name \in DOMAIN sizes :
        PlainName(name) /\ sizes[name] <= Limit("QMP_MCP_MAX_DISK_GB", 64)
    /\ \A name \in listed :
        PlainName(name) => \E s \in {ImageStore, IsoStore} :
            Exists(s, name) /\ ResolveInStore(name, s) # {}

\* An image that create_image reported is the one it was asked for: nothing
\* made it anew since (image_store.rs:260, "Refuse to clobber or write through
\* an existing entry").
NeverClobbered == \A r \in made : sizes[r.name] = r.sizeGb
=============================================================================
